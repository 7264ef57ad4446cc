----------------------------- MODULE LinkedList -----------------------------
(****************************************************************************)
(* A client of the intrusive list: it inserts and extracts nodes and moves  *)
(* a chain of nodes to the end of the list.                                 *)
(****************************************************************************)
EXTENDS IntrusiveList

VARIABLE chain

Init == chain = NoChain

InList == Passed(chain, chain.first)

\* the node in front of this one, by a walk from the first
Before(n) ==
  IF n = chain.first THEN Null ELSE CHOOSE m \in InList : chain.next[m] = n

Insert(after, n) ==
  /\ n \notin InList /\ is_isolated(chain, n)
  /\ (chain.first = Null => after = Null)
  /\ chain' = insert_node(chain, after, n)

Extract(n) == chain' = extract_node(chain, Before(n), n)

\* unlink_chain and link_chain by a client that keeps `last` itself
MoveToEnd(from, to) ==
  /\ from # chain.first /\ to # chain.last
  /\ to \in Passed(chain, from)
  /\ LET unlinked == unlink_chain(chain, Before(from), from, to, chain.next[to])
     IN  chain' = [link_chain(unlinked, chain.last, from, to, Null) EXCEPT !.last = to]

Next ==
  \/ \E after \in InList \cup {Null}, n \in Node : Insert(after, n)
  \/ \E n \in InList : Extract(n)
  \/ \E from, to \in InList : MoveToEnd(from, to)

Spec == Init /\ [][Next]_chain

-----------------------------------------------------------------------------
items == Order(chain)
Abstract == INSTANCE ItemSequence

\* The chain ends at `last`, its `prev` links undo its `next` links, and a node
\* that is not in it links to nothing: whatever was inserted, extracted or
\* moved, at the ends, in the middle or alone.
LinksMatch ==
  /\ is_connected(chain, chain.first, chain.last)
  /\ chain.last # Null => chain.next[chain.last] = Null
  /\ \A n \in Node \ InList : is_isolated(chain, n)
  /\ Double => \A n \in InList : chain.prev[n] = Before(n)

\* Each operation makes of the sequence of nodes that a walk meets what is asked
\* of it: a node put behind another one or in front of all, that one taken out, the
\* nodes from one to another moved behind all others.
Follows ==
  /\ \A n \in Node : Insert(Null, n) => Abstract!Insert(0, n)
  /\ \A at \in 1 .. Len(items) :
       /\ \A n \in Node : Insert(items[at], n) => Abstract!Insert(at, n)
       /\ Extract(items[at]) => Abstract!TakeOut(at - 1)
  /\ \A i, j \in 1 .. Len(items) :
       MoveToEnd(items[i], items[j]) =>
         items' = SubSeq(items, 1, i - 1) \o SubSeq(items, j + 1, Len(items)) \o SubSeq(items, i, j)

NodesFollow == [][Follows]_chain
=============================================================================
