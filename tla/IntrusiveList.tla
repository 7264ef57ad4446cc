---------------------------- MODULE IntrusiveList ----------------------------
(****************************************************************************)
(* The primitives of intrusive_list.h on a chain: its first and last node   *)
(* and the links inside the nodes, of which `prev` exists only in a doubly  *)
(* linked list.                                                             *)
(****************************************************************************)
EXTENDS Naturals, Sequences, FiniteSets

CONSTANTS
  Node,     \* the nodes, linked or not
  Null,     \* the null pointer
  Double    \* whether nodes have a `prev` link

NoChain == [first |-> Null, last |-> Null,
            next |-> [n \in Node |-> Null], prev |-> [n \in Node |-> Null]]

is_isolated(c, n) == c.next[n] = Null /\ (Double => c.prev[n] = Null)

\* a field of a node, when there is a node
Linked(field, n, to) == IF n = Null THEN field ELSE [field EXCEPT ![n] = to]

link_chain(c, before, from, to, after) ==
  [c EXCEPT !.next = Linked(Linked(@, to, after), before, from),
            !.prev = IF Double THEN Linked(Linked(@, from, before), after, to) ELSE @]

unlink_chain(c, before, from, to, after) ==
  [c EXCEPT !.next = Linked(Linked(@, to, Null), before, after),
            !.prev = IF Double THEN Linked(Linked(@, from, Null), after, before) ELSE @]

\* mutant: `last` stays where it was
extract_keeps_last(c, extract_after, what) ==
  LET first == IF extract_after = Null THEN c.next[what] ELSE c.first
  IN  [unlink_chain(c, extract_after, what, what, c.next[what]) EXCEPT
        !.first = first, !.last = IF first = Null THEN Null ELSE @]

extract_node(c, extract_after, what) ==
  LET first == IF extract_after = Null THEN c.next[what] ELSE c.first
      last == IF what = c.last THEN extract_after ELSE c.last
      emptied == first = Null \/ last = Null
  IN  [unlink_chain(c, extract_after, what, what, c.next[what]) EXCEPT
        !.first = IF emptied THEN Null ELSE first,
        !.last = IF emptied THEN Null ELSE last]

insert_node(c, insert_after, what) ==
  IF c.first = Null THEN [c EXCEPT !.first = what, !.last = what]
  ELSE IF insert_after = Null
  THEN [link_chain(c, Null, what, what, c.first) EXCEPT !.first = what]
  ELSE IF insert_after = c.last
  THEN [link_chain(c, insert_after, what, what, Null) EXCEPT !.last = what]
  ELSE link_chain(c, insert_after, what, what, c.next[insert_after])

\* whether the loop from `from` reaches `to`, and the nodes it passes; a loop
\* that comes back to a node it has passed goes on for ever
Passed(c, from) ==
  LET walk[seen \in SUBSET Node] ==
        LET ends == {n \in Node : n \in seen /\ c.next[n] \in Node \ seen}
        IN  IF ends = {} THEN seen ELSE walk[seen \cup {c.next[n] : n \in ends}]
  IN  IF from = Null THEN {} ELSE walk[{from}]

\* the nodes a walk along `next` meets, cut off where it would repeat itself
Order(c) ==
  LET walk[at \in (Node \cup {Null}) \X (0 .. Cardinality(Node))] ==
        IF at[1] = Null \/ at[2] = 0 THEN <<>> ELSE <<at[1]>> \o walk[<<c.next[at[1]], at[2] - 1>>]
  IN  walk[<<c.first, Cardinality(Node)>>]

is_connected(c, from, to) ==
  IF from = Null THEN to = Null ELSE to \in Passed(c, from)
=============================================================================
