-------------------------- MODULE TestingAllocator --------------------------
(****************************************************************************)
(* wio_testing_allocator, the realloc the tests of the files run on: a      *)
(* header with kill zones and the size goes before and behind every block,  *)
(* and both are looked at whenever the block comes back. A header is one    *)
(* unit of memory; a client may write one unit past either end of a block.  *)
(****************************************************************************)
EXTENDS Integers, FiniteSetsExt

CONSTANTS
  memory_size,     \* the memory realloc gives blocks of
  BlockSizes       \* the sizes a client asks for

VARIABLES
  heap,            \* what realloc has given: address and size
  cells,           \* the header in a unit of memory, as its size, or Bytes
  current_alloced,
  live,            \* the client's blocks
  damaged,         \* the blocks the client has written past an end of
  aborted

vars == <<heap, cells, current_alloced, live, damaged, aborted>>

Bytes == -1

Init ==
  /\ heap = {} /\ cells = [a \in 0 .. memory_size - 1 |-> Bytes]
  /\ current_alloced = 0 /\ live = {} /\ damaged = {} /\ aborted = FALSE

\* the kill zones before the block, then those behind it, and both sizes
Intact(prev) ==
  LET preamble == prev - 1 IN
  /\ cells[preamble] # Bytes
  /\ cells[prev + cells[preamble]] = cells[preamble]

\* where realloc may put `size` units, when what lies at `old` is given up
Rooms(size, old) ==
  {a \in 0 .. memory_size - size :
     \A h \in heap : h.at = old \/ a + size <= h.at \/ h.at + h.size <= a}

Nowhere == -1

\* the headers of a block at a, and what realloc moved or left between them
Headed(a, new_size) ==
  [c \in DOMAIN cells |->
     IF c \in {a, a + 1 + new_size} THEN new_size
     ELSE IF c \in a .. a + 1 + new_size THEN Bytes ELSE cells[c]]

Abort == aborted' = TRUE /\ UNCHANGED <<heap, cells, current_alloced, live, damaged>>

\* realloc, which must find room
Place(old, new_size, alloced) ==
  LET rooms == Rooms(new_size + 2, old) IN
  \/ rooms = {} /\ Abort
  \/ \E a \in rooms :
       /\ heap' = {h \in heap : h.at # old} \cup {[at |-> a, size |-> new_size + 2]}
       /\ cells' = Headed(a, new_size)
       /\ live' = {b \in live : b.at # old + 1} \cup {[at |-> a + 1, size |-> new_size]}
       /\ current_alloced' = alloced + new_size
       /\ UNCHANGED <<damaged, aborted>>

Allocate(new_size) == ~aborted /\ Place(Nowhere, new_size, current_alloced)

Reallocate(b, new_size) ==
  /\ ~aborted
  /\ IF Intact(b.at) THEN Place(b.at - 1, new_size, current_alloced - cells[b.at - 1])
     ELSE Abort

Free(b) ==
  /\ ~aborted
  /\ IF Intact(b.at)
     THEN /\ heap' = {h \in heap : h.at # b.at - 1}
          /\ live' = live \ {b}
          /\ current_alloced' = current_alloced - cells[b.at - 1]
          /\ UNCHANGED <<cells, damaged, aborted>>
     ELSE Abort

\* the client overruns a block, or writes in front of it
WriteOutside(b, at) ==
  /\ ~aborted
  /\ cells' = [cells EXCEPT ![at] = Bytes]
  /\ damaged' = damaged \cup {b}
  /\ UNCHANGED <<heap, current_alloced, live, aborted>>

Next ==
  \/ \E n \in BlockSizes : Allocate(n)
  \/ \E b \in live : (\E n \in BlockSizes : Reallocate(b, n)) \/ Free(b)
  \/ \E b \in live : \E at \in {b.at - 1, b.at + b.size} : WriteOutside(b, at)

Spec == Init /\ [][Next]_vars

-----------------------------------------------------------------------------
\* Exactly the blocks that were written past are found out, wherever realloc has
\* put them and whatever had been there; no block is lost or given twice; and
\* the count is of the bytes that are held.
OverrunsFound ==
  /\ damaged \subseteq live /\ current_alloced = MapThenSumSet(LAMBDA b : b.size, live)
  /\ \A b \in live : Intact(b.at) = (b \notin damaged)
  /\ {[at |-> b.at - 1, size |-> b.size + 2] : b \in live} = heap
  /\ \A g, h \in heap : g # h => g.at + g.size <= h.at \/ h.at + h.size <= g.at
=============================================================================
