--------------------------- MODULE StackAllocator ---------------------------
(****************************************************************************)
(* Stack_Allocator: every block has a header that says how far back the     *)
(* previous block lies and whether the block is used, so that blocks freed  *)
(* out of order are taken back once those above them are freed.             *)
(****************************************************************************)
EXTENDS Allocators

VARIABLES
  last_block_to, last_block_from, current_alloced, max_alloced,
  slots     \* the headers whose bytes no block has overwritten

vars == <<last_block_to, last_block_from, current_alloced, max_alloced, slots, live, parent>>

Init ==
  /\ last_block_to = buffer_from /\ last_block_from = buffer_from
  /\ current_alloced = 0 /\ max_alloced = 0
  /\ slots = [a \in {} |-> [prev_offset |-> 0, used |-> FALSE]]
  /\ live = {} /\ parent = {}

\* the headers that survive once bytes [from, to) belong to a client
Overwritten(from, to) ==
  [a \in {s \in DOMAIN slots : s + SLOT <= from \/ to <= s} |-> slots[a]]

Put(heads, at, slot) == [a \in DOMAIN heads \cup {at} |-> IF a = at THEN slot ELSE heads[a]]

AlignedFrom(align) == align_forward(last_block_to + SLOT, AtLeast(align, SLOT))

Fits(size, align) == AlignedFrom(align) + size <= buffer_to

Allocate(size, align) ==
  LET aligned_from == AlignedFrom(align)
      slot == aligned_from - SLOT
  IN  /\ Fits(size, align)
      /\ slots' = Put(Overwritten(aligned_from, aligned_from + size), slot,
                      [prev_offset |-> slot - last_block_from, used |-> TRUE])
      /\ current_alloced' = current_alloced + size
      /\ max_alloced' = AtLeast(max_alloced, current_alloced')
      /\ last_block_to' = aligned_from + size
      /\ last_block_from' = aligned_from
      /\ live' = live \cup {Block(aligned_from, size, align)}
      /\ UNCHANGED parent

\* the size stands for the alignment in the call to the parent
AllocateOverflow(size, align) ==
  /\ ~Fits(size, align)
  /\ ParentAllocate(size, align, size, size)
  /\ UNCHANGED <<last_block_to, last_block_from, current_alloced, max_alloced, slots>>

\* mutant: takes back one block at most
PopOne(heads, last_from, last_to) ==
  LET slot == last_from - SLOT
      before == slot - heads[slot].prev_offset
  IN  IF heads[slot].used THEN <<last_from, last_to>>
      ELSE IF before <= buffer_from THEN <<buffer_from, buffer_from>>
      ELSE <<before, slot>>

\* The last blocks that are not used, taken back one by one: where the last
\* block then begins and where it ends.  The walk would not go on from a header
\* that was overwritten, and the stack would never be empty again.
PopUnused(heads, last_from, last_to) ==
  LET Addresses == buffer_from .. buffer_to
      pop[last \in Addresses \X Addresses] ==
        LET slot == last[1] - SLOT
            before == slot - heads[slot].prev_offset
        IN  IF slot \notin DOMAIN heads \/ heads[slot].used THEN last
            ELSE IF before <= buffer_from THEN <<buffer_from, buffer_from>>
            ELSE pop[<<before, slot>>]
  IN  pop[<<last_from, last_to>>]

\* the header of the block says that it is not used
Marked(b) == [slots EXCEPT ![b.at - SLOT].used = FALSE]

Deallocate(b) ==
  LET heads == Marked(b)
      last == PopUnused(heads, last_block_from, last_block_to)
  IN  /\ InBuffer(b)
      /\ slots' = heads
      /\ last_block_from' = last[1]
      /\ last_block_to' = last[2]
      /\ current_alloced' = current_alloced - b.size
      /\ live' = live \ {b}
      /\ UNCHANGED <<max_alloced, parent>>

DeallocateOverflow(b) ==
  /\ ~InBuffer(b) /\ ParentDeallocate(b)
  /\ UNCHANGED <<last_block_to, last_block_from, current_alloced, max_alloced, slots>>

\* moves the end of the last block, and still answers that it failed
Resize(b, new_size) ==
  /\ InBuffer(b) /\ current_alloced + new_size <= MaxCount
  /\ IF last_block_from = b.at /\ b.at + new_size <= buffer_to
     THEN /\ last_block_to' = b.at + new_size
          /\ current_alloced' = current_alloced + new_size - b.size
     ELSE UNCHANGED <<last_block_to, current_alloced>>
  /\ UNCHANGED <<last_block_from, max_alloced, slots, live, parent>>

ResizeOverflow(b, new_size) ==
  /\ ~InBuffer(b) /\ ParentResize(b)
  /\ UNCHANGED <<last_block_to, last_block_from, current_alloced, max_alloced, slots>>

Next ==
  \/ /\ Cardinality(live) < MaxLive
     /\ \E r \in Requests : Allocate(r[1], r[2]) \/ AllocateOverflow(r[1], r[2])
  \/ \E b \in live : Deallocate(b) \/ DeallocateOverflow(b)
  \/ \E b \in live, n \in ResizeSizes :
       Grows(b, n) /\ (Resize(b, n) \/ ResizeOverflow(b, n))

Spec == Init /\ [][Next]_vars

-----------------------------------------------------------------------------
\* However the blocks were freed, a stack with no block left is empty again:
\* the walk over the headers crosses every block freed out of order.
EmptyWhenFreed ==
  (\A b \in live : ~InBuffer(b)) => last_block_to = buffer_from /\ last_block_from = buffer_from

\* The header of every block the client holds is intact and says used.
HeadersIntact ==
  \A b \in live : InBuffer(b) => b.at - SLOT \in DOMAIN slots /\ slots[b.at - SLOT].used
=============================================================================
