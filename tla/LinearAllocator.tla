--------------------------- MODULE LinearAllocator ---------------------------
(****************************************************************************)
(* Linear_Allocator: blocks are cut from the front of a buffer, and only    *)
(* the last one can be taken back.                                          *)
(****************************************************************************)
EXTENDS Allocators

VARIABLES
  last_block_to,     \* the first byte no block has used
  last_block_from,   \* the block that ends there
  current_alloced,   \* the bytes the client is believed to hold
  max_alloced        \* their maximum

vars == <<last_block_to, last_block_from, current_alloced, max_alloced, live, parent>>

Init ==
  /\ last_block_to = buffer_from /\ last_block_from = buffer_from
  /\ current_alloced = 0 /\ max_alloced = 0
  /\ live = {} /\ parent = {}

\* mutant: the end of the block without its alignment
FitsUnaligned(size, align) == last_block_to + size <= buffer_to

Fits(size, align) == align_forward(last_block_to, align) + size <= buffer_to

Allocate(size, align) ==
  LET aligned_from == align_forward(last_block_to, align) IN
  /\ Fits(size, align)
  /\ current_alloced' = current_alloced + size
  /\ max_alloced' = AtLeast(max_alloced, current_alloced')
  /\ last_block_to' = aligned_from + size
  /\ last_block_from' = aligned_from
  /\ live' = live \cup {Block(aligned_from, size, align)}
  /\ UNCHANGED parent

AllocateOverflow(size, align) ==
  /\ ~Fits(size, align)
  /\ ParentAllocate(size, align, size, align)
  /\ UNCHANGED <<last_block_to, last_block_from, current_alloced, max_alloced>>

Deallocate(b) ==
  /\ InBuffer(b)
  /\ last_block_to' = IF b.at = last_block_from /\ b.at + b.size = last_block_to
                      THEN last_block_from ELSE last_block_to
  /\ current_alloced' = current_alloced - b.size
  /\ live' = live \ {b}
  /\ UNCHANGED <<last_block_from, max_alloced, parent>>

DeallocateOverflow(b) ==
  /\ ~InBuffer(b) /\ ParentDeallocate(b)
  /\ UNCHANGED <<last_block_to, last_block_from, current_alloced, max_alloced>>

\* moves the end of the last block, and still answers that it failed
Resize(b, new_size) ==
  /\ InBuffer(b) /\ current_alloced + new_size <= MaxCount
  /\ IF last_block_from = b.at /\ b.at + new_size <= buffer_to
     THEN /\ last_block_to' = b.at + new_size
          /\ current_alloced' = current_alloced + new_size - b.size
     ELSE UNCHANGED <<last_block_to, current_alloced>>
  /\ UNCHANGED <<last_block_from, max_alloced, live, parent>>

ResizeOverflow(b, new_size) ==
  /\ ~InBuffer(b) /\ ParentResize(b)
  /\ UNCHANGED <<last_block_to, last_block_from, current_alloced, max_alloced>>

Next ==
  \/ /\ Cardinality(live) < MaxLive
     /\ \E r \in Requests : Allocate(r[1], r[2]) \/ AllocateOverflow(r[1], r[2])
  \/ \E b \in live : Deallocate(b) \/ DeallocateOverflow(b)
  \/ \E b \in live, n \in ResizeSizes :
       Grows(b, n) /\ (Resize(b, n) \/ ResizeOverflow(b, n))

Spec == Init /\ [][Next]_vars

-----------------------------------------------------------------------------
\* The bytes reported as allocated are never fewer than the client holds in
\* the buffer, although a resize that is refused changes the count.
AllocatedCounted ==
  current_alloced >= SizesOf({b \in live : InBuffer(b)})
=============================================================================
