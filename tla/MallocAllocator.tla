--------------------------- MODULE MallocAllocator ---------------------------
(****************************************************************************)
(* Malloc_Allocator: blocks of the C heap, with room for an alignment and a *)
(* header in front of the block when the alignment is larger than a word.   *)
(****************************************************************************)
EXTENDS Allocators

CONSTANTS
  HEADER,     \* sizeof(Aligned_Malloc_Header)
  MaxCalls    \* bound on the calls that are counted

VARIABLES
  heap,       \* what malloc has given and was not freed: address and size
  padding,    \* the header in front of an aligned block
  total_alloced, max_alloced,
  allocation_count, deallocation_count, resize_count

counts == <<allocation_count, deallocation_count, resize_count>>
vars == <<heap, padding, total_alloced, max_alloced, counts, live, parent>>

Init ==
  /\ heap = {} /\ padding = [a \in {} |-> 0]
  /\ total_alloced = 0 /\ max_alloced = 0
  /\ allocation_count = 0 /\ deallocation_count = 0 /\ resize_count = 0
  /\ live = {} /\ parent = {}

\* where malloc finds room, anywhere between the blocks it has given
MallocAt(size) ==
  {a \in buffer_from .. buffer_to - size :
     /\ a % SLOT = 0
     /\ \A h \in heap : a + size <= h.at \/ h.at + h.size <= a}

Counted(size) ==
  /\ total_alloced' = total_alloced + size
  /\ max_alloced' = AtLeast(max_alloced, total_alloced')
  /\ allocation_count' = allocation_count + 1
  /\ UNCHANGED <<deallocation_count, resize_count, parent>>

Allocate(size, align) ==
  /\ align <= SLOT
  /\ \E original \in MallocAt(size) :
       /\ heap' = heap \cup {[at |-> original, size |-> size]}
       /\ live' = live \cup {Block(original, size, align)}
  /\ Counted(size)
  /\ UNCHANGED padding

AllocateAligned(size, align) ==
  LET whole == size + align + HEADER IN
  /\ align > SLOT
  /\ \E original \in MallocAt(whole) :
       LET aligned == align_forward(original + HEADER, align) IN
       /\ heap' = heap \cup {[at |-> original, size |-> whole]}
       /\ padding' = [a \in DOMAIN padding \cup {aligned} |->
                        IF a = aligned THEN aligned - original ELSE padding[a]]
       /\ live' = live \cup {Block(aligned, size, align)}
  /\ Counted(size)

\* malloc has no room
AllocateFails(size, align) ==
  /\ MallocAt(IF align <= SLOT THEN size ELSE size + align + HEADER) = {}
  /\ UNCHANGED vars

\* what aligned_free hands to free
Original(b) == IF b.align <= SLOT THEN b.at ELSE b.at - padding[b.at]

Deallocate(b) ==
  /\ heap' = {h \in heap : h.at # Original(b)}
  /\ padding' = [a \in DOMAIN padding \ {b.at} |-> padding[a]]
  /\ live' = live \ {b}
  /\ total_alloced' = total_alloced - b.size
  /\ deallocation_count' = deallocation_count + 1
  /\ UNCHANGED <<max_alloced, allocation_count, resize_count, parent>>

Resize(b, new_size) ==
  /\ resize_count' = resize_count + 1
  /\ UNCHANGED <<heap, padding, total_alloced, max_alloced, allocation_count,
                 deallocation_count, live, parent>>

Next ==
  \/ /\ Cardinality(live) < MaxLive /\ allocation_count < MaxCalls
     /\ \E r \in Requests :
          \/ Allocate(r[1], r[2])
          \/ AllocateAligned(r[1], r[2])
          \/ AllocateFails(r[1], r[2])
  \/ \E b \in live : Deallocate(b)
  \/ \E b \in live, n \in ResizeSizes : resize_count < 1 /\ Resize(b, n)

Spec == Init /\ [][Next]_vars

-----------------------------------------------------------------------------
\* free gets the very pointer malloc gave, and a block with its header lies
\* inside what malloc gave for it, so that nothing overruns a neighbour.
FreeMatches ==
  /\ \A b \in live : \E h \in heap :
       /\ Original(b) = h.at
       /\ b.at - (IF b.align <= SLOT THEN 0 ELSE HEADER) >= h.at
       /\ b.at + b.size <= h.at + h.size
  /\ Cardinality(heap) = Cardinality(live)

\* The counters agree with what the client holds.
MallocCounted ==
  /\ total_alloced = SizesOf(live)
  /\ allocation_count - deallocation_count = Cardinality(live)
=============================================================================
