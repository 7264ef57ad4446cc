------------------------------ MODULE StackRing ------------------------------
(****************************************************************************)
(* Stack_Ring_Allocator: a stack whose end wraps around to the start of the *)
(* buffer once enough of its oldest blocks are free. Headers chain the      *)
(* blocks both ways; a stub header spans padding. Sizes and offsets are     *)
(* kept here in bytes, the code divides them by SIZE_MULT.                  *)
(****************************************************************************)
EXTENDS Allocators

CONSTANT ResizesAnytime   \* whether clients also resize across the wrap

VARIABLES
  last_block_to, last_block_from, current_alloced, max_alloced,
  remainder_from,   \* where the blocks that are older than the wrap begin
  slots             \* the headers whose bytes no block has overwritten

pointers == <<last_block_to, last_block_from, remainder_from>>
counters == <<current_alloced, max_alloced>>
vars == <<pointers, counters, slots, live, parent>>

Init ==
  /\ last_block_to = buffer_from /\ last_block_from = buffer_from
  /\ remainder_from = buffer_to
  /\ current_alloced = 0 /\ max_alloced = 0
  /\ slots = [a \in {} |-> 0]
  /\ live = {} /\ parent = {}

Slot(prev_offset, size) == [prev_offset |-> prev_offset, size |-> size, used |-> TRUE, stub |-> FALSE]
Stub(size) == [prev_offset |-> 0, size |-> size, used |-> FALSE, stub |-> TRUE]

Put(heads, at, slot) == [a \in DOMAIN heads \cup {at} |-> IF a = at THEN slot ELSE heads[a]]

\* the headers that survive once bytes [from, to) belong to a client
Overwritten(heads, from, to) == [a \in {s \in DOMAIN heads : s < from \/ to <= s} |-> heads[a]]

PlaceFrom(block_to, align) == align_forward(block_to + SLOT, AtLeast(align, SLOT))

PlaceTo(block_to, size, align) == align_forward(PlaceFrom(block_to, align) + size, SLOT)

Fits(block_to, remainder, size, align) == PlaceTo(block_to, size, align) <= remainder

\* a block after block_to, the headers and the rest of the pointers as given
PlaceBlock(heads, block_to, block_from, remainder, size, align) ==
  LET aligned_from == PlaceFrom(block_to, align)
      aligned_to == PlaceTo(block_to, size, align)
      slot == aligned_from - SLOT
      padded == Put(heads, block_to, Stub(slot - block_to - SLOT))
  IN  /\ slots' = Overwritten(Put(padded, slot, Slot(slot - block_from, aligned_to - aligned_from)),
                              aligned_from, aligned_to)
      /\ last_block_to' = aligned_to
      /\ last_block_from' = aligned_from
      /\ remainder_from' = remainder
      /\ current_alloced' = current_alloced + aligned_to - aligned_from
      /\ max_alloced' = AtLeast(max_alloced, current_alloced')
      /\ live' = live \cup {Block(aligned_from, size, align)}
      /\ UNCHANGED parent

ParentBlock(size, align) ==
  /\ ParentAllocate(size, align, size, AtLeast(align, SLOT))
  /\ UNCHANGED counters

\* mutant: takes back one block at most
deallocate_one(from, to) ==
  IF from = to \/ slots[from].used THEN from
  ELSE IF from + slots[from].size + SLOT >= to THEN to ELSE from + slots[from].size + SLOT

\* The first header from `from` on that is used, or `to`.  None of the walks
\* over the headers would go on from one that was overwritten: it would never
\* give back what lies behind it.
deallocate_from_front(from, to) ==
  LET walk[a \in buffer_from .. buffer_to] ==
        LET next == a + slots[a].size + SLOT
        IN  IF a \notin DOMAIN slots \/ slots[a].used THEN a
            ELSE IF next >= to THEN to ELSE walk[next]
  IN  IF from = to THEN from ELSE walk[from]

Allocate(size, align) ==
  /\ Fits(last_block_to, remainder_from, size, align)
  /\ PlaceBlock(slots, last_block_to, last_block_from, remainder_from, size, align)

TooLarge(size) == size > buffer_to - buffer_from

AllocateTooLarge(size, align) ==
  /\ ~Fits(last_block_to, remainder_from, size, align) /\ TooLarge(size)
  /\ ParentBlock(size, align)
  /\ UNCHANGED <<pointers, slots>>

\* frees what it can of the oldest blocks and tries once more
AllocateFromRemainder(size, align) ==
  LET remainder == deallocate_from_front(remainder_from, buffer_to) IN
  /\ ~Fits(last_block_to, remainder_from, size, align) /\ ~TooLarge(size)
  /\ remainder_from # buffer_to
  /\ IF Fits(last_block_to, remainder, size, align)
     THEN PlaceBlock(slots, last_block_to, last_block_from, remainder, size, align)
     ELSE /\ ParentBlock(size, align)
          /\ remainder_from' = remainder
          /\ UNCHANGED <<last_block_to, last_block_from, slots>>

\* whether the free space at the front is worth giving up that at the end
WrapGains(free_to) == free_to - buffer_from > buffer_to - last_block_to

AllocateStays(size, align) ==
  /\ ~Fits(last_block_to, remainder_from, size, align) /\ ~TooLarge(size)
  /\ remainder_from = buffer_to
  /\ ~WrapGains(deallocate_from_front(buffer_from, last_block_to))
  /\ ParentBlock(size, align)
  /\ UNCHANGED <<pointers, slots>>

\* what is left of the buffer behind the last block
EndStub == Stub(buffer_to - (last_block_to + SLOT))

\* The end of the buffer becomes a stub, the front of it the free space.
AllocateWraps(size, align) ==
  LET free_to == deallocate_from_front(buffer_from, last_block_to)
      filled == Put(slots, last_block_to, EndStub)
  IN  /\ ~Fits(last_block_to, remainder_from, size, align) /\ ~TooLarge(size)
      /\ remainder_from = buffer_to
      /\ WrapGains(free_to)
      /\ IF Fits(buffer_from, free_to, size, align)
         THEN PlaceBlock(filled, buffer_from, buffer_from, free_to, size, align)
         ELSE /\ ParentBlock(size, align)
              /\ slots' = filled
              /\ last_block_to' = buffer_from /\ last_block_from' = buffer_from
              /\ remainder_from' = free_to

\* the blocks at the end that are not used, taken back one by one: where the
\* last block then begins and where it ends
deallocate_from_back(heads) ==
  LET Addresses == buffer_from .. buffer_to
      pop[last \in Addresses \X Addresses] ==
        LET slot == last[1] - SLOT
            before == slot - heads[slot].prev_offset
        IN  IF slot \notin DOMAIN heads \/ heads[slot].used THEN last
            ELSE IF before <= buffer_from THEN <<buffer_from, buffer_from>>
            ELSE pop[<<before, slot>>]
      last == <<last_block_from, last_block_to>>
  IN  IF last_block_from = buffer_from THEN last ELSE pop[last]

\* the bytes the header counts, to which neighbours may have been merged
FreedBytes(b) == slots[b.at - SLOT].size

Deallocate(b) ==
  LET slot == b.at - SLOT
      heads == [slots EXCEPT ![slot].used = FALSE]
      last == deallocate_from_back(heads)
  IN  /\ InBuffer(b)
      /\ slots' = heads
      /\ current_alloced' = current_alloced - FreedBytes(b)
      /\ last_block_from' = last[1]
      /\ last_block_to' = last[2]
      /\ live' = live \ {b}
      /\ UNCHANGED <<remainder_from, max_alloced, parent>>

DeallocateOverflow(b) ==
  /\ ~InBuffer(b) /\ ParentDeallocate(b)
  /\ UNCHANGED <<pointers, counters, slots>>

\* Where a block at ptr may end when it is to hold new_size bytes: after the
\* free blocks that follow it, or anywhere up to the end of the buffer when it
\* is the last; "none" when a used block is in the way.
ResizedEnd(ptr, new_size) ==
  LET walk[current \in buffer_from .. buffer_to] ==
        LET next == current + slots[current].size + SLOT
        IN  IF current \notin DOMAIN slots THEN [kind |-> "none", to |-> 0]
            ELSE IF next >= last_block_to
            THEN IF ptr + new_size > buffer_to THEN [kind |-> "none", to |-> 0]
                 ELSE [kind |-> "last", to |-> align_forward(ptr + new_size, SLOT)]
            ELSE IF next - ptr >= new_size /\ ~slots[next].stub
            THEN [kind |-> "merged", to |-> next]
            ELSE IF slots[next].used THEN [kind |-> "none", to |-> 0]
            ELSE walk[next]
  IN  walk[ptr - SLOT]

\* The walk knows of last_block_to and the end of the buffer only.  While older
\* blocks are still behind the wrap it takes one of them for the last block, and
\* lets the last one grow over them; clients do neither, unless ResizesAnytime.
ResizesApart(b, end) == b.at <= last_block_to /\ end.to <= remainder_from

Resize(b, new_size) ==
  LET end == ResizedEnd(b.at, new_size)
      slot == b.at - SLOT
      reduced == end.to - b.at
      relinked == IF end.kind = "merged"
                  THEN [slots EXCEPT ![end.to].prev_offset = reduced] ELSE slots
  IN  /\ InBuffer(b) /\ (ResizesAnytime \/ ResizesApart(b, end))
      /\ end.kind # "none"
      /\ slots' = Overwritten([relinked EXCEPT ![slot].size = reduced], b.at, end.to)
      /\ last_block_to' = IF end.kind = "last" THEN end.to ELSE last_block_to
      /\ current_alloced' = current_alloced + reduced - slots[slot].size
      /\ live' = (live \ {b}) \cup {Block(b.at, new_size, b.align)}
      /\ UNCHANGED <<last_block_from, remainder_from, max_alloced, parent>>

ResizeOverflow(b, new_size) ==
  /\ ~InBuffer(b) /\ ParentResize(b)
  /\ UNCHANGED <<pointers, counters, slots>>

Next ==
  \/ /\ Cardinality(live) < MaxLive
     /\ \E r \in Requests :
          \/ Allocate(r[1], r[2])
          \/ AllocateTooLarge(r[1], r[2])
          \/ AllocateFromRemainder(r[1], r[2])
          \/ AllocateStays(r[1], r[2])
          \/ AllocateWraps(r[1], r[2])
  \/ \E b \in live : Deallocate(b) \/ DeallocateOverflow(b)
  \/ \E b \in live, n \in ResizeSizes : Resize(b, n) \/ ResizeOverflow(b, n)

Spec == Init /\ [][Next]_vars

-----------------------------------------------------------------------------
\* The headers a walk from `from` to `to` meets; it stops at a header whose
\* bytes are lost and where it leaves the range.
WalkTo(from, to) ==
  LET walk[a \in buffer_from .. buffer_to] ==
        IF a = to THEN {}
        ELSE IF a \notin DOMAIN slots \/ a + slots[a].size + SLOT > to THEN {a}
        ELSE {a} \cup walk[a + slots[a].size + SLOT]
  IN  walk[from]

\* The headers tile the used part of the buffer on both sides of the gap, and
\* the used ones are those of the client's blocks: however blocks were freed,
\* resized and wrapped, no walk reads a byte a client wrote or misses a block.
ChainWhole ==
  LET walked == WalkTo(buffer_from, last_block_to) \cup WalkTo(remainder_from, buffer_to)
  IN  /\ walked \subseteq DOMAIN slots
      /\ \A a \in walked : a + slots[a].size + SLOT
                             \in walked \cup {last_block_to, buffer_to}
      /\ {a \in walked : slots[a].used} = {b.at - SLOT : b \in {c \in live : InBuffer(c)}}

\* The bytes counted as allocated are those between the headers of the blocks
\* the client holds, through merges, freed neighbours and wraps.
RingCounted ==
  current_alloced = MapThenSumSet(LAMBDA b : slots[b.at - SLOT].size, {b \in live : InBuffer(b)})

\* Once the client holds nothing the whole buffer is one block again, whatever
\* was freed in whatever order on either side of the wrap.
WholeWhenFreed ==
  (\A b \in live : ~InBuffer(b)) =>
    /\ last_block_to = buffer_from /\ last_block_from = buffer_from
    /\ deallocate_from_front(remainder_from, buffer_to) = buffer_to
=============================================================================
