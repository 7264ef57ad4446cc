------------------------------ MODULE SlotArray ------------------------------
(****************************************************************************)
(* Slot_Array of slot_array.h: items packed at the start of an array, and   *)
(* slots that follow them when they move.  A handle is the number of a slot *)
(* plus an offset.  The slot holds the index of its item, or, when it is    *)
(* free, the next free slot; and slot i also holds the owner of item i, the *)
(* slot that refers to it.  Items and slots share one allocation.           *)
(****************************************************************************)
EXTENDS FreeList

CONSTANTS
  Item,              \* what the clients store
  Word,              \* number of values of a uint32_t, 2^32 in the code
  handle_offset,
  LeastGrowth,       \* 8 in the code
  ReserveSizes,      \* the sizes clients reserve
  ReservesAnytime,   \* whether they also reserve while there are free slots
  Outcomes,          \* what the allocator does: "resize", "allocate", "fail"
  Junk,              \* the numbers that memory may hold that nobody wrote
  MaxCapacity        \* bound: no more slots are asked for

ASSUME SlotAssumption ==
  /\ Item # {}
  /\ Word \in Nat /\ handle_offset \in 0 .. Word - 1
  /\ LeastGrowth \in Nat \ {0} /\ ReserveSizes \subseteq Nat
  /\ ReservesAnytime \in BOOLEAN
  /\ Outcomes \subseteq {"resize", "allocate", "fail"}
  /\ Junk \subseteq 0 .. Word - 1 /\ Junk # {}
  /\ MaxCapacity \in Nat /\ MaxCapacity < Word

VARIABLES
  data,        \* the items, by index
  slots,       \* of every slot: item (or next, in the same memory) and owner
  size, capacity, free_list,
  block,       \* the memory of items and slots: "none", "held" or "freed"
  pc,          \* "idle", "insert" (an insertion has grown), "panic", "gone"
  inserting,   \* the item of the insertion
  live         \* history: the slots whose handles the clients hold

vars == <<data, slots, size, capacity, free_list, block, pc, inserting, live>>

NONE == Word - 1   \* (uint32_t) -1

Slot == [item : 0 .. Word - 1, owner : 0 .. Word - 1]

Init ==
  /\ data = <<>> /\ slots = <<>>
  /\ size = 0 /\ capacity = 0 /\ free_list = NONE
  /\ block = "none"
  /\ pc = "idle" /\ inserting = CHOOSE x \in Item : TRUE
  /\ live = {}

ToSlot(handle) == (handle - handle_offset) % Word
ToHandle(slot) == (slot + handle_offset) % Word

-----------------------------------------------------------------------------
(* set_capacity_failing, to a larger capacity *)

\* faulty: the last new slot links the slot after it
LinkPastEnd(i, n) == i + 1

\* the link of the new slot i
LinkOf(i, n) == IF i = n - 1 THEN free_list ELSE i + 1

\* the slots of the first _size items are copied, the slots up to the old capacity
\* are not, and those from there on are linked in front of the free list
NewSlots(n, junk) ==
  [i \in 0 .. n - 1 |->
     IF i < size          THEN slots[i]
     ELSE IF i < capacity THEN [item |-> junk[i], owner |-> junk[i]]
     ELSE [item |-> LinkOf(i, n), owner |-> NONE]]

\* the memory is resized in place or allocated anew; the memory the items were in
\* is deallocated either way
SetCapacity(n) ==
  /\ n <= MaxCapacity
  /\ \E junk \in [size .. capacity - 1 -> Junk] : slots' = NewSlots(n, junk)
  /\ \/ "resize" \in Outcomes /\ block = "held" /\ block' = "freed"
     \/ "allocate" \in Outcomes /\ block' = "held"
  /\ free_list' = capacity
  /\ capacity' = n
  /\ UNCHANGED <<data, size>>

SetCapacityFails ==
  "fail" \in Outcomes /\ UNCHANGED <<data, slots, size, capacity, free_list, block>>

\* reserve and reserve_failing: only the first one reports a failure to the
\* handler, which stops the program
Reserve(n) ==
  /\ pc = "idle" /\ capacity < n
  /\ ReservesAnytime \/ size = capacity
  /\ \/ SetCapacity(n) /\ UNCHANGED pc
     \/ SetCapacityFails /\ pc' \in {"idle", "panic"}
  /\ UNCHANGED <<inserting, live>>

\* faulty: one and a half times as much, which is nothing at the beginning
HalfMore == (size * 3) \div 2

\* grow, for one more item: this is always enough
GrownCapacity == (size * 3) \div 2 + LeastGrowth

BeginInsert(x) ==
  /\ pc = "idle"
  /\ inserting' = x
  /\ \/ capacity >= size + 1 /\ pc' = "insert"
        /\ UNCHANGED <<data, slots, size, capacity, free_list, block>>
     \/ capacity < size + 1 /\ SetCapacity(GrownCapacity) /\ pc' = "insert"
     \/ capacity < size + 1 /\ SetCapacityFails /\ pc' = "panic"
  /\ UNCHANGED live

\* the item is put at the end and owned by the first free slot: there is one, see
\* InsertHasSlot
FinishInsert ==
  /\ pc = "insert"
  /\ free_list < capacity
  /\ data' = [i \in 0 .. size |-> IF i < size THEN data[i] ELSE inserting]
  /\ slots' = [slots EXCEPT ![free_list].item = size, ![size].owner = free_list]
  /\ free_list' = slots[free_list].item
  /\ size' = size + 1
  /\ live' = live \cup {free_list}
  /\ pc' = "idle"
  /\ UNCHANGED <<capacity, block, inserting>>

\* faulty: the owner of the item that moves is not stored with its new place
RelinkItemOnly(removed, exchange, item) ==
  [slots EXCEPT ![exchange].item = item, ![removed].item = free_list]

\* the exchanged slot and item refer to each other, and then, which may be the same
\* slot, the removed slot links the free list
Relink(removed, exchange, item) ==
  [slots EXCEPT ![exchange].item = item, ![item].owner = exchange,
                ![removed].item = free_list]

\* faulty: the items after the removed one are moved, as in an array in order
ItemsMoved(item, last) ==
  [i \in 0 .. last - 1 |-> IF i < item THEN data[i] ELSE data[i + 1]]

ItemsWithout(item, last) ==
  [i \in 0 .. last - 1 |-> IF i = item THEN data[last] ELSE data[i]]

\* the last item is moved to the place of the removed one
Remove(handle) ==
  LET removed  == ToSlot(handle)
      last     == size - 1
      exchange == slots[last].owner
      item     == slots[removed].item
  IN  /\ pc = "idle" /\ removed \in live
      /\ slots' = Relink(removed, exchange, item)
      /\ data' = ItemsWithout(item, last)
      /\ free_list' = removed
      /\ size' = last
      /\ live' = live \ {removed}
      /\ UNCHANGED <<capacity, block, pc, inserting>>

\* the destructor: the capacity becomes 0, the items are destroyed
Destroy ==
  /\ pc = "idle"
  /\ pc' = "gone"
  /\ data' = <<>> /\ slots' = <<>> /\ size' = 0 /\ capacity' = 0
  /\ block' = IF block = "none" THEN "none" ELSE "freed"
  /\ UNCHANGED <<free_list, inserting, live>>

\* what the program does after its memory was freed is not defined
Next ==
  /\ block # "freed"
  /\ \/ \E n \in ReserveSizes : Reserve(n)
     \/ \E x \in Item : BeginInsert(x)
     \/ FinishInsert
     \/ \E s \in live : Remove(ToHandle(s))
     \/ Destroy

Spec == Init /\ [][Next]_vars

-----------------------------------------------------------------------------
(* Properties *)

TypeOK ==
  /\ size \in Nat /\ capacity \in 0 .. MaxCapacity
  /\ data \in [0 .. size - 1 -> Item]
  /\ slots \in [0 .. capacity - 1 -> Slot]
  /\ free_list \in 0 .. Word - 1
  /\ block \in {"none", "held", "freed"}
  /\ pc \in {"idle", "insert", "panic", "gone"} /\ inserting \in Item
  /\ live \subseteq 0 .. MaxCapacity

\* "all items must form closed loop": the owner of every item refers back to it,
\* whatever was removed, exchanged and reallocated
ItemsFormLoops ==
  \A i \in 0 .. size - 1 :
    slots[i].owner < capacity /\ slots[slots[i].owner].item = i

\* an insertion is given a slot that no handle names, and the free list holds as
\* many slots as there is room for items
FreeListWhole ==
  pc # "gone" =>
    LET unused == 0 .. capacity - 1 \ live
    IN  /\ Cardinality(unused) = capacity - size
        /\ ListIs(free_list, [i \in 0 .. capacity - 1 |-> slots[i].item], NONE, unused)

\* What the code does not keep when the allocator resizes in place.
\* The memory that is in use is allocated: "If succeeds return true and the
\* allocation is now considered to be new_size long"
MemoryHeld == capacity > 0 => block = "held"

\* after growing there is a free slot: "should be valid!"
InsertHasSlot == pc = "insert" => free_list < capacity

-----------------------------------------------------------------------------
(* Refinement *)

LiveHandles == {ToHandle(s) : s \in live}
Store == [h \in IF pc = "gone" THEN {} ELSE LiveHandles |-> data[slots[ToSlot(h)].item]]

HS == INSTANCE HandleStore WITH Handle <- 0 .. Word - 1, store <- Store,
                           alive <- pc # "gone"

\* a handle names the item it was returned for, wherever the item is moved when
\* others are removed, until it is removed itself
IsHandleStore == HS!Spec
=============================================================================
