--------------------------- MODULE SlotArray_proofs ---------------------------
(****************************************************************************)
(* Slot_Array for every capacity and every sequence of calls of clients     *)
(* that reserve only while there is no free slot, which is what insert      *)
(* itself does.                                                             *)
(****************************************************************************)
EXTENDS SlotArray, ListLemmas

Slots == 0 .. capacity - 1
FreeSlots == Slots \ live
Next_(s) == [i \in Slots |-> s[i].item]

\* every item has an owner among the slots in use that refers back to it
OwnersReferBack ==
  \A i \in 0 .. size - 1 : slots[i].owner \in live /\ slots[slots[i].owner].item = i

\* every slot in use refers to an item whose owner it is
SlotsAreOwners ==
  \A s \in live :
    /\ s \in Slots
    /\ slots[s].item \in 0 .. size - 1
    /\ slots[slots[s].item].owner = s

FreeSlotsLinked == IsLinked(free_list, Next_(slots), NONE, FreeSlots, capacity - size)

Connected == OwnersReferBack /\ SlotsAreOwners /\ FreeSlotsLinked

IInv ==
  /\ TypeOK
  /\ pc # "gone" => Connected
  /\ pc = "insert" => size < capacity
  /\ pc = "gone" => size = 0

Bounds == /\ MaxCapacity \in Nat /\ Word \in Nat /\ MaxCapacity < Word
          /\ size \in Nat /\ capacity \in 0 .. MaxCapacity
          /\ NONE \in 0 .. Word - 1

LEMMA InBounds == ASSUME TypeOK PROVE Bounds
  BY SlotAssumption DEF TypeOK, Bounds, NONE

\* the initial states satisfy the invariant
LEMMA InitInv == Init => IInv
<1> SUFFICES ASSUME Init PROVE IInv
  OBVIOUS
<1>1. /\ size = 0 /\ capacity = 0 /\ free_list = NONE /\ live = {} /\ pc = "idle"
      /\ data = <<>> /\ slots = <<>> /\ block = "none"
      /\ inserting = CHOOSE x \in Item : TRUE
  BY DEF Init
<1>2. inserting \in Item
  BY <1>1, SlotAssumption
<1>3. 0 .. size - 1 = {} /\ Slots = {} /\ FreeSlots = {}
  BY <1>1 DEF Slots, FreeSlots
<1>4. TypeOK
  BY <1>1, <1>2, <1>3, SlotAssumption DEF TypeOK, NONE, Slots
<1>5. IsLinked(NONE, Next_(slots), NONE, {}, 0)
  BY LinkedNothing
<1>6. FreeSlotsLinked
  BY <1>1, <1>3, <1>5 DEF FreeSlotsLinked
<1>7. OwnersReferBack /\ SlotsAreOwners
  BY <1>1, <1>3 DEF OwnersReferBack, SlotsAreOwners
<1> QED BY <1>1, <1>4, <1>6, <1>7 DEF IInv, Connected

-----------------------------------------------------------------------------
(* The capacity grows while every slot is in use *)

LEMMA GrowthConnected ==
  ASSUME TypeOK, Connected, size = capacity,
         NEW n \in Nat, n > capacity, SetCapacity(n),
         live' = live, pc' # "gone"
  PROVE  /\ size' = size /\ data' = data
         /\ capacity' \in 0 .. MaxCapacity /\ slots' \in [0 .. capacity' - 1 -> Slot]
         /\ free_list' \in 0 .. Word - 1 /\ block' \in {"held", "freed"}
         /\ size' < capacity' /\ \A i \in Slots : slots'[i] = slots[i]
         /\ Connected'
<1>1. Bounds
  BY InBounds
<1>2. PICK junk \in [size .. capacity - 1 -> Junk] : slots' = NewSlots(n, junk)
  BY DEF SetCapacity
<1>3. n <= MaxCapacity /\ capacity' = n /\ size' = size /\ data' = data /\ free_list' = capacity
  BY DEF SetCapacity
<1>4. block' \in {"held", "freed"}
  BY DEF SetCapacity
<1>5. slots \in [Slots -> Slot] /\ free_list \in 0 .. Word - 1
  BY DEF TypeOK, Slots
<1>6. \A i \in 0 .. n - 1 :
        /\ i \in Slots => slots'[i] = slots[i]
        /\ i \notin Slots => slots'[i] = [item |-> LinkOf(i, n), owner |-> NONE]
  <2> TAKE i \in 0 .. n - 1
  <2>1. slots'[i] = IF i < size THEN slots[i]
                    ELSE IF i < capacity THEN [item |-> junk[i], owner |-> junk[i]]
                    ELSE [item |-> LinkOf(i, n), owner |-> NONE]
    BY <1>2 DEF NewSlots
  <2>2. i \in Slots <=> i < capacity
    BY <1>1 DEF Slots, Bounds
  <2> QED BY <2>1, <2>2
<1>7. \A i \in 0 .. n - 1 : LinkOf(i, n) \in 0 .. Word - 1
  BY <1>1, <1>3, <1>5 DEF LinkOf, Bounds
<1>8. \A i \in 0 .. n - 1 : slots'[i] \in Slot
  <2> TAKE i \in 0 .. n - 1
  <2>1. CASE i \in Slots
    <3>1. slots[i] \in Slot
      BY <2>1, <1>5
    <3> QED BY <2>1, <3>1, <1>6
  <2>2. CASE i \notin Slots
    <3>1. NONE \in 0 .. Word - 1
      BY <1>1 DEF Bounds
    <3>2. [item |-> LinkOf(i, n), owner |-> NONE] \in Slot
      BY <3>1, <1>7 DEF Slot
    <3> QED BY <2>2, <3>2, <1>6
  <2> QED BY <2>1, <2>2
<1>9. slots' \in [0 .. n - 1 -> Slot]
  <2>1. slots' = [i \in 0 .. n - 1 |-> slots'[i]]
    BY <1>2 DEF NewSlots
  <2> QED BY <2>1, <1>8
<1>10. \A i \in Slots : i \in 0 .. n - 1 /\ slots'[i] = slots[i]
  <2>1. \A i \in Slots : i \in 0 .. n - 1
    BY <1>1 DEF Slots, Bounds
  <2> QED BY <2>1, <1>6
<1>11. 0 .. size - 1 = Slots
  BY DEF Slots
<1>12. \A s \in live : s \in Slots
  BY DEF Connected, SlotsAreOwners
<1>13. Slots' = Slots \cup capacity .. n - 1 /\ Slots' = 0 .. n - 1
  BY <1>1, <1>3 DEF Slots, Bounds
<1>14. OwnersReferBack'
  BY <1>3, <1>10, <1>11, <1>12 DEF Connected, OwnersReferBack, Slots
<1>15. SlotsAreOwners'
  BY <1>3, <1>10, <1>11, <1>12, <1>13 DEF Connected, SlotsAreOwners
<1>16. FreeSlotsLinked'
  <2>1. IsLinked(free_list, Next_(slots), NONE, FreeSlots, capacity - size)
    BY DEF Connected, FreeSlotsLinked
  <2>2. \A i \in capacity .. n - 1 : i \notin FreeSlots /\ i # NONE
    BY <1>1, <1>3 DEF FreeSlots, Slots, NONE, Bounds
  <2>3. \A i \in FreeSlots : Next_(slots)'[i] = Next_(slots)[i]
    BY <1>10, <1>13 DEF FreeSlots, Next_
  <2>4. \A i \in capacity .. n - 1 :
          Next_(slots)'[i] = IF i = n - 1 THEN free_list ELSE i + 1
    <3> TAKE i \in capacity .. n - 1
    <3>1. i \in 0 .. n - 1 /\ i \notin Slots
      BY <1>1 DEF Bounds, Slots
    <3>2. Next_(slots)'[i] = slots'[i].item
      BY <3>1, <1>13 DEF Next_
    <3>3. slots'[i] = [item |-> LinkOf(i, n), owner |-> NONE]
      BY <3>1, <1>6
    <3>4. slots'[i].item = LinkOf(i, n)
      BY <3>3
    <3> QED BY <3>2, <3>4 DEF LinkOf
  <2>5. capacity \in Int /\ n - 1 \in Int /\ capacity <= n - 1
    BY <1>1 DEF Bounds
  <2>6. IsLinked(capacity, Next_(slots)', NONE, FreeSlots \cup capacity .. n - 1,
               capacity - size + (n - 1 - capacity + 1))
    <3> DEFINE link == Next_(slots)
               link2 == Next_(slots)'
               k == capacity - size
               last == n - 1
               all == FreeSlots \cup capacity .. last
               m == k + (last - capacity + 1)
    <3>1. IsLinked(free_list, link, NONE, FreeSlots, capacity - size)
      BY <2>1
    <3>2. \A i \in FreeSlots : link2[i] = link[i]
      BY <2>3
    <3>3. \A i \in capacity .. n - 1 : link2[i] = IF i = n - 1 THEN free_list ELSE i + 1
      BY <2>4
    <3>4. IsLinked(free_list, link, NONE, FreeSlots, k)
      BY <3>1
    <3>5. \A i \in capacity .. last : i \notin FreeSlots /\ i # NONE
      BY <2>2
    <3>6. \A i \in capacity .. last : link2[i] = IF i = last THEN free_list ELSE i + 1
      BY <3>3
    <3>7. capacity \in Int /\ last \in Int /\ capacity <= last
      BY <2>5
    <3>8. all = FreeSlots \cup capacity .. last /\ m = k + (last - capacity + 1)
      OBVIOUS
    <3> HIDE DEF link, link2, k, last, all, m
    <3>9. RangeBefore(free_list, link, NONE, FreeSlots, capacity, last, link2)
      BY <3>2, <3>5, <3>6, <3>7 DEF RangeBefore
    <3>10. IsLinked(capacity, link2, NONE, all, m)
      BY <3>4, <3>8, <3>9, LinkedRange
    <3> QED BY <3>10 DEF link2, last, k, all, m
  <2>7. FreeSlots' = FreeSlots \cup capacity .. n - 1
    <3>1. \A i \in capacity .. n - 1 : i \notin live
      BY <1>1, <1>12 DEF Slots, Bounds
    <3> QED BY <3>1, <1>13 DEF FreeSlots
  <2>8. capacity - size + (n - 1 - capacity + 1) = capacity' - size'
    BY <1>1, <1>3 DEF Bounds
  <2>9. IsLinked(capacity, Next_(slots)', NONE, FreeSlots', capacity' - size')
    BY <2>6, <2>7, <2>8
  <2> QED BY <2>9, <1>3 DEF FreeSlotsLinked, NONE
<1>17. capacity' \in 0 .. MaxCapacity /\ size' < capacity' /\ free_list' \in 0 .. Word - 1
  BY <1>1, <1>3 DEF Bounds
<1> QED BY <1>3, <1>4, <1>9, <1>10, <1>14, <1>15, <1>16, <1>17 DEF Connected

-----------------------------------------------------------------------------
(* An insertion takes the first free slot *)

LEMMA InsertConnected ==
  ASSUME TypeOK, Connected, size < capacity, FinishInsert
  PROVE  /\ free_list \in FreeSlots
         /\ \A s \in live : data'[slots'[s].item] = data[slots[s].item]
         /\ data'[slots'[free_list].item] = inserting
         /\ TypeOK' /\ Connected'
<1>1. Bounds
  BY InBounds
<1>2. /\ size' = size + 1 /\ live' = live \cup {free_list} /\ capacity' = capacity
      /\ free_list' = slots[free_list].item /\ pc' = "idle"
      /\ data' = [i \in 0 .. size |-> IF i < size THEN data[i] ELSE inserting]
      /\ slots' = [slots EXCEPT ![free_list].item = size, ![size].owner = free_list]
      /\ block' = block /\ inserting' = inserting
  BY DEF FinishInsert
<1>3. IsLinked(free_list, Next_(slots), NONE, FreeSlots, capacity - size)
  BY DEF Connected, FreeSlotsLinked
<1>4. capacity - size > 0
  BY <1>1 DEF Bounds
<1>5. free_list \in FreeSlots
  BY <1>3, <1>4, LinkedFirst
<1>6. free_list \in Slots /\ free_list \notin live /\ size \in Slots
  BY <1>1, <1>5 DEF FreeSlots, Slots, Bounds
<1>7. slots \in [Slots -> Slot] /\ free_list \in 0 .. Word - 1 /\ size \in 0 .. Word - 1
  BY <1>1 DEF TypeOK, Slots, Bounds
<1>8. /\ slots' \in [Slots -> Slot]
      /\ \A s \in Slots : slots'[s].item = IF s = free_list THEN size ELSE slots[s].item
      /\ \A s \in Slots : slots'[s].owner = IF s = size THEN free_list ELSE slots[s].owner
  BY <1>2, <1>6, <1>7 DEF Slot
<1>9. Slots' = Slots
  BY <1>2 DEF Slots
<1>10. TypeOK'
  <2>1. data' \in [0 .. size' - 1 -> Item]
    <3>1. \A i \in 0 .. size : (IF i < size THEN data[i] ELSE inserting) \in Item
      BY <1>1 DEF TypeOK, Bounds
    <3>2. size' - 1 = size
      BY <1>1, <1>2 DEF Bounds
    <3> QED BY <3>1, <3>2, <1>2
  <2>2. slots' \in [0 .. capacity' - 1 -> Slot]
    BY <1>8, <1>2 DEF Slots
  <2>3. slots[free_list].item \in 0 .. Word - 1
    BY <1>6, <1>7 DEF Slot
  <2>4. live' \subseteq 0 .. MaxCapacity
    BY <1>1, <1>2, <1>6 DEF TypeOK, Slots, Bounds
  <2>5. size' \in Nat /\ capacity' \in 0 .. MaxCapacity
    BY <1>1, <1>2 DEF Bounds
  <2> QED BY <2>1, <2>2, <2>3, <2>4, <2>5, <1>2 DEF TypeOK
<1>11. OwnersReferBack'
  <2>1. SUFFICES ASSUME NEW i \in 0 .. size' - 1
                 PROVE  slots'[i].owner \in live' /\ slots'[slots'[i].owner].item = i
    BY DEF OwnersReferBack
  <2>2. i \in 0 .. size /\ i \in Slots
    BY <1>1, <1>2 DEF Slots, Bounds
  <2>3. CASE i = size
    BY <2>2, <2>3, <1>2, <1>6, <1>8
  <2>4. CASE i # size
    <3>1. i \in 0 .. size - 1
      BY <2>2, <2>4, <1>1 DEF Bounds
    <3>2. slots[i].owner \in live /\ slots[slots[i].owner].item = i
      BY <3>1 DEF Connected, OwnersReferBack
    <3>3. slots[i].owner \in Slots /\ slots[i].owner # free_list
      BY <3>2, <1>6 DEF Connected, SlotsAreOwners
    <3> QED BY <2>2, <2>4, <3>2, <3>3, <1>2, <1>8
  <2> QED BY <2>3, <2>4
<1>12. SlotsAreOwners'
  <2>1. SUFFICES ASSUME NEW s \in live'
                 PROVE  /\ s \in Slots /\ slots'[s].item \in 0 .. size' - 1
                        /\ slots'[slots'[s].item].owner = s
    BY <1>9 DEF SlotsAreOwners
  <2>2. CASE s = free_list
    <3>1. slots'[s].item = size /\ size \in 0 .. size' - 1
      BY <2>2, <1>1, <1>2, <1>6, <1>8 DEF Bounds
    <3> QED BY <3>1, <2>2, <1>6, <1>8
  <2>3. CASE s # free_list
    <3>1. s \in live
      BY <2>3, <1>2
    <3>2. s \in Slots /\ slots[s].item \in 0 .. size - 1 /\ slots[slots[s].item].owner = s
      BY <3>1 DEF Connected, SlotsAreOwners
    <3>3. slots[s].item \in Slots /\ slots[s].item # size /\ slots[s].item \in 0 .. size' - 1
      BY <3>2, <1>1, <1>2 DEF Slots, Bounds
    <3> QED BY <3>2, <3>3, <2>3, <1>8
  <2> QED BY <2>2, <2>3
<1>13. FreeSlotsLinked'
  <2> DEFINE link == Next_(slots)
             link2 == Next_(slots)'
             n == capacity - size
             m == capacity' - size'
             rest == FreeSlots'
  <2>1. IsLinked(free_list, link, NONE, FreeSlots, n) /\ n > 0
    BY <1>3, <1>4
  <2>2. \A i \in FreeSlots \ {free_list} : link2[i] = link[i]
    BY <1>8, <1>9 DEF FreeSlots, Next_
  <2>3. rest = FreeSlots \ {free_list} /\ m = n - 1
    BY <1>1, <1>2, <1>9 DEF FreeSlots, Bounds
  <2>4. link[free_list] = free_list'
    BY <1>2, <1>6 DEF Next_
  <2> HIDE DEF link, link2, n, m, rest
  <2>5. IsLinked(link[free_list], link2, NONE, rest, m)
    BY <2>1, <2>2, <2>3, LinkedTake
  <2> QED BY <2>4, <2>5 DEF FreeSlotsLinked, link2, m, rest, NONE
<1>14. ASSUME NEW s \in live PROVE data'[slots'[s].item] = data[slots[s].item]
  <2>1. s \in Slots /\ slots[s].item \in 0 .. size - 1 /\ s # free_list
    BY <1>6 DEF Connected, SlotsAreOwners
  <2>2. slots'[s].item = slots[s].item
    BY <2>1, <1>8
  <2> QED BY <2>1, <2>2, <1>1, <1>2 DEF Bounds
<1>15. data'[slots'[free_list].item] = inserting
  <2>1. slots'[free_list].item = size
    BY <1>6, <1>8
  <2> QED BY <2>1, <1>1, <1>2 DEF Bounds
<1> QED BY <1>5, <1>10, <1>11, <1>12, <1>13, <1>14, <1>15 DEF Connected

-----------------------------------------------------------------------------
(* A removal exchanges the last item with the removed one *)

LEMMA RemoveConnected ==
  ASSUME TypeOK, Connected, NEW handle, Remove(handle)
  PROVE  /\ live' = live \ {ToSlot(handle)}
         /\ \A s \in live' : data'[slots'[s].item] = data[slots[s].item]
         /\ TypeOK' /\ Connected'
<1> DEFINE removed  == ToSlot(handle)
           last     == size - 1
           exchange == slots[last].owner
           item     == slots[removed].item
<1>1. Bounds
  BY InBounds, SMTT(60)
<1>2. /\ removed \in live
      /\ slots' = [slots EXCEPT ![exchange].item = item, ![item].owner = exchange,
                                ![removed].item = free_list]
      /\ data' = [i \in 0 .. last - 1 |-> IF i = item THEN data[last] ELSE data[i]]
      /\ free_list' = removed /\ size' = last /\ live' = live \ {removed}
      /\ capacity' = capacity /\ block' = block /\ pc' = pc /\ inserting' = inserting
  BY SMTT(60) DEF Remove, Relink, ItemsWithout
<1> HIDE DEF removed
<1>3. removed \in Slots /\ item \in 0 .. last /\ slots[item].owner = removed
  BY <1>1, <1>2 DEF Connected, SlotsAreOwners, Bounds
<1>4. last \in Nat /\ last \in 0 .. size - 1
  BY <1>1, <1>3 DEF Bounds
<1>5. exchange \in live /\ slots[exchange].item = last /\ exchange \in Slots
  <2>1. exchange \in live /\ slots[exchange].item = last
    BY <1>4 DEF Connected, OwnersReferBack
  <2> QED BY <2>1 DEF Connected, SlotsAreOwners
<1>6. capacity - size \in Nat /\ IsLinked(free_list, Next_(slots), NONE, FreeSlots, capacity - size)
  BY DEF Connected, FreeSlotsLinked, IsLinked
<1>7. item \in Slots /\ \A i \in 0 .. last : i \in Slots
  BY <1>1, <1>3, <1>4, <1>6 DEF Slots, Bounds
<1>8. slots \in [Slots -> Slot] /\ free_list \in 0 .. Word - 1
  BY DEF TypeOK, Slots
<1>9. item \in 0 .. Word - 1 /\ exchange \in 0 .. Word - 1
  BY <1>1, <1>5, <1>7 DEF Slots, Bounds
<1> HIDE DEF exchange, item
<1>10. /\ slots' \in [Slots -> Slot]
       /\ \A s \in Slots : slots'[s].item = IF s = removed THEN free_list
                                            ELSE IF s = exchange THEN item ELSE slots[s].item
       /\ \A s \in Slots : slots'[s].owner = IF s = item THEN exchange ELSE slots[s].owner
  <2> DEFINE one == [slots EXCEPT ![exchange].item = item]
             two == [one EXCEPT ![item].owner = exchange]
  <2>1. slots' = [two EXCEPT ![removed].item = free_list]
    BY <1>2
  <2>2. /\ one \in [Slots -> Slot]
        /\ \A s \in Slots : one[s].item = IF s = exchange THEN item ELSE slots[s].item
        /\ \A s \in Slots : one[s].owner = slots[s].owner
    BY <1>5, <1>8, <1>9 DEF Slot
  <2> HIDE DEF one
  <2>3. /\ two \in [Slots -> Slot]
        /\ \A s \in Slots : two[s].item = one[s].item
        /\ \A s \in Slots : two[s].owner = IF s = item THEN exchange ELSE one[s].owner
    BY <2>2, <1>7, <1>9 DEF Slot
  <2> HIDE DEF two
  <2>4. /\ slots' \in [Slots -> Slot]
        /\ \A s \in Slots : slots'[s].item = IF s = removed THEN free_list ELSE two[s].item
        /\ \A s \in Slots : slots'[s].owner = two[s].owner
    BY <2>1, <2>3, <1>3, <1>8 DEF Slot
  <2> QED BY <2>2, <2>3, <2>4
<1>11. Slots' = Slots /\ 0 .. size' - 1 = 0 .. last - 1
  BY <1>2 DEF Slots
<1>12. item = last <=> exchange = removed
  BY <1>3, <1>5 DEF item, exchange
<1>13. OwnersReferBack'
  <2>1. SUFFICES ASSUME NEW i \in 0 .. last - 1
                 PROVE  slots'[i].owner \in live' /\ slots'[slots'[i].owner].item = i
    BY <1>11 DEF OwnersReferBack
  <2>2. i \in 0 .. size - 1 /\ i \in Slots /\ i # last
    BY <1>4, <1>7
  <2>3. CASE i = item
    <3>1. exchange # removed /\ slots'[i].owner = exchange
      BY <2>2, <2>3, <1>10, <1>12
    <3> QED BY <3>1, <2>3, <1>2, <1>5, <1>10
  <2>4. CASE i # item
    <3>1. slots'[i].owner = slots[i].owner
      BY <2>2, <2>4, <1>10
    <3>2. slots[i].owner \in live /\ slots[slots[i].owner].item = i
      BY <2>2 DEF Connected, OwnersReferBack
    <3>3. slots[i].owner # removed /\ slots[i].owner # exchange
      BY <3>2, <2>2, <2>4, <1>5 DEF item
    <3>4. slots[i].owner \in Slots
      BY <3>2 DEF Connected, SlotsAreOwners
    <3> QED BY <3>1, <3>2, <3>3, <3>4, <1>2, <1>10
  <2> QED BY <2>3, <2>4
<1>14. SlotsAreOwners'
  <2>1. SUFFICES ASSUME NEW s \in live, s # removed
                 PROVE  /\ s \in Slots /\ slots'[s].item \in 0 .. last - 1
                        /\ slots'[slots'[s].item].owner = s
    BY <1>2, <1>11 DEF SlotsAreOwners
  <2>2. s \in Slots /\ slots[s].item \in 0 .. size - 1 /\ slots[slots[s].item].owner = s
    BY DEF Connected, SlotsAreOwners
  <2>3. CASE s = exchange
    <3>1. slots'[s].item = item /\ item # last
      BY <2>1, <2>2, <2>3, <1>10, <1>12
    <3>2. item \in 0 .. last - 1
      BY <3>1, <1>3, <1>4 DEF item
    <3> QED BY <3>1, <3>2, <2>2, <2>3, <1>7, <1>10
  <2>4. CASE s # exchange
    <3>1. slots'[s].item = slots[s].item
      BY <2>1, <2>2, <2>4, <1>10
    <3>2. slots[s].item # last
      BY <2>2, <2>4 DEF exchange
    <3>3. slots[s].item # item
      BY <2>1, <2>2, <1>3 DEF item
    <3>4. slots[s].item \in 0 .. last - 1 /\ slots[s].item \in Slots
      BY <3>2, <2>2, <1>4, <1>7
    <3> QED BY <3>1, <3>3, <3>4, <2>2, <1>10
  <2> QED BY <2>3, <2>4
<1>15. FreeSlotsLinked'
  <2> DEFINE link == Next_(slots)
             link2 == Next_(slots)'
             n == capacity - size
             m == capacity' - size'
             all == FreeSlots'
  <2>1. IsLinked(free_list, link, NONE, FreeSlots, n)
    BY <1>6
  <2>2. removed \notin FreeSlots /\ removed # NONE
    BY <1>1, <1>2, <1>3 DEF FreeSlots, Slots, NONE, Bounds
  <2>3. \A i \in FreeSlots : link2[i] = link[i]
    <3> TAKE i \in FreeSlots
    <3>1. i \in Slots /\ i # removed /\ i # exchange
      BY <1>2, <1>5 DEF FreeSlots
    <3> QED BY <3>1, <1>10, <1>11 DEF Next_
  <2>4. link2[removed] = free_list
    BY <1>3, <1>10, <1>11 DEF Next_
  <2>5. all = FreeSlots \cup {removed}
    BY <1>2, <1>3, <1>11 DEF FreeSlots
  <2>6. m = n + 1
    BY <1>1, <1>2 DEF Bounds
  <2> HIDE DEF link, link2, n, m, all
  <2>7. IsLinked(removed, link2, NONE, all, m)
    BY <2>1, <2>2, <2>3, <2>4, <2>5, <2>6, LinkedGive
  <2> QED BY <2>7, <1>2 DEF FreeSlotsLinked, link2, m, all, NONE
<1>16. TypeOK'
  <2>1. data' \in [0 .. size' - 1 -> Item]
    <3>1. \A i \in 0 .. last - 1 : (IF i = item THEN data[last] ELSE data[i]) \in Item
      BY <1>1, <1>4 DEF TypeOK, Bounds
    <3> QED BY <3>1, <1>2
  <2>2. slots' \in [0 .. capacity' - 1 -> Slot]
    BY <1>2, <1>10 DEF Slots
  <2>3. removed \in 0 .. Word - 1
    BY <1>1, <1>3 DEF Slots, Bounds
  <2> QED BY <2>1, <2>2, <2>3, <1>2, <1>4 DEF TypeOK
<1>17. ASSUME NEW s \in live' PROVE data'[slots'[s].item] = data[slots[s].item]
  <2>1. s \in live /\ s # removed
    BY <1>2
  <2>2. s \in Slots /\ slots[s].item \in 0 .. size - 1 /\ slots[slots[s].item].owner = s
    BY <2>1 DEF Connected, SlotsAreOwners
  <2>3. CASE s = exchange
    <3>1. slots'[s].item = item /\ item # last
      BY <2>1, <2>2, <2>3, <1>10, <1>12
    <3>2. item \in 0 .. last - 1
      BY <3>1, <1>3, <1>4 DEF item
    <3> QED BY <3>1, <3>2, <2>3, <1>2, <1>5
  <2>4. CASE s # exchange
    <3>1. slots'[s].item = slots[s].item
      BY <2>1, <2>2, <2>4, <1>10
    <3>2. slots[s].item # last /\ slots[s].item # item
      BY <2>1, <2>2, <2>4, <1>3 DEF exchange, item
    <3>3. slots[s].item \in 0 .. last - 1
      BY <3>2, <2>2, <1>4
    <3> QED BY <3>1, <3>2, <3>3, <1>2
  <2> QED BY <2>3, <2>4
<1>18. live' = live \ {ToSlot(handle)}
  BY <1>2 DEF removed
<1> QED BY <1>13, <1>14, <1>15, <1>16, <1>17, <1>18 DEF Connected

-----------------------------------------------------------------------------
(* The invariant *)

\* one and a half times the size and a constant is more than the size, so the loop
\* that doubles the new capacity in grow is never entered
LEMMA GrownIsMore ==
  ASSUME size \in Nat
  PROVE  GrownCapacity \in Nat /\ GrownCapacity > size
<1>1. (size * 3) \div 2 \in Nat /\ (size * 3) \div 2 >= size
  OBVIOUS
<1>2. LeastGrowth \in Nat /\ LeastGrowth >= 1
  BY SlotAssumption
<1> HIDE DEF GrownCapacity
<1> QED BY <1>1, <1>2 DEF GrownCapacity

LEMMA SizeFits == ASSUME TypeOK, Connected PROVE size <= capacity
  BY InBounds DEF Connected, FreeSlotsLinked, IsLinked, Bounds

\* steps that leave the array alone
LEMMA UnchangedConnected ==
  ASSUME Connected, UNCHANGED <<data, slots, size, capacity, free_list, live>>
  PROVE  Connected'
<1>1. Slots' = Slots /\ FreeSlots' = FreeSlots
  BY DEF FreeSlots, Slots
<1>2. Next_(slots)' = Next_(slots)
  BY <1>1 DEF Next_
<1>3. FreeSlotsLinked'
  BY <1>1, <1>2 DEF Connected, FreeSlotsLinked, NONE
<1>4. OwnersReferBack'
  BY DEF Connected, OwnersReferBack
<1>5. SlotsAreOwners'
  BY <1>1 DEF Connected, SlotsAreOwners
<1> QED BY <1>3, <1>4, <1>5 DEF Connected

LEMMA NextInv ==
  ASSUME ReservesAnytime = FALSE
  PROVE  IInv /\ [Next]_vars => IInv'
<1> SUFFICES ASSUME IInv, [Next]_vars PROVE IInv'
  OBVIOUS
<1>1. TypeOK /\ Bounds
  BY InBounds DEF IInv
<1>2. ASSUME NEW n \in ReserveSizes, Reserve(n) PROVE IInv'
  <2>1. /\ pc = "idle" /\ capacity < n /\ size = capacity
        /\ inserting' = inserting /\ live' = live /\ n \in Nat
    BY <1>2, SlotAssumption DEF Reserve
  <2>2. Connected
    BY <2>1 DEF IInv
  <2>3. CASE SetCapacity(n) /\ UNCHANGED pc
    <3>1. /\ size' = size /\ data' = data
          /\ capacity' \in 0 .. MaxCapacity /\ slots' \in [0 .. capacity' - 1 -> Slot]
          /\ free_list' \in 0 .. Word - 1 /\ block' \in {"held", "freed"}
          /\ Connected'
      BY <1>1, <2>1, <2>2, <2>3, GrowthConnected DEF Bounds
    <3>2. TypeOK'
      BY <3>1, <2>1, <2>3, <1>1 DEF TypeOK
    <3> QED BY <3>1, <3>2, <2>1, <2>3 DEF IInv
  <2>4. CASE SetCapacityFails /\ pc' \in {"idle", "panic"}
    <3>1. UNCHANGED <<data, slots, size, capacity, free_list, block>>
      BY <2>4 DEF SetCapacityFails
    <3>2. Connected'
      BY <3>1, <2>1, <2>2, UnchangedConnected
    <3>3. TypeOK'
      BY <3>1, <2>1, <2>4, <1>1 DEF TypeOK
    <3> QED BY <3>2, <3>3, <2>4 DEF IInv
  <2> QED BY <1>2, <2>3, <2>4 DEF Reserve
<1>3. ASSUME NEW x \in Item, BeginInsert(x) PROVE IInv'
  <2>1. pc = "idle" /\ inserting' = x /\ live' = live /\ Connected
    BY <1>3 DEF BeginInsert, IInv
  <2>2. size <= capacity
    BY <1>1, <2>1, SizeFits
  <2>3. CASE capacity >= size + 1 /\ pc' = "insert"
             /\ UNCHANGED <<data, slots, size, capacity, free_list, block>>
    <3>1. Connected'
      BY <2>1, <2>3, UnchangedConnected
    <3>2. TypeOK'
      BY <2>1, <2>3, <1>1 DEF TypeOK
    <3>3. size' < capacity'
      BY <2>3, <1>1 DEF Bounds
    <3> QED BY <3>1, <3>2, <3>3, <2>3 DEF IInv
  <2>4. CASE capacity < size + 1 /\ SetCapacity(GrownCapacity) /\ pc' = "insert"
    <3>1. size = capacity
      BY <2>2, <2>4, <1>1 DEF Bounds
    <3>2. GrownCapacity \in Nat /\ GrownCapacity > capacity
      BY <3>1, <1>1, GrownIsMore DEF Bounds
    <3>3. /\ size' = size /\ data' = data
          /\ capacity' \in 0 .. MaxCapacity /\ slots' \in [0 .. capacity' - 1 -> Slot]
          /\ free_list' \in 0 .. Word - 1 /\ block' \in {"held", "freed"}
          /\ size' < capacity'
          /\ Connected'
      BY <1>1, <2>1, <2>4, <3>1, <3>2, GrowthConnected
    <3>4. TypeOK'
      BY <3>3, <2>1, <2>4, <1>1 DEF TypeOK
    <3> QED BY <3>3, <3>4, <2>4 DEF IInv
  <2>5. CASE capacity < size + 1 /\ SetCapacityFails /\ pc' = "panic"
    <3>1. UNCHANGED <<data, slots, size, capacity, free_list, block>>
      BY <2>5 DEF SetCapacityFails
    <3>2. Connected'
      BY <3>1, <2>1, UnchangedConnected
    <3>3. TypeOK'
      BY <3>1, <2>1, <2>5, <1>1 DEF TypeOK
    <3> QED BY <3>2, <3>3, <2>5 DEF IInv
  <2> QED BY <1>3, <2>3, <2>4, <2>5 DEF BeginInsert
<1>4. ASSUME FinishInsert PROVE IInv'
  <2>1. pc = "insert" /\ pc' = "idle"
    BY <1>4 DEF FinishInsert
  <2>2. Connected /\ size < capacity
    BY <2>1 DEF IInv
  <2>3. TypeOK' /\ Connected'
    BY <1>1, <1>4, <2>2, InsertConnected
  <2> QED BY <2>1, <2>3 DEF IInv
<1>5. ASSUME NEW s \in live, Remove(ToHandle(s)) PROVE IInv'
  <2>1. pc = "idle" /\ pc' = "idle"
    BY <1>5 DEF Remove
  <2>2. Connected
    BY <2>1 DEF IInv
  <2>3. TypeOK' /\ Connected'
    BY <1>1, <1>5, <2>2, RemoveConnected
  <2> QED BY <2>1, <2>3 DEF IInv
<1>6. ASSUME Destroy PROVE IInv'
  <2>1. /\ pc' = "gone" /\ data' = <<>> /\ slots' = <<>> /\ size' = 0 /\ capacity' = 0
        /\ block' \in {"none", "freed"} /\ UNCHANGED <<free_list, inserting, live>>
    BY <1>6 DEF Destroy
  <2>2. data' \in [0 .. size' - 1 -> Item] /\ slots' \in [0 .. capacity' - 1 -> Slot]
    BY <2>1
  <2>3. capacity' \in 0 .. MaxCapacity
    BY <1>1, <2>1 DEF Bounds
  <2>4. TypeOK'
    BY <2>1, <2>2, <2>3, <1>1 DEF TypeOK
  <2> QED BY <2>1, <2>4 DEF IInv
<1>7. ASSUME UNCHANGED vars PROVE IInv'
  <2>1. UNCHANGED <<data, slots, size, capacity, free_list, live, block, pc, inserting>>
    BY <1>7 DEF vars
  <2>2. TypeOK'
    BY <2>1, <1>1 DEF TypeOK
  <2>3. pc' # "gone" => Connected'
    BY <2>1, UnchangedConnected DEF IInv
  <2>4. (pc' = "insert" => size' < capacity') /\ (pc' = "gone" => size' = 0)
    BY <2>1 DEF IInv
  <2> QED BY <2>2, <2>3, <2>4 DEF IInv
<1> QED BY <1>2, <1>3, <1>4, <1>5, <1>6, <1>7 DEF Next

\* IInv holds of every state of a client that reserves only when no slot is
\* free (slot_array.h)
THEOREM Invariance == ASSUME ReservesAnytime = FALSE PROVE Spec => []IInv
  BY InitInv, NextInv, PTL DEF Spec

\* the fields keep their types, for every capacity and allocator
THEOREM TypeCorrect == ASSUME ReservesAnytime = FALSE PROVE Spec => []TypeOK
<1>1. IInv => TypeOK
  BY DEF IInv
<1> QED BY <1>1, Invariance, PTL

\* "all items must form closed loop", after every sequence of insertions, removals
\* and of the reallocations of a client that reserves only when no slot is free:
\* others copy too few slots and break the loops
THEOREM LoopsStayClosed == ASSUME ReservesAnytime = FALSE PROVE Spec => []ItemsFormLoops
<1>1. IInv => ItemsFormLoops
  <2> SUFFICES ASSUME IInv PROVE ItemsFormLoops
    OBVIOUS
  <2>1. CASE pc = "gone"
    BY <2>1 DEF IInv, ItemsFormLoops
  <2>2. CASE pc # "gone"
    BY <2>2, InBounds DEF IInv, Connected, OwnersReferBack, SlotsAreOwners, ItemsFormLoops,
                          Slots, Bounds
  <2> QED BY <2>1, <2>2
<1> QED BY <1>1, Invariance, PTL

\* the free list goes through exactly the slots no handle names, as many as there
\* is room for items, and ends
THEOREM FreeListComplete == ASSUME ReservesAnytime = FALSE PROVE Spec => []FreeListWhole
<1>1. IInv => FreeListWhole
  <2> SUFFICES ASSUME IInv, pc # "gone" PROVE FreeListWhole
    BY DEF FreeListWhole
  <2> DEFINE links == Next_(slots)
             n == capacity - size
  <2>1. IsLinked(free_list, links, NONE, FreeSlots, n)
    BY DEF IInv, Connected, FreeSlotsLinked
  <2>2. FreeSlots \subseteq DOMAIN links
    BY DEF FreeSlots, Next_
  <2> HIDE DEF links, n
  <2>3. ListIs(free_list, links, NONE, FreeSlots) /\ Cardinality(FreeSlots) = n
    BY <2>1, <2>2, LinkedIsList
  <2>4. QED BY <2>3 DEF FreeListWhole, FreeSlots, Slots, Next_, links, n
<1> QED BY <1>1, Invariance, PTL


\* an insertion always finds a free slot that no handle names
THEOREM InsertionsFindSlots == ASSUME ReservesAnytime = FALSE PROVE Spec => []InsertHasSlot
<1>1. IInv => InsertHasSlot
  <2> SUFFICES ASSUME IInv, pc = "insert" PROVE free_list < capacity
    BY DEF InsertHasSlot
  <2>1. Bounds /\ Connected /\ size < capacity
    BY InBounds DEF IInv
  <2>2. IsLinked(free_list, Next_(slots), NONE, FreeSlots, capacity - size)
    BY <2>1 DEF Connected, FreeSlotsLinked
  <2>3. capacity - size > 0
    BY <2>1 DEF Bounds
  <2>4. free_list \in FreeSlots
    BY <2>2, <2>3, LinkedFirst
  <2> QED BY <2>1, <2>4 DEF FreeSlots, Slots, Bounds
<1> QED BY <1>1, Invariance, PTL

-----------------------------------------------------------------------------
(* The refinement *)

\* a handle says which slot it is
LEMMA HandlesName ==
  ASSUME TypeOK, NEW s \in 0 .. MaxCapacity
  PROVE  ToHandle(s) \in 0 .. Word - 1 /\ ToSlot(ToHandle(s)) = s
<1>1. Word \in Nat \ {0} /\ handle_offset \in 0 .. Word - 1 /\ s \in 0 .. Word - 1
  BY SlotAssumption
<1> QED BY <1>1, ModOffset DEF ToHandle, ToSlot

\* what the handles name
LEMMA StoreNames ==
  ASSUME TypeOK, pc # "gone"
  PROVE  /\ Store = [h \in LiveHandles |-> Store[h]]
         /\ DOMAIN Store = LiveHandles
         /\ \A s \in live : /\ ToHandle(s) \in LiveHandles
                            /\ Store[ToHandle(s)] = data[slots[s].item]
<1>1. Store = [h \in LiveHandles |-> data[slots[ToSlot(h)].item]]
  BY DEF Store
<1>2. \A s \in live : ToHandle(s) \in LiveHandles /\ ToSlot(ToHandle(s)) = s
  <2> TAKE s \in live
  <2>1. s \in 0 .. MaxCapacity
    BY DEF TypeOK
  <2> QED BY <2>1, HandlesName DEF LiveHandles
<1> HIDE DEF Store
<1> QED BY <1>1, <1>2

\* a step after which the same handles name the same items
LEMMA StoreKept ==
  ASSUME TypeOK, TypeOK', pc # "gone", pc' # "gone", live' = live,
         \A s \in live : data'[slots'[s].item] = data[slots[s].item]
  PROVE  UNCHANGED <<Store, pc # "gone">>
<1>1. LiveHandles' = LiveHandles
  BY DEF LiveHandles, ToHandle
<1>2. /\ Store' = [h \in LiveHandles |-> data'[slots'[ToSlot(h)].item]]
      /\ Store = [h \in LiveHandles |-> data[slots[ToSlot(h)].item]]
  BY <1>1 DEF Store, ToSlot
<1>3. \A h \in LiveHandles : ToSlot(h) \in live
  <2> TAKE h \in LiveHandles
  <2>1. PICK s \in live : h = ToHandle(s)
    BY DEF LiveHandles
  <2>2. s \in 0 .. MaxCapacity
    BY DEF TypeOK
  <2> QED BY <2>1, <2>2, HandlesName
<1>4. \A h \in LiveHandles : data'[slots'[ToSlot(h)].item] = data[slots[ToSlot(h)].item]
  BY <1>3
<1>5. Store' = Store
  BY <1>2, <1>4
<1> QED BY <1>5

\* an insertion adds the handle of the free slot
LEMMA InsertRefines ==
  ASSUME IInv, IInv', FinishInsert
  PROVE  HS!Next
<1>1. TypeOK /\ TypeOK' /\ Connected /\ size < capacity /\ pc # "gone" /\ pc' # "gone"
  <2>1. pc = "insert" /\ pc' = "idle"
    BY DEF FinishInsert
  <2> QED BY <2>1 DEF IInv
<1> DEFINE h == ToHandle(free_list)
<1>2. /\ free_list \in FreeSlots /\ live' = live \cup {free_list}
      /\ \A s \in live : data'[slots'[s].item] = data[slots[s].item]
      /\ data'[slots'[free_list].item] = inserting
  BY <1>1, InsertConnected DEF FinishInsert
<1>3. free_list \in 0 .. MaxCapacity /\ free_list \notin live
  BY <1>1, <1>2, InBounds DEF FreeSlots, Slots, Bounds
<1>4. \A s \in live : s \in 0 .. MaxCapacity
  BY <1>1 DEF TypeOK
<1>5. h \in 0 .. Word - 1 /\ inserting \in Item
  BY <1>1, <1>3, HandlesName DEF TypeOK
<1>6. h \notin LiveHandles
  <2> SUFFICES ASSUME NEW s \in live, h = ToHandle(s) PROVE FALSE
    BY DEF LiveHandles
  <2>1. ToSlot(h) = free_list /\ ToSlot(ToHandle(s)) = s
    BY <1>1, <1>3, <1>4, HandlesName
  <2> QED BY <2>1, <1>3
<1>7. LiveHandles' = LiveHandles \cup {h}
  BY <1>2 DEF LiveHandles, ToHandle
<1>8. DOMAIN Store = LiveHandles
  BY <1>1, StoreNames
<1>9. Store' = [g \in DOMAIN Store \cup {h} |-> IF g = h THEN inserting ELSE Store[g]]
  <2>1. Store' = [g \in LiveHandles' |-> data'[slots'[ToSlot(g)].item]]
    BY <1>1 DEF Store, ToSlot
  <2>2. \A g \in LiveHandles :
          data'[slots'[ToSlot(g)].item] = Store[g] /\ g # h
    <3> TAKE g \in LiveHandles
    <3>1. PICK s \in live : g = ToHandle(s)
      BY DEF LiveHandles
    <3>2. ToSlot(g) = s
      BY <3>1, <1>1, <1>4, HandlesName
    <3>3. Store[g] = data[slots[s].item]
      BY <3>1, <1>1, StoreNames
    <3> QED BY <3>2, <3>3, <1>2, <1>6
  <2>3. data'[slots'[ToSlot(h)].item] = inserting
    BY <1>1, <1>2, <1>3, HandlesName
  <2> HIDE DEF h
  <2> QED BY <2>1, <2>2, <2>3, <1>7, <1>8
<1>10. HS!Insert(h, inserting)
  BY <1>1, <1>6, <1>8, <1>9 DEF HS!Insert
<1> QED BY <1>5, <1>10 DEF HS!Next

\* a removal takes its handle away
LEMMA RemoveRefines ==
  ASSUME IInv, IInv', NEW r \in live, Remove(ToHandle(r))
  PROVE  HS!Next
<1>1. TypeOK /\ TypeOK' /\ Connected /\ pc # "gone" /\ pc' # "gone"
  <2>1. pc = "idle" /\ pc' = "idle"
    BY DEF Remove
  <2> QED BY <2>1 DEF IInv
<1> DEFINE h == ToHandle(r)
<1>2. \A s \in live : s \in 0 .. MaxCapacity
  BY <1>1 DEF TypeOK
<1>3. ToSlot(h) = r /\ h \in 0 .. Word - 1
  BY <1>1, <1>2, HandlesName
<1>4. /\ live' = live \ {r}
      /\ \A s \in live' : data'[slots'[s].item] = data[slots[s].item]
  BY <1>1, <1>3, RemoveConnected
<1>5. DOMAIN Store = LiveHandles /\ h \in LiveHandles
  BY <1>1, StoreNames
<1>6. \A s \in live : ToSlot(ToHandle(s)) = s
  BY <1>1, <1>2, HandlesName
<1>7. LiveHandles' = LiveHandles \ {h}
  <2>1. LiveHandles' = {ToHandle(s) : s \in live \ {r}}
    BY <1>4 DEF LiveHandles, ToHandle
  <2>2. \A s \in live : ToHandle(s) = h => s = r
    BY <1>6
  <2> QED BY <2>1, <2>2 DEF LiveHandles
<1>8. Store' = [g \in DOMAIN Store \ {h} |-> Store[g]]
  <2>1. Store' = [g \in LiveHandles' |-> data'[slots'[ToSlot(g)].item]]
    BY <1>1 DEF Store, ToSlot
  <2>2. \A g \in LiveHandles \ {h} : data'[slots'[ToSlot(g)].item] = Store[g]
    <3> TAKE g \in LiveHandles \ {h}
    <3>1. PICK s \in live : g = ToHandle(s)
      BY DEF LiveHandles
    <3>2. ToSlot(g) = s /\ s \in live'
      BY <3>1, <1>4, <1>6
    <3>3. Store[g] = data[slots[s].item]
      BY <3>1, <1>1, StoreNames
    <3> QED BY <3>2, <3>3, <1>4
  <2> HIDE DEF h
  <2> QED BY <2>1, <2>2, <1>5, <1>7
<1>9. HS!Remove(h)
  BY <1>1, <1>5, <1>8 DEF HS!Remove
<1> QED BY <1>3, <1>9 DEF HS!Next

\* every step is a step of the abstract store, or leaves it alone
LEMMA NextRefines ==
  ASSUME ReservesAnytime = FALSE
  PROVE  IInv /\ IInv' /\ [Next]_vars => [HS!Next]_<<Store, pc # "gone">>
<1> SUFFICES ASSUME IInv, IInv', [Next]_vars PROVE [HS!Next]_<<Store, pc # "gone">>
  OBVIOUS
<1>1. TypeOK /\ TypeOK' /\ Bounds
  BY InBounds DEF IInv
<1>2. ASSUME NEW n \in Nat, SetCapacity(n), size = capacity, n > capacity,
             pc # "gone", pc' # "gone", live' = live
      PROVE  UNCHANGED <<Store, pc # "gone">>
  <2>1. Connected
    BY <1>2 DEF IInv
  <2>2. data' = data /\ \A i \in Slots : slots'[i] = slots[i]
    BY <1>1, <1>2, <2>1, GrowthConnected
  <2>3. \A s \in live : data'[slots'[s].item] = data[slots[s].item]
    BY <2>1, <2>2 DEF Connected, SlotsAreOwners
  <2> QED BY <1>1, <1>2, <2>3, StoreKept
<1>3. ASSUME UNCHANGED <<data, slots, live>>, pc # "gone", pc' # "gone"
      PROVE  UNCHANGED <<Store, pc # "gone">>
  BY <1>1, <1>3, StoreKept
<1>4. ASSUME NEW n \in ReserveSizes, Reserve(n) PROVE UNCHANGED <<Store, pc # "gone">>
  <2>1. n \in Nat /\ pc = "idle" /\ pc' # "gone" /\ live' = live /\ size = capacity /\ n > capacity
    BY <1>1, <1>4, SlotAssumption DEF Reserve, Bounds
  <2>2. CASE SetCapacity(n)
    BY <1>2, <2>1, <2>2
  <2>3. CASE SetCapacityFails
    BY <1>3, <2>1, <2>3 DEF SetCapacityFails
  <2> QED BY <1>4, <2>2, <2>3 DEF Reserve
<1>5. ASSUME NEW x \in Item, BeginInsert(x) PROVE UNCHANGED <<Store, pc # "gone">>
  <2>1. pc = "idle" /\ pc' # "gone" /\ live' = live
    BY <1>5 DEF BeginInsert
  <2>2. size <= capacity
    BY <1>1, <2>1, SizeFits DEF IInv
  <2>3. CASE capacity < size + 1 /\ SetCapacity(GrownCapacity)
    <3>1. size = capacity
      BY <1>1, <2>2, <2>3 DEF Bounds
    <3>2. GrownCapacity \in Nat /\ GrownCapacity > capacity
      BY <1>1, <3>1, GrownIsMore DEF Bounds
    <3> QED BY <1>2, <2>1, <2>3, <3>1, <3>2
  <2>4. CASE UNCHANGED <<data, slots, size, capacity, free_list, block>>
    BY <1>3, <2>1, <2>4
  <2> QED BY <1>5, <2>3, <2>4 DEF BeginInsert, SetCapacityFails
<1>6. ASSUME Destroy PROVE HS!Next
  <2>1. pc = "idle" /\ pc' = "gone"
    BY <1>6 DEF Destroy
  <2>2. Store' = HS!Empty
    BY <2>1 DEF Store, HS!Empty
  <2> QED BY <2>1, <2>2 DEF HS!Next, HS!Destroy
<1>7. ASSUME UNCHANGED vars PROVE UNCHANGED <<Store, pc # "gone">>
  BY <1>7 DEF vars, Store, LiveHandles, ToHandle, ToSlot
<1> QED BY <1>4, <1>5, <1>6, <1>7, InsertRefines, RemoveRefines DEF Next

\* a handle names the item it was returned for until it is removed, for every
\* sequence of calls, wherever removals and reallocations move the items
THEOREM HandlesStayStable == ASSUME ReservesAnytime = FALSE PROVE Spec => IsHandleStore
<1>1. Init => HS!Init
  <2> SUFFICES ASSUME Init PROVE HS!Init
    OBVIOUS
  <2>1. live = {} /\ pc = "idle"
    BY DEF Init
  <2>2. Store = HS!Empty
    BY <2>1 DEF Store, LiveHandles, HS!Empty
  <2> QED BY <2>1, <2>2 DEF HS!Init
<1> QED BY <1>1, NextRefines, Invariance, PTL DEF Spec, IsHandleStore, HS!Spec
=============================================================================
