---------------------------- MODULE Buckets_proofs ----------------------------
(****************************************************************************)
(* What the steps that Bucket_Array and Weak_Bucket_Array share do to the   *)
(* free list, when handles have no offset.                                  *)
(****************************************************************************)
EXTENDS Buckets, ListLemmas

\* the types of the common variables; memory is found in the buckets only
BucketTypes ==
  /\ buckets_size \in Nat /\ buckets_capacity \in Nat
  /\ size \in Nat /\ capacity \in Nat
  /\ first_free \in 0 .. Word - 1
  /\ Memory \subseteq 0 .. MaxIndex
  /\ Memory \subseteq 0 .. buckets_size * BUCKET_SIZE - 1
  /\ data \in [Memory -> Item \cup 0 .. Word - 1]
  /\ DOMAIN allocations \subseteq 0 .. buckets_size - 1
  /\ allocations \in [DOMAIN allocations -> Nat]
  /\ pc \in {"idle", "insert", "panic", "gone"} /\ inserting \in Item

FreeLinked(unused) == IsLinked(first_free, data, NONE, unused, capacity - size)

-----------------------------------------------------------------------------
(* Rounding *)

LEMMA Quotient ==
  ASSUME NEW a \in Nat, NEW b \in Nat \ {0}
  PROVE  /\ a \div b \in Nat
         /\ (a \div b) * b <= a
         /\ a < (a \div b) * b + b
<1>1. b * (a \div b) <= a /\ a < b * (a \div b) + b
  OBVIOUS
<1>2. a \div b \in Nat
  OBVIOUS
<1> QED BY <1>1, <1>2

LEMMA Product == ASSUME NEW a \in Nat, NEW b \in Nat PROVE a * b \in Nat
  OBVIOUS

\* rounding up gives at least as much
LEMMA RoundUp ==
  ASSUME NEW a \in Nat, NEW b \in Nat \ {0}
  PROVE  div_round_up(a, b) \in Nat /\ a <= div_round_up(a, b) * b
<1> DEFINE c == a + b - 1
<1>1. c \in Nat
  OBVIOUS
<1> HIDE DEF c
<1>2. c \div b \in Nat /\ c < (c \div b) * b + b
  BY <1>1, Quotient
<1> QED BY <1>2 DEF c, div_round_up

LEMMA QuotientAtLeast ==
  ASSUME NEW a \in Nat, NEW b \in Nat \ {0}, NEW n \in Nat, n * b <= a
  PROVE  n <= a \div b
<1> DEFINE q == a \div b
<1>1. q \in Nat /\ a < q * b + b
  BY Quotient
<1> HIDE DEF q
<1>2. n * b < (q + 1) * b
  BY <1>1
<1>3. n < q + 1
  BY <1>1, <1>2
<1> QED BY <1>1, <1>3 DEF q

\* a block has room for the items it is allocated for, and buckets for its items
LEMMA BlockFits ==
  ASSUME NEW n \in Nat \ {0}
  PROVE  /\ block_bytes(n) \in Nat /\ block_items(n) \in Nat /\ block_buckets(n) \in Nat
         /\ n <= block_items(n)
         /\ block_items(n) <= block_buckets(n) * BUCKET_SIZE
         /\ block_buckets(n) > 0
<1>1. /\ item_bytes \in Nat \ {0} /\ BUCKET_GRANULARITY \in Nat \ {0}
      /\ BUCKET_SIZE \in Nat \ {0}
  BY BucketsAssumption
<1>2. n * item_bytes \in Nat
  BY <1>1
<1>3. block_bytes(n) \in Nat /\ n * item_bytes <= block_bytes(n)
  BY <1>1, <1>2, RoundUp DEF block_bytes
<1>4. block_items(n) \in Nat /\ n <= block_items(n)
  BY <1>1, <1>3, Quotient, QuotientAtLeast DEF block_items
<1>5. block_buckets(n) \in Nat /\ block_items(n) <= block_buckets(n) * BUCKET_SIZE
  BY <1>1, <1>4, RoundUp DEF block_buckets
<1>6. block_buckets(n) > 0
  <2>1. CASE block_buckets(n) = 0
    BY <2>1, <1>1, <1>4, <1>5
  <2> QED BY <2>1, <1>5
<1> QED BY <1>3, <1>4, <1>5, <1>6

-----------------------------------------------------------------------------
(* The steps *)

\* the new items come before the old free items, and all others stay
LEMMA AddBucketsLinked ==
  ASSUME BucketTypes, NEW n \in Nat \ {0}, AddBuckets(n), size' = size,
         pc' \in {"idle", "insert", "panic", "gone"}, inserting' \in Item,
         NEW unused, unused \subseteq Memory, FreeLinked(unused),
         NEW unused2, unused2 = unused \cup (Memory' \ Memory)
  PROVE  /\ BucketTypes'
         /\ Memory \subseteq Memory' /\ \A i \in Memory : data'[i] = data[i]
         /\ buckets_size' \in Nat /\ buckets_size < buckets_size'
         /\ capacity' > capacity
         /\ IsLinked(first_free', data', NONE, unused2, capacity' - size')
<1> DEFINE first == buckets_size * BUCKET_SIZE
           last == first + block_items(n) - 1
           size2 == capacity + block_items(n)
<1>1. /\ last <= MaxIndex
      /\ data' = [i \in Memory \cup first .. last |->
                    IF i \in Memory THEN data[i] ELSE LinkOf(i, last)]
      /\ first_free' = first /\ buckets_capacity' = TableCapacity(n)
      /\ buckets_size' = buckets_size + block_buckets(n)
      /\ capacity' = size2
      /\ allocations' = [b \in DOMAIN allocations \cup {buckets_size} |->
                           IF b = buckets_size THEN block_bytes(n) ELSE allocations[b]]
  BY DEF AddBuckets
<1>2. /\ BUCKET_SIZE \in Nat \ {0} /\ MaxIndex \in Nat /\ Word \in Nat /\ MaxIndex < Word - 1
      /\ LEAST_BUCKETS_COUNT \in Nat
  BY BucketsAssumption
<1>3. /\ block_bytes(n) \in Nat /\ block_items(n) \in Nat /\ block_buckets(n) \in Nat
      /\ block_items(n) > 0 /\ block_buckets(n) > 0
      /\ block_items(n) <= block_buckets(n) * BUCKET_SIZE
  BY BlockFits
<1>4. buckets_size \in Nat /\ first \in Nat
  BY <1>2 DEF BucketTypes
<1>5. last \in Nat /\ first <= last
  BY <1>3, <1>4
<1>6. last <= (buckets_size + block_buckets(n)) * BUCKET_SIZE - 1
  <2> DEFINE k == block_buckets(n)
  <2>1. k \in Nat /\ block_items(n) <= k * BUCKET_SIZE
    BY <1>3
  <2> HIDE DEF k
  <2>2. (buckets_size + k) * BUCKET_SIZE = first + k * BUCKET_SIZE
    BY <2>1, <1>2, <1>4
  <2>3. k * BUCKET_SIZE \in Nat
    BY <2>1, <1>2
  <2> HIDE DEF first
  <2> QED BY <2>1, <2>2, <2>3, <1>3, <1>4 DEF k
<1>7. \A i \in Memory : i \in 0 .. first - 1
  BY DEF BucketTypes
<1> HIDE DEF first, last, size2
<1>8. \A i \in first .. last : i \notin Memory /\ i # NONE /\ i \in 0 .. MaxIndex
  <2> TAKE i \in first .. last
  <2>1. i \notin Memory
    BY <1>4, <1>7
  <2> QED BY <2>1, <1>1, <1>2, <1>4, <1>5 DEF NONE
<1>9. Memory' = Memory \cup first .. last
  BY <1>1 DEF Memory
<1>10. /\ \A i \in Memory : data'[i] = data[i]
       /\ \A i \in first .. last : data'[i] = IF i = last THEN first_free ELSE i + 1
  BY <1>1, <1>8 DEF LinkOf
<1>11. \A i \in Memory' : data'[i] \in Item \cup 0 .. Word - 1
  <2> TAKE i \in Memory'
  <2>1. CASE i \in Memory
    BY <2>1, <1>10 DEF BucketTypes
  <2>2. CASE i \in first .. last
    <3>1. i + 1 \in 0 .. Word - 1
      BY <2>2, <1>2, <1>8
    <3> QED BY <3>1, <2>2, <1>10 DEF BucketTypes
  <2> QED BY <2>1, <2>2, <1>9
<1>12. data' \in [Memory' -> Item \cup 0 .. Word - 1]
  <2>1. data' = [i \in Memory' |-> data'[i]]
    BY <1>1, <1>9
  <2> QED BY <2>1, <1>11
<1>13. buckets_size' \in Nat /\ buckets_size < buckets_size'
  BY <1>1, <1>3, <1>4
<1>14. Memory' \subseteq 0 .. MaxIndex /\ Memory' \subseteq 0 .. buckets_size' * BUCKET_SIZE - 1
  <2>1. first .. last \subseteq 0 .. buckets_size' * BUCKET_SIZE - 1
    <3>1. buckets_size' * BUCKET_SIZE \in Nat
      BY <1>2, <1>13, Product
    <3> QED BY <3>1, <1>1, <1>4, <1>5, <1>6
  <2>2. Memory \subseteq 0 .. buckets_size' * BUCKET_SIZE - 1
    <3>1. buckets_size' * BUCKET_SIZE \in Nat
      BY <1>2, <1>13, Product
    <3> QED BY <3>1, <1>1, <1>4, <1>5, <1>6, <1>7
  <2> QED BY <2>1, <2>2, <1>8, <1>9 DEF BucketTypes
<1>15. capacity' \in Nat /\ size' \in Nat /\ capacity' > capacity
  BY <1>1, <1>3 DEF BucketTypes, size2
<1>16. buckets_capacity' \in Nat
  BY <1>1, <1>2 DEF TableCapacity, BucketTypes
<1>17. /\ DOMAIN allocations' \subseteq 0 .. buckets_size' - 1
       /\ allocations' \in [DOMAIN allocations' -> Nat]
  BY <1>1, <1>3, <1>4, <1>13 DEF BucketTypes
<1>18. first_free' \in 0 .. Word - 1
  BY <1>1, <1>2, <1>4, <1>5, <1>8
<1>19. BucketTypes'
  BY <1>12, <1>13, <1>14, <1>15, <1>16, <1>17, <1>18 DEF BucketTypes
<1>20. IsLinked(first, data', NONE, unused2, capacity' - size')
  <2> DEFINE k == capacity - size
             m == capacity' - size'
             link2 == data'
  <2>1. IsLinked(first_free, data, NONE, unused, k)
    BY DEF FreeLinked
  <2>2. RangeBefore(first_free, data, NONE, unused, first, last, link2)
    <3>1. \A i \in first .. last : i \notin unused /\ i # NONE
      BY <1>8
    <3>2. \A i \in unused : link2[i] = data[i]
      BY <1>10
    <3>3. \A i \in first .. last : link2[i] = IF i = last THEN first_free ELSE i + 1
      BY <1>10
    <3>4. first \in Int /\ last \in Int /\ first <= last
      BY <1>4, <1>5
    <3> HIDE DEF link2
    <3> QED BY <3>1, <3>2, <3>3, <3>4 DEF RangeBefore
  <2>3. unused2 = unused \cup first .. last
    BY <1>8, <1>9
  <2>4. m = k + (last - first + 1)
    <3>1. last - first + 1 = block_items(n)
      BY <1>3, <1>4 DEF last
    <3> QED BY <3>1, <1>1, <1>3 DEF BucketTypes, size2
  <2> HIDE DEF k, m, link2
  <2>5. IsLinked(first, link2, NONE, unused2, m)
    BY <2>1, <2>2, <2>3, <2>4, LinkedRange
  <2> QED BY <2>5 DEF link2, m
<1> QED BY <1>1, <1>9, <1>10, <1>13, <1>15, <1>19, <1>20

\* a step that adds no memory may have made the table of buckets larger
LEMMA NothingAdded ==
  ASSUME BucketTypes, buckets_capacity' \in Nat,
         pc' \in {"idle", "insert", "panic", "gone"}, inserting' \in Item,
         UNCHANGED <<buckets_size, size, capacity, first_free, data, allocations>>,
         NEW unused, FreeLinked(unused),
         NEW unused2, unused2 = unused \cup (Memory' \ Memory)
  PROVE  /\ BucketTypes'
         /\ Memory \subseteq Memory' /\ \A i \in Memory : data'[i] = data[i]
         /\ buckets_size' \in Nat /\ buckets_size <= buckets_size'
         /\ IsLinked(first_free', data', NONE, unused2, capacity' - size')
<1>1. Memory' = Memory /\ unused2 = unused
  BY DEF Memory
<1>2. IsLinked(first_free', data', NONE, unused2, capacity' - size')
  BY <1>1 DEF FreeLinked
<1> QED BY <1>1, <1>2 DEF BucketTypes

LEMMA TableCapacityNat == ASSUME BucketTypes, NEW n PROVE TableCapacity(n) \in Nat
  BY BucketsAssumption DEF TableCapacity, BucketTypes

LEMMA ReserveLinked ==
  ASSUME BucketTypes, NEW n \in Nat, ReserveItems(n),
         NEW unused, unused \subseteq Memory, FreeLinked(unused),
         NEW unused2, unused2 = unused \cup (Memory' \ Memory)
  PROVE  /\ BucketTypes' /\ pc = "idle" /\ pc' \in {"idle", "panic"} /\ size' = size
         /\ Memory \subseteq Memory' /\ \A i \in Memory : data'[i] = data[i]
         /\ buckets_size' \in Nat /\ buckets_size <= buckets_size'
         /\ IsLinked(first_free', data', NONE, unused2, capacity' - size')
<1>1. pc = "idle" /\ capacity < n /\ size' = size /\ inserting' = inserting
  BY DEF ReserveItems
<1>2. n - capacity \in Nat \ {0}
  BY <1>1 DEF BucketTypes
<1>3. inserting' \in Item
  BY <1>1 DEF BucketTypes
<1>4. CASE AddBuckets(n - capacity) /\ UNCHANGED pc
  <2>1. pc' \in {"idle", "insert", "panic", "gone"}
    BY <1>1, <1>4
  <2>2. /\ BucketTypes' /\ Memory \subseteq Memory' /\ \A i \in Memory : data'[i] = data[i]
        /\ buckets_size' \in Nat /\ buckets_size < buckets_size'
        /\ IsLinked(first_free', data', NONE, unused2, capacity' - size')
    BY <1>1, <1>2, <1>3, <1>4, <2>1, AddBucketsLinked
  <2> QED BY <2>2, <1>1, <1>4 DEF BucketTypes
<1>5. CASE AddBucketsFails(n - capacity) /\ pc' \in {"idle", "panic"}
  <2>1. UNCHANGED <<buckets_size, size, capacity, first_free, data, allocations>>
    BY <1>1, <1>5 DEF AddBucketsFails
  <2>2. buckets_capacity' \in Nat
    BY <1>5, TableCapacityNat DEF AddBucketsFails, BucketTypes
  <2>3. pc' \in {"idle", "insert", "panic", "gone"}
    BY <1>5
  <2> QED BY <2>1, <2>2, <2>3, <1>1, <1>3, <1>5, NothingAdded
<1> QED BY <1>4, <1>5 DEF ReserveItems

LEMMA BeginInsertionLinked ==
  ASSUME BucketTypes, NEW x \in Item, BeginInsertion(x),
         NEW unused, unused \subseteq Memory, FreeLinked(unused),
         NEW unused2, unused2 = unused \cup (Memory' \ Memory)
  PROVE  /\ BucketTypes' /\ pc = "idle" /\ pc' \in {"insert", "panic"} /\ size' = size
         /\ Memory \subseteq Memory' /\ \A i \in Memory : data'[i] = data[i]
         /\ buckets_size' \in Nat /\ buckets_size <= buckets_size'
         /\ pc' = "insert" => capacity' > size'
         /\ IsLinked(first_free', data', NONE, unused2, capacity' - size')
<1>1. pc = "idle" /\ size' = size /\ inserting' = x
  BY DEF BeginInsertion
<1>2. CASE capacity >= size + 1 /\ pc' = "insert" /\ UNCHANGED <<layout, data, first_free>>
  <2>1. UNCHANGED <<buckets_size, size, capacity, first_free, data, allocations>>
        /\ buckets_capacity' = buckets_capacity
    BY <1>1, <1>2 DEF layout
  <2>2. buckets_capacity' \in Nat /\ capacity' > size'
    BY <2>1, <1>2 DEF BucketTypes
  <2> QED BY <2>1, <2>2, <1>1, <1>2, NothingAdded
<1>3. CASE capacity < size + 1 /\ AddBuckets(GrowBy) /\ pc' = "insert"
  <2>1. GrowBy \in Nat \ {0}
    BY <1>3, BucketsAssumption DEF GrowBy, BucketTypes
  <2>2. /\ BucketTypes' /\ Memory \subseteq Memory' /\ \A i \in Memory : data'[i] = data[i]
        /\ buckets_size' \in Nat /\ buckets_size < buckets_size'
        /\ capacity' > capacity
        /\ IsLinked(first_free', data', NONE, unused2, capacity' - size')
    BY <1>1, <1>3, <2>1, AddBucketsLinked
  <2>3. capacity - size \in Nat
    BY DEF FreeLinked, IsLinked
  <2>4. capacity' > size'
    BY <2>2, <2>3, <1>1 DEF BucketTypes
  <2> QED BY <2>2, <2>4, <1>1, <1>3 DEF BucketTypes
<1>4. CASE capacity < size + 1 /\ AddBucketsFails(GrowBy) /\ pc' = "panic"
  <2>1. UNCHANGED <<buckets_size, size, capacity, first_free, data, allocations>>
    BY <1>1, <1>4 DEF AddBucketsFails
  <2>2. buckets_capacity' \in Nat
    BY <1>4, TableCapacityNat DEF AddBucketsFails, BucketTypes
  <2> QED BY <2>1, <2>2, <1>1, <1>4, NothingAdded
<1> QED BY <1>2, <1>3, <1>4 DEF BeginInsertion

\* without an offset the first free item is its own index
LEMMA NoOffset ==
  ASSUME handle_offset = 0, NEW h \in 0 .. Word - 1
  PROVE  to_index(h) = h /\ (h + handle_offset) % Word = h
<1>1. Word \in Nat \ {0}
  BY BucketsAssumption
<1>2. h % Word = h /\ h - handle_offset = h /\ h + handle_offset = h
  BY <1>1, ModNear
<1> QED BY <1>2 DEF to_index

LEMMA FirstFreeIsFree ==
  ASSUME BucketTypes, NEW unused, FreeLinked(unused), capacity > size
  PROVE  first_free \in unused
<1>1. capacity - size > 0
  BY DEF BucketTypes
<1> QED BY <1>1, LinkedFirst DEF FreeLinked

LEMMA TakeLinked ==
  ASSUME BucketTypes, handle_offset = 0, capacity > size,
         NEW unused, unused \subseteq Memory, FreeLinked(unused),
         TakeFirstFree(to_index(first_free)),
         NEW unused2, unused2 = unused \ {first_free}
  PROVE  /\ BucketTypes' /\ first_free \in unused /\ to_index(first_free) = first_free
         /\ Memory' = Memory
         /\ data'[first_free] = inserting
         /\ \A i \in Memory \ {first_free} : data'[i] = data[i]
         /\ buckets_size' = buckets_size /\ size' = size + 1 /\ pc' = "idle"
         /\ IsLinked(first_free', data', NONE, unused2, capacity' - size')
<1>1. to_index(first_free) = first_free
  BY NoOffset DEF BucketTypes
<1>2. first_free \in unused
  BY FirstFreeIsFree
<1>3. /\ first_free' = data[first_free]
      /\ data' = [data EXCEPT ![first_free] = inserting]
      /\ size' = size + 1 /\ pc' = "idle" /\ inserting' = inserting
      /\ UNCHANGED <<buckets_size, buckets_capacity, capacity, allocations>>
  BY <1>1 DEF TakeFirstFree, FreeAfterTake, layout
<1>4. data \in [Memory -> Item \cup 0 .. Word - 1] /\ inserting \in Item
  BY DEF BucketTypes
<1>5. /\ data' \in [Memory -> Item \cup 0 .. Word - 1]
      /\ data'[first_free] = inserting
      /\ \A i \in Memory \ {first_free} : data'[i] = data[i]
  BY <1>2, <1>3, <1>4
<1>6. Memory' = Memory
  BY <1>5 DEF Memory
<1>7. IsLinked(first_free', data', NONE, unused2, capacity' - size')
  <2> DEFINE k == capacity - size
             m == capacity' - size'
             link2 == data'
  <2>1. IsLinked(first_free, data, NONE, unused, k)
    BY DEF FreeLinked
  <2>2. k > 0 /\ m = k - 1
    BY <1>3 DEF BucketTypes
  <2>3. \A i \in unused \ {first_free} : link2[i] = data[i]
    BY <1>5
  <2> HIDE DEF k, m, link2
  <2>4. IsLinked(data[first_free], link2, NONE, unused2, m)
    BY <2>1, <2>2, <2>3, LinkedTake
  <2> QED BY <2>4, <1>3 DEF m, link2
<1>8. first_free' \in 0 .. Word - 1
  <2> DEFINE k == capacity - size
  <2>1. IsLinked(first_free', data', NONE, unused2, capacity' - size')
    BY <1>7
  <2>2. first_free' \in unused2 \/ first_free' = NONE
    BY <2>1, LinkedFirst
  <2>3. NONE \in 0 .. Word - 1 /\ \A i \in unused : i \in 0 .. Word - 1
    BY BucketsAssumption DEF NONE, BucketTypes
  <2> QED BY <2>2, <2>3
<1>9. size' \in Nat
  BY <1>3 DEF BucketTypes
<1>10. BucketTypes'
  BY <1>3, <1>5, <1>6, <1>8, <1>9 DEF BucketTypes
<1> QED BY <1>1, <1>2, <1>3, <1>5, <1>6, <1>7, <1>10

LEMMA GiveBackLinked ==
  ASSUME BucketTypes, size > 0,
         NEW unused, unused \subseteq Memory, FreeLinked(unused),
         NEW i \in Memory, i \notin unused, GiveBack(i, i),
         NEW unused2, unused2 = unused \cup {i}
  PROVE  /\ BucketTypes'
         /\ Memory' = Memory
         /\ \A j \in Memory \ {i} : data'[j] = data[j]
         /\ buckets_size' = buckets_size /\ size' = size - 1 /\ pc' = pc
         /\ IsLinked(first_free', data', NONE, unused2, capacity' - size')
<1>1. /\ first_free' = i /\ data' = [data EXCEPT ![i] = first_free]
      /\ size' = size - 1 /\ pc' = pc /\ inserting' = inserting
      /\ UNCHANGED <<buckets_size, buckets_capacity, capacity, allocations>>
  BY DEF GiveBack, layout
<1>2. data \in [Memory -> Item \cup 0 .. Word - 1] /\ first_free \in 0 .. Word - 1
  BY DEF BucketTypes
<1>3. /\ data' \in [Memory -> Item \cup 0 .. Word - 1]
      /\ data'[i] = first_free
      /\ \A j \in Memory \ {i} : data'[j] = data[j]
  BY <1>1, <1>2
<1>4. Memory' = Memory
  BY <1>3 DEF Memory
<1>5. i \in 0 .. Word - 1 /\ i # NONE
  BY BucketsAssumption DEF NONE, BucketTypes
<1>6. IsLinked(first_free', data', NONE, unused2, capacity' - size')
  <2> DEFINE k == capacity - size
             m == capacity' - size'
             link2 == data'
  <2>1. IsLinked(first_free, data, NONE, unused, k)
    BY DEF FreeLinked
  <2>2. m = k + 1
    BY <1>1 DEF BucketTypes
  <2>3. \A j \in unused : link2[j] = data[j]
    BY <1>3
  <2>4. link2[i] = first_free
    BY <1>3
  <2> HIDE DEF k, m, link2
  <2>5. IsLinked(i, link2, NONE, unused2, m)
    BY <2>1, <2>2, <2>3, <2>4, <1>5, LinkedGive
  <2> QED BY <2>5, <1>1 DEF m, link2
<1>7. size' \in Nat
  BY <1>1 DEF BucketTypes
<1>8. BucketTypes'
  BY <1>1, <1>3, <1>4, <1>5, <1>7 DEF BucketTypes
<1> QED BY <1>1, <1>3, <1>4, <1>6, <1>8

\* a free list that is linked goes through the unused items, each one once, and ends
LEMMA FreeLinkedIsList ==
  ASSUME NEW unused, unused \subseteq Memory, FreeLinked(unused)
  PROVE  FreeListIs(unused)
<1> DEFINE n == capacity - size
<1>1. IsLinked(first_free, data, NONE, unused, n) /\ unused \subseteq DOMAIN data
  BY DEF FreeLinked, Memory
<1> HIDE DEF n
<1>2. ListIs(first_free, data, NONE, unused) /\ Cardinality(unused) = n
  BY <1>1, LinkedIsList
<1>3. QED BY <1>2 DEF FreeListIs, n
=============================================================================
