-------------------------- MODULE BucketArray_proofs --------------------------
(****************************************************************************)
(* Bucket_Array for every size of items, buckets and blocks, every failing  *)
(* allocation and every sequence of calls, with handles that have no offset *)
(****************************************************************************)
EXTENDS BucketArray, Buckets_proofs

\* as many items are in use as are counted, and the others are in the free list
UsedCounted ==
  /\ used \subseteq Memory
  /\ IsFiniteSet(used) /\ Cardinality(used) = size
  /\ FreeLinked(UnusedItems)

IInv ==
  /\ BucketTypes /\ UsedCounted
  /\ pc = "insert" => capacity > size

-----------------------------------------------------------------------------
(* The memory lies in the items of the buckets *)

ItemsOf(b) == b * BUCKET_SIZE .. b * BUCKET_SIZE + bucket_capacity[b] - 1

\* every item with memory is one of those that its bucket knows to have
Covered ==
  /\ \A b \in 0 .. buckets_size - 1 : bucket_capacity[b] \in Nat
  /\ \A i \in Memory : \E b \in 0 .. buckets_size - 1 : i \in ItemsOf(b)

\* the destructor has destroyed what was in use
DestroyedAll == pc = "gone" => destroyed = used

\* the items of a block are shared by its buckets without a gap
LEMMA BlockShared ==
  ASSUME NEW n \in Nat, NEW j \in 0 .. n - 1, NEW k, k = j \div BUCKET_SIZE
  PROVE  /\ k \in 0 .. div_round_up(n, BUCKET_SIZE) - 1
         /\ k * BUCKET_SIZE <= j
         /\ j < k * BUCKET_SIZE + ItemsInBucket(n - k * BUCKET_SIZE)
<1>1. BUCKET_SIZE \in Nat \ {0}
  BY BucketsAssumption
<1>2. k \in Nat /\ k * BUCKET_SIZE <= j /\ j < k * BUCKET_SIZE + BUCKET_SIZE
  BY <1>1, Quotient
<1> DEFINE m == div_round_up(n, BUCKET_SIZE)
<1>3. m \in Nat /\ n <= m * BUCKET_SIZE
  BY <1>1, RoundUp
<1> HIDE DEF m
<1>4. k < m
  <2>1. CASE m <= k
    <3>1. m * BUCKET_SIZE <= k * BUCKET_SIZE
      BY <1>1, <1>2, <1>3, <2>1
    <3>2. k * BUCKET_SIZE \in Nat /\ m * BUCKET_SIZE \in Nat
      BY <1>1, <1>2, <1>3
    <3> QED BY <3>1, <3>2, <1>2, <1>3
  <2> QED BY <2>1, <1>2, <1>3
<1> DEFINE e == k * BUCKET_SIZE
<1>5. e \in Nat /\ e <= j /\ j < e + BUCKET_SIZE
  BY <1>1, <1>2
<1> HIDE DEF e
<1>6. j < e + ItemsInBucket(n - e)
  BY <1>1, <1>5 DEF ItemsInBucket
<1> QED BY <1>2, <1>3, <1>4, <1>5, <1>6 DEF e, m

\* whether a block is added or not, the memory stays in the buckets
LEMMA GrowthCovered ==
  ASSUME BucketTypes, Covered, NewBucketsFilled,
         \/ \E n \in Nat \ {0} : AddBuckets(n)
         \/ UNCHANGED <<buckets_size, data>>
  PROVE  Covered'
<1>1. buckets_size \in Nat /\ BUCKET_SIZE \in Nat \ {0}
  BY BucketsAssumption DEF BucketTypes
<1>2. \A b \in 0 .. buckets_size' - 1 :
        bucket_capacity'[b] =
          IF b < buckets_size THEN bucket_capacity[b]
          ELSE ItemsInBucket(capacity' - capacity - (b - buckets_size) * BUCKET_SIZE)
  BY DEF NewBucketsFilled
<1>3. CASE UNCHANGED <<buckets_size, data>>
  <2>1. \A b \in 0 .. buckets_size - 1 : bucket_capacity'[b] = bucket_capacity[b]
    BY <1>1, <1>2, <1>3
  <2>2. \A b \in 0 .. buckets_size - 1 : ItemsOf(b)' = ItemsOf(b)
    BY <2>1 DEF ItemsOf
  <2>3. Memory' = Memory
    BY <1>3 DEF Memory
  <2> QED BY <1>3, <2>1, <2>2, <2>3 DEF Covered
<1>4. ASSUME NEW n \in Nat \ {0}, AddBuckets(n) PROVE Covered'
  <2> DEFINE m == block_items(n)
             first == buckets_size * BUCKET_SIZE
  <2>1. /\ m \in Nat /\ first \in Nat /\ capacity' - capacity = m
        /\ buckets_size' = buckets_size + div_round_up(m, BUCKET_SIZE)
        /\ div_round_up(m, BUCKET_SIZE) \in Nat
        /\ Memory' = Memory \cup first .. first + m - 1
    <3>1. m \in Nat /\ div_round_up(m, BUCKET_SIZE) \in Nat
      BY BlockFits DEF block_buckets
    <3>2. capacity' = capacity + m /\ capacity \in Nat
      BY <1>4 DEF AddBuckets, BucketTypes
    <3>3. Memory' = Memory \cup first .. first + m - 1
      BY <1>4 DEF AddBuckets, Memory
    <3>4. buckets_size' = buckets_size + div_round_up(m, BUCKET_SIZE)
      BY <1>4 DEF AddBuckets, block_buckets
    <3>5. first \in Nat
      BY <1>1
    <3> HIDE DEF m, first
    <3> QED BY <3>1, <3>2, <3>3, <3>4, <3>5
  <2> DEFINE r == div_round_up(m, BUCKET_SIZE)
  <2>2. ASSUME NEW b \in 0 .. buckets_size - 1
        PROVE  b \in 0 .. buckets_size' - 1 /\ bucket_capacity'[b] = bucket_capacity[b]
               /\ ItemsOf(b)' = ItemsOf(b)
    <3>1. b \in 0 .. buckets_size' - 1 /\ b < buckets_size
      <4> HIDE DEF m
      <4> QED BY <1>1, <2>1
    <3>2. bucket_capacity'[b] = bucket_capacity[b]
      BY <3>1, <1>2
    <3> QED BY <3>1, <3>2 DEF ItemsOf
  <2>3. ASSUME NEW k \in 0 .. r - 1
        PROVE  /\ buckets_size + k \in 0 .. buckets_size' - 1
               /\ bucket_capacity'[buckets_size + k] = ItemsInBucket(m - k * BUCKET_SIZE)
    <3> HIDE DEF m
    <3>1. r \in Nat /\ buckets_size + k \in 0 .. buckets_size' - 1
      BY <1>1, <2>1
    <3>2. ~(buckets_size + k < buckets_size) /\ (buckets_size + k) - buckets_size = k
      BY <1>1
    <3> QED BY <3>1, <3>2, <1>2, <2>1
  <2>4. ASSUME NEW b \in 0 .. buckets_size' - 1 PROVE bucket_capacity'[b] \in Nat
    <3>1. CASE b < buckets_size
      <4>1. b \in 0 .. buckets_size - 1
        BY <1>1, <3>1
      <4> QED BY <4>1, <2>2 DEF Covered
    <3>2. CASE ~(b < buckets_size)
      <4> DEFINE k == b - buckets_size
                 e == k * BUCKET_SIZE
      <4>0. m \in Nat /\ r \in Nat /\ buckets_size' = buckets_size + r
        BY <2>1
      <4> HIDE DEF m, r
      <4>1. k \in 0 .. r - 1 /\ b = buckets_size + k
        BY <1>1, <3>2, <4>0
      <4>2. e \in Nat
        BY <1>1, <4>1
      <4>3. e < m
        <5>1. r * BUCKET_SIZE <= m + BUCKET_SIZE - 1
          <6> DEFINE a == m + BUCKET_SIZE - 1
          <6>1. a \in Nat /\ r = a \div BUCKET_SIZE
            BY <1>1, <4>0 DEF r, div_round_up
          <6> HIDE DEF a
          <6>2. r * BUCKET_SIZE <= a
            BY <6>1, <1>1, Quotient
          <6> QED BY <6>2 DEF a
        <5>2. (k + 1) * BUCKET_SIZE <= r * BUCKET_SIZE
          BY <1>1, <4>0, <4>1
        <5>3. (k + 1) * BUCKET_SIZE = e + BUCKET_SIZE
          BY <1>1, <4>1
        <5>4. r * BUCKET_SIZE \in Nat
          BY <1>1, <4>0
        <5> HIDE DEF e
        <5> QED BY <5>1, <5>2, <5>3, <5>4, <1>1, <4>0, <4>2
      <4>4. bucket_capacity'[b] = ItemsInBucket(m - e)
        BY <4>1, <2>3
      <4> HIDE DEF e
      <4>5. ItemsInBucket(m - e) \in Nat
        BY <1>1, <4>0, <4>2, <4>3 DEF ItemsInBucket
      <4> QED BY <4>4, <4>5
    <3> QED BY <3>1, <3>2
  <2>5. ASSUME NEW i \in Memory' PROVE \E b \in 0 .. buckets_size' - 1 : i \in ItemsOf(b)'
    <3>1. CASE i \in Memory
      <4>1. PICK b \in 0 .. buckets_size - 1 : i \in ItemsOf(b)
        BY <3>1 DEF Covered
      <4> QED BY <4>1, <2>2
    <3>2. CASE i \in first .. first + m - 1
      <4> DEFINE j == i - first
                 k == j \div BUCKET_SIZE
                 b == buckets_size + k
                 e == k * BUCKET_SIZE
                 c == ItemsInBucket(m - e)
      <4>0. m \in Nat /\ first \in Nat
        BY <2>1
      <4>1. j \in 0 .. m - 1 /\ i = first + j
        <5> HIDE DEF m, first
        <5> QED BY <3>2, <4>0
      <4>2. k \in 0 .. r - 1 /\ e <= j /\ j < e + c
        <5> HIDE DEF m, j
        <5> QED BY <4>0, <4>1, BlockShared
      <4>3. b \in 0 .. buckets_size' - 1 /\ bucket_capacity'[b] = c
        <5> HIDE DEF m, j, k
        <5> QED BY <4>2, <2>3
      <4>4. c \in Nat
        <5> HIDE DEF c, b
        <5> QED BY <2>4, <4>3
      <4>5. b * BUCKET_SIZE = first + e /\ e \in Nat
        <5>1. k \in Nat
          BY <4>2
        <5> HIDE DEF k
        <5> QED BY <5>1, <1>1
      <4> HIDE DEF b, c, e, j, m, first, k
      <4>6. ASSUME NEW x \in 0 .. buckets_size' - 1, x = b PROVE i \in ItemsOf(x)'
        <5>1. ItemsOf(x)' = first + e .. first + e + c - 1
          BY <4>3, <4>5, <4>6 DEF ItemsOf
        <5> QED BY <5>1, <4>0, <4>1, <4>2, <4>4, <4>5
      <4> QED BY <4>3, <4>6
    <3> QED BY <3>1, <3>2, <2>1
  <2> QED BY <2>4, <2>5 DEF Covered
<1> QED BY <1>3, <1>4

LEMMA DestroyedInit == BucketInit => Covered /\ DestroyedAll
<1> SUFFICES ASSUME BucketInit PROVE Covered /\ DestroyedAll
  OBVIOUS
<1>1. buckets_size = 0 /\ data = <<>> /\ pc = "idle"
  BY DEF BucketInit, Init
<1> QED BY <1>1 DEF Covered, DestroyedAll, Memory

LEMMA DestroyedStep ==
  ASSUME BucketTypes, used \subseteq Memory, BucketTypes', Covered, DestroyedAll,
         [BucketNext]_vars
  PROVE  Covered' /\ DestroyedAll'
<1>1. ASSUME UNCHANGED <<buckets_size, bucket_capacity>>, Memory' = Memory PROVE Covered'
  <2>1. \A b : ItemsOf(b)' = ItemsOf(b)
    BY <1>1 DEF ItemsOf
  <2> QED BY <1>1, <2>1 DEF Covered
<1>2. ASSUME NEW n \in ReserveSizes, Reserve(n) PROVE Covered' /\ DestroyedAll'
  <2>1. NewBucketsFilled /\ ReserveItems(n) /\ n \in Nat
    BY <1>2, BucketsAssumption DEF Reserve
  <2>2. n - capacity \in Nat \ {0} /\ pc' \in {"idle", "panic"}
    BY <2>1 DEF ReserveItems, BucketTypes
  <2>3. AddBuckets(n - capacity) \/ UNCHANGED <<buckets_size, data>>
    BY <2>1 DEF ReserveItems, AddBucketsFails
  <2> QED BY <2>1, <2>2, <2>3, GrowthCovered DEF DestroyedAll
<1>3. ASSUME NEW x \in Item, BeginInsert(x) PROVE Covered' /\ DestroyedAll'
  <2>1. NewBucketsFilled /\ BeginInsertion(x)
    BY <1>3 DEF BeginInsert
  <2>2. pc' \in {"insert", "panic"}
    BY <2>1 DEF BeginInsertion
  <2>3. (\E n \in Nat \ {0} : AddBuckets(n)) \/ UNCHANGED <<buckets_size, data>>
    <3>1. capacity < size + 1 => GrowBy \in Nat \ {0}
      BY BucketsAssumption DEF GrowBy, BucketTypes
    <3> QED BY <2>1, <3>1 DEF BeginInsertion, AddBucketsFails, layout
  <2> QED BY <2>1, <2>2, <2>3, GrowthCovered DEF DestroyedAll
<1>4. ASSUME FinishInsert PROVE Covered' /\ DestroyedAll'
  <2>1. pc' = "idle" /\ UNCHANGED <<buckets_size, bucket_capacity>> /\ Memory' = Memory
    BY <1>4 DEF FinishInsert, TakeFirstFree, layout, Memory
  <2> QED BY <1>1, <2>1 DEF DestroyedAll
<1>5. ASSUME NEW h, Remove(h) PROVE Covered' /\ DestroyedAll'
  <2>1. pc' = "idle" /\ UNCHANGED <<buckets_size, bucket_capacity>> /\ Memory' = Memory
    BY <1>5 DEF Remove, GiveBack, layout, Memory
  <2> QED BY <1>1, <2>1 DEF DestroyedAll
<1>6. ASSUME Destroy PROVE Covered' /\ DestroyedAll'
  <2>1. /\ UNCHANGED <<buckets_size, bucket_capacity, used>> /\ Memory' = Memory
        /\ destroyed' = used \cap UNION {ItemsOf(b) : b \in 0 .. buckets_size - 1}
    BY <1>6 DEF Destroy, Memory, ItemsOf
  <2>2. used \subseteq UNION {ItemsOf(b) : b \in 0 .. buckets_size - 1}
    BY DEF Covered
  <2> QED BY <1>1, <2>1, <2>2 DEF DestroyedAll
<1>7. ASSUME UNCHANGED vars PROVE Covered' /\ DestroyedAll'
  <2>1. UNCHANGED <<buckets_size, bucket_capacity, used, destroyed, pc>> /\ Memory' = Memory
    BY <1>7 DEF vars, layout, Memory
  <2> QED BY <1>1, <2>1 DEF DestroyedAll
<1> QED BY <1>2, <1>3, <1>4, <1>5, <1>6, <1>7 DEF BucketNext

-----------------------------------------------------------------------------
(* Used and free items *)

LEMMA InitInv == BucketInit => IInv
<1> SUFFICES ASSUME BucketInit PROVE IInv
  OBVIOUS
<1>1. /\ buckets_size = 0 /\ buckets_capacity = 0 /\ size = 0 /\ capacity = 0
      /\ first_free = NONE /\ data = <<>> /\ allocations = <<>> /\ pc = "idle"
      /\ inserting = CHOOSE x \in Item : TRUE
      /\ used = {}
  BY DEF BucketInit, Init
<1>2. Memory = {} /\ UnusedItems = {} /\ DOMAIN allocations = {}
  BY <1>1 DEF Memory, UnusedItems
<1>3. inserting \in Item /\ NONE \in 0 .. Word - 1
  BY <1>1, BucketsAssumption DEF NONE
<1>4. BucketTypes
  BY <1>1, <1>2, <1>3 DEF BucketTypes
<1>5. capacity - size = 0
  BY <1>1
<1>6. FreeLinked(UnusedItems)
  BY <1>1, <1>2, <1>5, LinkedNothing DEF FreeLinked
<1>7. IsFiniteSet(used) /\ Cardinality(used) = size
  BY <1>1, FS_EmptySet
<1> QED BY <1>1, <1>4, <1>6, <1>7 DEF IInv, UsedCounted

\* the handles and their items
LEMMA StoreIs ==
  ASSUME handle_offset = 0, BucketTypes, UsedCounted, pc # "gone"
  PROVE  Store = [h \in used |-> data[h]]
<1>1. \A i \in used : to_index(i) = i /\ (i + handle_offset) % Word = i
  <2> TAKE i \in used
  <2>1. i \in 0 .. Word - 1
    BY BucketsAssumption DEF BucketTypes, UsedCounted
  <2> QED BY <2>1, NoOffset
<1>2. LiveHandles = used
  BY <1>1 DEF LiveHandles
<1> QED BY <1>1, <1>2 DEF Store

LEMMA StepInv ==
  ASSUME handle_offset = 0, IInv, [BucketNext]_vars
  PROVE  IInv' /\ [HS!Next]_<<Store, pc # "gone">>
<1>1. BucketTypes /\ UsedCounted /\ UnusedItems \subseteq Memory
  BY DEF IInv, UnusedItems
<1> DEFINE unused2 == UnusedItems \cup (Memory' \ Memory)
<1>2. ASSUME used' = used, size' = size, BucketTypes', Memory \subseteq Memory',
             \A i \in Memory : data'[i] = data[i],
             IsLinked(first_free', data', NONE, unused2, capacity' - size'),
             pc # "gone", pc' # "gone", pc' = "insert" => capacity' > size'
      PROVE  IInv' /\ UNCHANGED <<Store, pc # "gone">>
  <2>1. UnusedItems' = unused2
    BY <1>1, <1>2 DEF UnusedItems, UsedCounted
  <2>2. UsedCounted'
    BY <1>1, <1>2, <2>1 DEF UsedCounted, FreeLinked, NONE
  <2>3. IInv'
    BY <1>2, <2>2 DEF IInv
  <2>4. Store = [h \in used |-> data[h]]
    BY <1>1, <1>2, StoreIs
  <2>5. Store' = [h \in used' |-> data'[h]]
    <3>1. \A i \in used' : to_index(i)' = i /\ (i + handle_offset) % Word = i
      <4> TAKE i \in used'
      <4>1. i \in 0 .. Word - 1
        BY <1>1, <1>2, BucketsAssumption DEF BucketTypes, UsedCounted
      <4> QED BY <4>1, NoOffset DEF to_index
    <3>2. LiveHandles' = used'
      BY <3>1 DEF LiveHandles
    <3> QED BY <3>1, <3>2, <1>2 DEF Store
  <2>6. Store' = Store
    BY <2>4, <2>5, <1>1, <1>2 DEF UsedCounted
  <2> QED BY <2>3, <2>6, <1>2
<1>3. ASSUME NEW n \in ReserveSizes, Reserve(n) PROVE IInv' /\ UNCHANGED <<Store, pc # "gone">>
  <2>1. n \in Nat /\ ReserveItems(n) /\ used' = used
    BY <1>3, BucketsAssumption DEF Reserve
  <2>2. FreeLinked(UnusedItems)
    BY <1>1 DEF UsedCounted
  <2> HIDE DEF unused2
  <2>3. unused2 = UnusedItems \cup (Memory' \ Memory)
    BY DEF unused2
  <2>4. /\ BucketTypes' /\ pc = "idle" /\ pc' \in {"idle", "panic"} /\ size' = size
        /\ Memory \subseteq Memory' /\ \A i \in Memory : data'[i] = data[i]
        /\ IsLinked(first_free', data', NONE, unused2, capacity' - size')
    BY <1>1, <2>1, <2>2, <2>3, ReserveLinked
  <2> QED BY <1>2, <2>1, <2>4
<1>4. ASSUME NEW x \in Item, BeginInsert(x) PROVE IInv' /\ UNCHANGED <<Store, pc # "gone">>
  <2>1. BeginInsertion(x) /\ used' = used
    BY <1>4 DEF BeginInsert
  <2>2. FreeLinked(UnusedItems)
    BY <1>1 DEF UsedCounted
  <2> HIDE DEF unused2
  <2>3. unused2 = UnusedItems \cup (Memory' \ Memory)
    BY DEF unused2
  <2>4. /\ BucketTypes' /\ pc = "idle" /\ pc' \in {"insert", "panic"} /\ size' = size
        /\ Memory \subseteq Memory' /\ \A i \in Memory : data'[i] = data[i]
        /\ pc' = "insert" => capacity' > size'
        /\ IsLinked(first_free', data', NONE, unused2, capacity' - size')
    BY <1>1, <2>1, <2>2, <2>3, BeginInsertionLinked
  <2> QED BY <1>2, <2>1, <2>4
<1>5. ASSUME FinishInsert PROVE IInv' /\ HS!Next
  <2> DEFINE i == first_free
  <2>1. pc = "insert" /\ TakeFirstFree(to_index(first_free)) /\ capacity > size
    BY <1>5 DEF FinishInsert, IInv
  <2>2. FreeLinked(UnusedItems)
    BY <1>1 DEF UsedCounted
  <2>3. /\ BucketTypes' /\ i \in UnusedItems /\ to_index(first_free) = i
        /\ Memory' = Memory /\ data'[i] = inserting
        /\ \A j \in Memory \ {i} : data'[j] = data[j]
        /\ size' = size + 1 /\ pc' = "idle"
        /\ IsLinked(first_free', data', NONE, UnusedItems \ {i}, capacity' - size')
    BY <1>1, <2>1, <2>2, TakeLinked
  <2>4. used' = used \cup {i}
    BY <1>5, <2>3 DEF FinishInsert
  <2>5. i \in Memory /\ i \notin used
    BY <2>3 DEF UnusedItems
  <2>6. UnusedItems' = UnusedItems \ {i}
    BY <2>3, <2>4 DEF UnusedItems
  <2>7. IsFiniteSet(used') /\ Cardinality(used') = size'
    BY <1>1, <2>3, <2>4, <2>5, FS_AddElement DEF UsedCounted
  <2>8. UsedCounted'
    BY <1>1, <2>3, <2>4, <2>5, <2>6, <2>7 DEF UsedCounted, FreeLinked, NONE
  <2>9. IInv'
    BY <2>3, <2>8 DEF IInv
  <2>10. Store = [h \in used |-> data[h]]
    BY <1>1, <2>1, StoreIs
  <2>11. Store' = [h \in used \cup {i} |-> data'[h]]
    <3>1. \A j \in used' : to_index(j)' = j /\ (j + handle_offset) % Word = j
      <4> TAKE j \in used'
      <4>1. j \in 0 .. Word - 1
        BY <1>1, <2>4, <2>5, BucketsAssumption DEF BucketTypes, UsedCounted
      <4> QED BY <4>1, NoOffset DEF to_index
    <3>2. LiveHandles' = used'
      BY <3>1 DEF LiveHandles
    <3> QED BY <3>1, <3>2, <2>3, <2>4 DEF Store
  <2>12. \A h \in used : data'[h] = data[h]
    BY <1>1, <2>3, <2>5 DEF UsedCounted
  <2>13. i \in Index /\ inserting \in Item
    BY <1>1 DEF BucketTypes, Index
  <2> HIDE DEF i
  <2>14. /\ i \notin DOMAIN Store
         /\ Store' = [g \in DOMAIN Store \cup {i} |-> IF g = i THEN inserting ELSE Store[g]]
    BY <2>3, <2>5, <2>10, <2>11, <2>12
  <2>15. HS!Insert(i, inserting)
    BY <2>1, <2>3, <2>14 DEF HS!Insert
  <2> QED BY <2>9, <2>13, <2>15 DEF HS!Next
<1>6. ASSUME NEW r \in used, Remove((r + handle_offset) % Word) PROVE IInv' /\ HS!Next
  <2>1. r \in Memory /\ r \in 0 .. Word - 1 /\ r \notin UnusedItems
    BY <1>1, BucketsAssumption DEF BucketTypes, UsedCounted, UnusedItems
  <2>2. (r + handle_offset) % Word = r /\ to_index(r) = r
    BY <2>1, NoOffset
  <2>3. pc = "idle" /\ GiveBack(r, r) /\ used' = used \ {r}
    BY <1>6, <2>2 DEF Remove
  <2>4. size > 0 /\ IsFiniteSet(used \ {r}) /\ Cardinality(used \ {r}) = size - 1
    <3>1. IsFiniteSet(used \ {r}) /\ Cardinality(used \ {r}) = Cardinality(used) - 1
      BY <1>1, FS_RemoveElement DEF UsedCounted
    <3>2. Cardinality(used \ {r}) \in Nat
      BY <3>1, FS_CardinalityType
    <3> QED BY <3>1, <3>2, <1>1 DEF UsedCounted, BucketTypes
  <2>5. FreeLinked(UnusedItems)
    BY <1>1 DEF UsedCounted
  <2>6. /\ BucketTypes' /\ Memory' = Memory /\ \A j \in Memory \ {r} : data'[j] = data[j]
        /\ size' = size - 1 /\ pc' = pc
        /\ IsLinked(first_free', data', NONE, UnusedItems \cup {r}, capacity' - size')
    BY <1>1, <2>1, <2>3, <2>4, <2>5, GiveBackLinked
  <2>7. UnusedItems' = UnusedItems \cup {r}
    BY <2>1, <2>3, <2>6 DEF UnusedItems
  <2>8. UsedCounted'
    BY <1>1, <2>3, <2>4, <2>6, <2>7 DEF UsedCounted, FreeLinked, NONE
  <2>9. IInv'
    BY <2>3, <2>6, <2>8 DEF IInv
  <2>10. Store = [h \in used |-> data[h]]
    BY <1>1, <2>3, StoreIs
  <2>11. Store' = [h \in used \ {r} |-> data'[h]]
    <3>1. \A j \in used' : to_index(j)' = j /\ (j + handle_offset) % Word = j
      <4> TAKE j \in used'
      <4>1. j \in 0 .. Word - 1
        BY <1>1, <2>3, BucketsAssumption DEF BucketTypes, UsedCounted
      <4> QED BY <4>1, NoOffset DEF to_index
    <3>2. LiveHandles' = used'
      BY <3>1 DEF LiveHandles
    <3> QED BY <3>1, <3>2, <2>3, <2>6 DEF Store
  <2>12. \A h \in used \ {r} : data'[h] = data[h]
    BY <1>1, <2>6 DEF UsedCounted
  <2>13. r \in DOMAIN Store /\ Store' = [g \in DOMAIN Store \ {r} |-> Store[g]]
    BY <2>10, <2>11, <2>12
  <2>14. HS!Remove(r)
    BY <2>3, <2>6, <2>13 DEF HS!Remove
  <2> QED BY <2>1, <2>9, <2>14 DEF HS!Next, Index
<1>7. ASSUME Destroy PROVE IInv' /\ HS!Next
  <2>1. /\ pc = "idle" /\ pc' = "gone"
        /\ allocations' = [b \in {c \in DOMAIN allocations : allocations[c] = 0} |-> 0]
        /\ UNCHANGED <<buckets_size, buckets_capacity, size, capacity, first_free,
                       data, inserting, used>>
    BY <1>7 DEF Destroy
  <2>2. /\ DOMAIN allocations' \subseteq 0 .. buckets_size' - 1
        /\ allocations' \in [DOMAIN allocations' -> Nat]
    BY <1>1, <2>1 DEF BucketTypes
  <2>3. Memory' = Memory /\ UnusedItems' = UnusedItems
    BY <2>1 DEF Memory, UnusedItems
  <2>4. BucketTypes'
    BY <1>1, <2>1, <2>2, <2>3 DEF BucketTypes
  <2>5. UsedCounted'
    BY <1>1, <2>1, <2>3 DEF UsedCounted, FreeLinked, NONE
  <2>6. Store' = HS!Empty
    BY <2>1 DEF Store, HS!Empty
  <2> QED BY <2>1, <2>4, <2>5, <2>6 DEF IInv, HS!Next, HS!Destroy
<1>8. ASSUME UNCHANGED vars PROVE IInv' /\ UNCHANGED <<Store, pc # "gone">>
  <2>1. UNCHANGED <<buckets_size, buckets_capacity, size, capacity, first_free, data,
                    allocations, pc, inserting, used>>
    BY <1>8 DEF vars, layout
  <2>2. Memory' = Memory /\ UnusedItems' = UnusedItems
    BY <2>1 DEF Memory, UnusedItems
  <2>3. BucketTypes' /\ UsedCounted'
    BY <1>1, <2>1, <2>2 DEF BucketTypes, UsedCounted, FreeLinked, NONE
  <2>4. IInv'
    BY <2>1, <2>3 DEF IInv
  <2>5. UNCHANGED <<Store, pc # "gone">>
    BY <2>1 DEF Store, LiveHandles, to_index
  <2> QED BY <2>4, <2>5
<1> QED BY <1>3, <1>4, <1>5, <1>6, <1>7, <1>8 DEF BucketNext

\* the inductive invariant: what is not in use is in the free list, once
THEOREM Invariance == ASSUME handle_offset = 0 PROVE BucketSpec => []IInv
  BY InitInv, StepInv, PTL DEF BucketSpec

\* the free list goes through the memory of exactly the items whose bit is not
\* set and ends, for every order of removals, insertions and added blocks
THEOREM FreeListComplete == ASSUME handle_offset = 0 PROVE BucketSpec => []FreeListWhole
<1>1. IInv => FreeListWhole
  BY FreeLinkedIsList DEF IInv, UsedCounted, UnusedItems, FreeListWhole
<1> QED BY <1>1, Invariance, PTL

\* the destructor destroys every item that is still in use: the capacities that
\* the buckets keep cover all the memory, in full buckets and in those cut short
\* (how often it destroys one is not claimed)
THEOREM AllDestroyed == ASSUME handle_offset = 0 PROVE BucketSpec => []ItemsDestroyed
<1>1. BucketInit => Covered /\ DestroyedAll
  BY DestroyedInit
<1>2. IInv /\ IInv' /\ Covered /\ DestroyedAll /\ [BucketNext]_vars
        => (Covered /\ DestroyedAll)'
  BY DestroyedStep DEF IInv, UsedCounted
<1>3. DestroyedAll => ItemsDestroyed
  BY DEF DestroyedAll, ItemsDestroyed
<1> QED BY <1>1, <1>2, <1>3, Invariance, PTL DEF BucketSpec

\* after growing an insertion finds a free item, whose number has memory, for every
\* sequence of calls; that nothing uses this item is FreeListComplete
THEOREM InsertionsInRange == ASSUME handle_offset = 0 PROVE BucketSpec => []InsertInRange
<1>1. IInv => InsertInRange
  <2> SUFFICES ASSUME IInv, pc = "insert"
               PROVE  first_free # NONE /\ to_index(first_free) \in Memory
    BY DEF InsertInRange
  <2>1. BucketTypes /\ FreeLinked(UnusedItems) /\ capacity > size
    BY DEF IInv, UsedCounted
  <2>2. first_free \in UnusedItems
    BY <2>1, FirstFreeIsFree
  <2>3. first_free \in Memory /\ to_index(first_free) = first_free
    BY <2>1, <2>2, NoOffset DEF UnusedItems, BucketTypes
  <2>4. first_free # NONE
    BY <2>1, <2>3, BucketsAssumption DEF BucketTypes, NONE
  <2> QED BY <2>3, <2>4
<1> QED BY <1>1, Invariance, PTL

\* a handle names the item it was returned for until it is removed
THEOREM HandlesStayStable == ASSUME handle_offset = 0 PROVE BucketSpec => IsHandleStore
<1>1. BucketInit => HS!Init
  <2> SUFFICES ASSUME BucketInit PROVE HS!Init
    OBVIOUS
  <2>1. used = {} /\ pc = "idle"
    BY DEF BucketInit, Init
  <2>2. Store = HS!Empty
    BY <2>1 DEF Store, LiveHandles, HS!Empty
  <2> QED BY <2>1, <2>2 DEF HS!Init
<1> QED BY <1>1, StepInv, Invariance, PTL DEF BucketSpec, IsHandleStore, HS!Spec
=============================================================================
