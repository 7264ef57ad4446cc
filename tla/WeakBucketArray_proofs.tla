------------------------ MODULE WeakBucketArray_proofs ------------------------
(****************************************************************************)
(* Weak_Bucket_Array for every size of items, buckets, blocks and           *)
(* generations, every failing allocation and every sequence of calls, with  *)
(* handles that have no offset.                                             *)
(****************************************************************************)
EXTENDS WeakBucketArray, Buckets_proofs

\* every item of a bucket has a generation; the handles that were issued have the
\* generation of an item in use
GenerationTypes ==
  /\ Items = 0 .. buckets_size * BUCKET_SIZE - 1
  /\ generation \in [Items -> Generation]
  /\ \A h \in issued : h.index \in Index /\ h.generation \in USED_BIT .. 2 * USED_BIT - 1

\* as many items are in use as are counted, and the others are in the free list
UsedCounted ==
  /\ UsedItems \subseteq Memory
  /\ IsFiniteSet(UsedItems) /\ Cardinality(UsedItems) = size
  /\ FreeLinked(UnusedItems)

IInv ==
  /\ BucketTypes /\ GenerationTypes /\ UsedCounted
  /\ pc = "insert" => capacity > size

LEMMA GenerationRange ==
  ASSUME NEW g \in Generation
  PROVE  /\ UsedGeneration(g) \in USED_BIT .. 2 * USED_BIT - 1
         /\ UnusedGeneration(g) \in 0 .. USED_BIT - 1
<1>1. USED_BIT \in Nat \ {0} /\ 2 * USED_BIT \in Nat \ {0}
  BY WeakAssumption
<1> DEFINE n == (g + 1) % (2 * USED_BIT)
<1>2. n \in 0 .. 2 * USED_BIT - 1
  BY <1>1 DEF Generation
<1> HIDE DEF n
<1>3. n % USED_BIT \in 0 .. USED_BIT - 1
  BY <1>1, <1>2
<1> QED BY <1>1, <1>2, <1>3 DEF UsedGeneration, UnusedGeneration, n

LEMMA InitInv == WeakInit => IInv
<1> SUFFICES ASSUME WeakInit PROVE IInv
  OBVIOUS
<1>1. /\ buckets_size = 0 /\ buckets_capacity = 0 /\ size = 0 /\ capacity = 0
      /\ first_free = NONE /\ data = <<>> /\ allocations = <<>> /\ pc = "idle"
      /\ inserting = CHOOSE x \in Item : TRUE
      /\ generation = <<>> /\ issued = {}
  BY DEF WeakInit, Init
<1>2. Memory = {} /\ UnusedItems = {} /\ DOMAIN allocations = {} /\ Items = {}
  BY <1>1 DEF Memory, UnusedItems, Items
<1>3. inserting \in Item /\ NONE \in 0 .. Word - 1
  BY <1>1, BucketsAssumption DEF NONE
<1>4. BucketTypes
  BY <1>1, <1>2, <1>3 DEF BucketTypes
<1>5. capacity - size = 0 /\ buckets_size * BUCKET_SIZE = 0
  BY <1>1, BucketsAssumption
<1>6. FreeLinked(UnusedItems)
  BY <1>1, <1>2, <1>5, LinkedNothing DEF FreeLinked
<1>7. UsedItems = {} /\ IsFiniteSet(UsedItems) /\ Cardinality(UsedItems) = size
  BY <1>1, <1>2, FS_EmptySet DEF UsedItems
<1>8. GenerationTypes
  BY <1>1, <1>2, <1>5 DEF GenerationTypes
<1> QED BY <1>1, <1>4, <1>6, <1>7, <1>8 DEF IInv, UsedCounted

\* the live handle of item i
HandleOf(i) == [index |-> i, generation |-> generation[i]]

\* the handles and their items
LEMMA StoreIs ==
  ASSUME handle_offset = 0, UsedItems \subseteq 0 .. Word - 1, pc # "gone"
  PROVE  Store = [h \in {HandleOf(i) : i \in UsedItems} |-> data[h.index]]
<1>1. \A i \in UsedItems : to_index(i) = i /\ (i + handle_offset) % Word = i
  BY NoOffset
<1>2. LiveHandles = {HandleOf(i) : i \in UsedItems}
  BY <1>1 DEF LiveHandles, HandleOf
<1>3. \A h \in LiveHandles : to_index(h.index) = h.index
  BY <1>1, <1>2 DEF HandleOf
<1> QED BY <1>2, <1>3 DEF Store

\* the same of the next state
LEMMA NextStoreIs ==
  ASSUME handle_offset = 0, UsedItems' \subseteq 0 .. Word - 1, pc' # "gone"
  PROVE  Store' = [h \in {HandleOf(i)' : i \in UsedItems'} |-> data'[h.index]]
<1>1. \A i \in UsedItems' : to_index(i) = i /\ (i + handle_offset) % Word = i
  BY NoOffset
<1>2. LiveHandles' = {HandleOf(i)' : i \in UsedItems'}
  BY <1>1 DEF LiveHandles, HandleOf
<1>3. \A h \in LiveHandles' : to_index(h.index) = h.index
  BY <1>1, <1>2 DEF HandleOf
<1> QED BY <1>2, <1>3 DEF Store, to_index

\* the handles that are found are those in the first buckets
LEMMA FoundIs ==
  ASSUME handle_offset = 0, UsedItems \subseteq 0 .. Word - 1, pc # "gone"
  PROVE  FoundHandles = {HandleOf(i) : i \in {j \in UsedItems : Bucket(j) <= size}}
<1>1. DOMAIN Store = {HandleOf(i) : i \in UsedItems}
  BY StoreIs
<1>2. ASSUME NEW i \in UsedItems PROVE Found(HandleOf(i)) <=> Bucket(i) <= size
  <2>1. to_index(HandleOf(i).index) = i /\ HandleOf(i).generation = generation[i]
    BY NoOffset DEF HandleOf
  <2> QED BY <2>1 DEF Found, UsedItems
<1> QED BY <1>1, <1>2 DEF FoundHandles

\* the same of the next state
LEMMA NextFoundIs ==
  ASSUME handle_offset = 0, UsedItems' \subseteq 0 .. Word - 1, pc' # "gone"
  PROVE  FoundHandles' = {HandleOf(i)' : i \in {j \in UsedItems' : Bucket(j) <= size'}}
<1>1. DOMAIN Store' = {HandleOf(i)' : i \in UsedItems'}
  BY NextStoreIs
<1>2. ASSUME NEW i \in UsedItems' PROVE Found(HandleOf(i))' <=> Bucket(i) <= size'
  <2>1. to_index(HandleOf(i)'.index) = i /\ HandleOf(i)'.generation = generation'[i]
    BY NoOffset DEF HandleOf
  <2> QED BY <2>1 DEF Found, UsedItems, to_index, Bucket
<1> QED BY <1>1, <1>2 DEF FoundHandles

\* buckets that were added are empty, and the others keep their generations
LEMMA NewBucketsUnused ==
  ASSUME BucketTypes, GenerationTypes, UsedItems \subseteq Memory,
         buckets_size' \in Nat, buckets_size <= buckets_size',
         NewBucketsEmpty, issued' = issued,
         Memory \subseteq Memory', Memory' \subseteq 0 .. buckets_size' * BUCKET_SIZE - 1
  PROVE  /\ GenerationTypes' /\ UsedItems' = UsedItems
         /\ UnusedItems' = UnusedItems \cup (Memory' \ Memory)
         /\ \A i \in Items : i \in Items' /\ generation'[i] = generation[i]
<1> DEFINE all == 0 .. buckets_size' * BUCKET_SIZE - 1
<1>1. USED_BIT \in Nat \ {0} /\ BUCKET_SIZE \in Nat \ {0}
  BY WeakAssumption, BucketsAssumption
<1>2. generation' = [i \in all |-> IF i \in Items THEN generation[i] ELSE 0]
  BY DEF NewBucketsEmpty
<1>3. Items' = all
  BY <1>2 DEF Items
<1>4. Items \subseteq all
  <2>1. buckets_size * BUCKET_SIZE \in Nat /\ buckets_size' * BUCKET_SIZE \in Nat
    BY <1>1, Product DEF BucketTypes
  <2>2. buckets_size * BUCKET_SIZE <= buckets_size' * BUCKET_SIZE
    BY <1>1 DEF BucketTypes
  <2> QED BY <2>1, <2>2 DEF GenerationTypes
<1> HIDE DEF all
<1>5. \A i \in all : IF i \in Items THEN generation'[i] = generation[i] ELSE generation'[i] = 0
  BY <1>2
<1>6. \A i \in all : generation'[i] \in Generation
  BY <1>1, <1>5 DEF Generation, GenerationTypes
<1>7. generation' \in [Items' -> Generation]
  <2>1. generation' = [i \in all |-> generation'[i]]
    BY <1>2
  <2> QED BY <2>1, <1>3, <1>6
<1>8. GenerationTypes'
  BY <1>3, <1>7 DEF GenerationTypes, all, Index
<1>9. \A i \in all : Used(i)' <=> i \in Items /\ Used(i)
  BY <1>1, <1>5 DEF Used
<1>10. UsedItems' = UsedItems
  BY <1>3, <1>4, <1>9 DEF UsedItems
<1>11. Memory \subseteq Items
  BY DEF BucketTypes, GenerationTypes
<1>12. UnusedItems' = UnusedItems \cup (Memory' \ Memory)
  <2>1. Memory' \subseteq all
    BY DEF all
  <2>2. \A i \in Memory : Used(i)' <=> Used(i)
    BY <2>1, <1>9, <1>11
  <2>3. \A i \in Memory' \ Memory : ~Used(i)'
    BY <2>1, <1>9 DEF UsedItems
  <2> QED BY <2>2, <2>3 DEF UnusedItems
<1> QED BY <1>3, <1>4, <1>5, <1>8, <1>10, <1>12

\* a step that only adds memory keeps the invariant and what the handles name
LEMMA GrowthStep ==
  ASSUME handle_offset = 0, BucketTypes, GenerationTypes, UsedCounted, BucketTypes',
         size' = size, buckets_size' \in Nat, buckets_size <= buckets_size',
         NewBucketsEmpty, issued' = issued,
         Memory \subseteq Memory', \A i \in Memory : data'[i] = data[i],
         IsLinked(first_free', data', NONE, UnusedItems \cup (Memory' \ Memory), capacity' - size'),
         pc # "gone", pc' # "gone", pc' = "insert" => capacity' > size'
  PROVE  IInv' /\ UNCHANGED <<Store, pc # "gone", FoundHandles>>
<1>1. UsedItems \subseteq Memory /\ Memory' \subseteq 0 .. buckets_size' * BUCKET_SIZE - 1
  BY DEF UsedCounted, BucketTypes
<1>2. /\ GenerationTypes' /\ UsedItems' = UsedItems
      /\ UnusedItems' = UnusedItems \cup (Memory' \ Memory)
      /\ \A i \in Items : i \in Items' /\ generation'[i] = generation[i]
  BY <1>1, NewBucketsUnused
<1>3. UsedCounted'
  BY <1>1, <1>2 DEF UsedCounted, FreeLinked, NONE
<1>4. IInv'
  BY <1>2, <1>3 DEF IInv
<1>5. UsedItems \subseteq 0 .. Word - 1
  BY <1>1, BucketsAssumption DEF BucketTypes
<1>6. \A i \in UsedItems : HandleOf(i)' = HandleOf(i) /\ data'[i] = data[i]
  BY <1>1, <1>2 DEF HandleOf, UsedItems
<1>7. /\ Store = [h \in {HandleOf(i) : i \in UsedItems} |-> data[h.index]]
      /\ Store' = [h \in {HandleOf(i)' : i \in UsedItems'} |-> data'[h.index]]
  BY <1>2, <1>5, StoreIs, NextStoreIs
<1>8. {HandleOf(i)' : i \in UsedItems'} = {HandleOf(i) : i \in UsedItems}
  BY <1>2, <1>6
<1>9. \A h \in {HandleOf(i) : i \in UsedItems} : data'[h.index] = data[h.index]
  <2> TAKE h \in {HandleOf(i) : i \in UsedItems}
  <2>1. PICK i \in UsedItems : h = HandleOf(i)
    OBVIOUS
  <2>2. h.index = i
    BY <2>1 DEF HandleOf
  <2>3. data'[i] = data[i]
    BY <1>6
  <2> QED BY <2>2, <2>3
<1>10. Store' = Store
  BY <1>7, <1>8, <1>9
<1>11. FoundHandles' = FoundHandles
  <2>1. /\ FoundHandles = {HandleOf(i) : i \in {j \in UsedItems : Bucket(j) <= size}}
        /\ FoundHandles' = {HandleOf(i)' : i \in {j \in UsedItems' : Bucket(j) <= size'}}
    BY <1>2, <1>5, FoundIs, NextFoundIs
  <2> QED BY <2>1, <1>2, <1>6
<1> QED BY <1>4, <1>10, <1>11

\* the item that was inserted is in use from then on, with a handle no other has
LEMMA InsertedUsed ==
  ASSUME BucketTypes, GenerationTypes, UsedCounted, NEW i \in UnusedItems,
         generation' = [generation EXCEPT ![i] = UsedGeneration(@)],
         Memory' = Memory, UNCHANGED buckets_size, size' = size + 1,
         issued' = issued \cup {[index |-> i, generation |-> generation'[i], use |-> uses'[i]]},
         IsLinked(first_free', data', NONE, UnusedItems \ {i}, capacity' - size')
  PROVE  /\ GenerationTypes' /\ UsedCounted'
         /\ UsedItems' = UsedItems \cup {i} /\ i \notin UsedItems
         /\ generation'[i] \in Generation
         /\ \A j \in UsedItems : generation'[j] = generation[j]
<1>1. i \in Items /\ i \in Memory /\ ~Used(i) /\ Items' = Items /\ i \in Index
  BY BucketsAssumption, SMTT(60) DEF UnusedItems, BucketTypes, GenerationTypes, Items, Index
<1>2. USED_BIT \in Nat \ {0}
  BY WeakAssumption
<1>3. generation'[i] = UsedGeneration(generation[i])
  BY <1>1 DEF GenerationTypes
<1>4. generation'[i] \in USED_BIT .. 2 * USED_BIT - 1
  BY <1>1, <1>3, GenerationRange DEF GenerationTypes
<1>5. \A j \in Items \ {i} : generation'[j] = generation[j]
  BY <1>1 DEF GenerationTypes
<1>6. generation'[i] \in Generation
  BY <1>2, <1>4 DEF Generation
<1>7. generation' \in [Items' -> Generation]
  BY <1>1, <1>5, <1>6 DEF GenerationTypes
<1>8. \A h \in issued' : h.index \in Index /\ h.generation \in USED_BIT .. 2 * USED_BIT - 1
  BY <1>1, <1>4 DEF GenerationTypes
<1>9. GenerationTypes'
  BY <1>1, <1>7, <1>8 DEF GenerationTypes
<1>10. \A j \in Items : Used(j)' <=> j = i \/ Used(j)
  BY <1>2, <1>4, <1>5 DEF Used
<1>11. UsedItems' = UsedItems \cup {i} /\ i \notin UsedItems
  BY <1>1, <1>10 DEF UsedItems
<1>12. UnusedItems' = UnusedItems \ {i}
  <2>1. Memory \subseteq Items
    BY DEF BucketTypes, GenerationTypes
  <2> QED BY <2>1, <1>1, <1>10 DEF UnusedItems
<1>13. IsFiniteSet(UsedItems') /\ Cardinality(UsedItems') = size'
  BY <1>11, FS_AddElement DEF UsedCounted
<1>14. UsedCounted'
  BY <1>1, <1>11, <1>12, <1>13 DEF UsedCounted, FreeLinked, NONE
<1>15. \A j \in UsedItems : generation'[j] = generation[j]
  BY <1>5, <1>11 DEF UsedItems
<1> QED BY <1>6, <1>9, <1>11, <1>14, <1>15

\* the item that was removed is unused from then on
LEMMA RemovedUnused ==
  ASSUME BucketTypes, GenerationTypes, UsedCounted, NEW i \in UsedItems,
         generation' = [generation EXCEPT ![i] = UnusedGeneration(@)],
         Memory' = Memory, UNCHANGED <<buckets_size, issued>>, size' = size - 1,
         IsLinked(first_free', data', NONE, UnusedItems \cup {i}, capacity' - size')
  PROVE  /\ GenerationTypes' /\ UsedCounted'
         /\ UsedItems' = UsedItems \ {i}
         /\ \A j \in UsedItems \ {i} : generation'[j] = generation[j]
<1>1. i \in Items /\ i \in Memory /\ Items' = Items
  BY DEF UsedItems, UsedCounted, GenerationTypes, Items
<1>2. USED_BIT \in Nat \ {0}
  BY WeakAssumption
<1>3. generation'[i] = UnusedGeneration(generation[i])
  BY <1>1 DEF GenerationTypes
<1>4. generation'[i] \in 0 .. USED_BIT - 1
  BY <1>1, <1>3, GenerationRange DEF GenerationTypes
<1>5. \A j \in Items \ {i} : generation'[j] = generation[j]
  BY <1>1 DEF GenerationTypes
<1>6. generation'[i] \in Generation
  BY <1>2, <1>4 DEF Generation
<1>7. generation' \in [Items' -> Generation]
  BY <1>1, <1>5, <1>6 DEF GenerationTypes
<1>8. GenerationTypes'
  BY <1>1, <1>7 DEF GenerationTypes
<1>9. \A j \in Items : Used(j)' <=> j # i /\ Used(j)
  BY <1>2, <1>4, <1>5 DEF Used
<1>10. UsedItems' = UsedItems \ {i}
  BY <1>1, <1>9 DEF UsedItems
<1>11. UnusedItems' = UnusedItems \cup {i}
  <2>1. Memory \subseteq Items
    BY DEF BucketTypes, GenerationTypes
  <2> QED BY <2>1, <1>1, <1>9 DEF UnusedItems
<1>12. IsFiniteSet(UsedItems') /\ Cardinality(UsedItems') = size'
  BY <1>10, FS_RemoveElement DEF UsedCounted
<1>13. UsedCounted'
  BY <1>10, <1>11, <1>12 DEF UsedCounted, FreeLinked, NONE
<1>14. \A j \in UsedItems \ {i} : generation'[j] = generation[j]
  BY <1>5 DEF UsedItems
<1> QED BY <1>8, <1>10, <1>13, <1>14

\* a handle that is found is the handle of an item in use
LEMMA FoundUsed ==
  ASSUME handle_offset = 0, GenerationTypes, NEW h \in issued, Found(h)
  PROVE  /\ to_index(h.index) = h.index /\ h.index \in UsedItems
         /\ HandleOf(h.index) = [index |-> h.index, generation |-> h.generation]
<1>1. h.index \in Index /\ h.generation \in USED_BIT .. 2 * USED_BIT - 1
  BY DEF GenerationTypes
<1>2. to_index(h.index) = h.index
  BY <1>1, NoOffset DEF Index
<1>3. h.index \in Items /\ generation[h.index] = h.generation
  BY <1>2 DEF Found
<1>4. Used(h.index)
  BY <1>1, <1>3, WeakAssumption DEF Used
<1> QED BY <1>2, <1>3, <1>4 DEF UsedItems, HandleOf

\* an insertion and a removal, as steps of the store
LEMMA StoreInserted ==
  ASSUME handle_offset = 0, UsedItems \subseteq Index, pc # "gone", pc' # "gone",
         NEW i \in Index, i \notin UsedItems, UsedItems' = UsedItems \cup {i},
         \A j \in UsedItems : generation'[j] = generation[j] /\ data'[j] = data[j],
         generation'[i] \in Generation, data'[i] \in Item,
         size \in Nat, size' = size + 1, UsedItems \subseteq Nat
  PROVE  LS!InsertItem([index |-> i, generation |-> generation'[i]], data'[i])
<1> DEFINE old == {HandleOf(j) : j \in UsedItems}
           new == HandleOf(i)'
<1>1. /\ Store = [h \in old |-> data[h.index]]
      /\ Store' = [h \in {HandleOf(j)' : j \in UsedItems'} |-> data'[h.index]]
  BY StoreIs, NextStoreIs DEF Index
<1>2. {HandleOf(j)' : j \in UsedItems'} = old \cup {new}
  <2>1. \A j \in UsedItems : HandleOf(j)' = HandleOf(j)
    BY DEF HandleOf
  <2> QED BY <2>1
<1>3. new.index = i /\ new \in Handles
  BY DEF HandleOf, Handles
<1>4. \A h \in old : h.index \in UsedItems
  BY DEF HandleOf
<1>5. new \notin old
  BY <1>3, <1>4
<1>6. \A h \in old : data'[h.index] = data[h.index]
  BY <1>4
<1> HIDE DEF old, new
<1>7. /\ new \notin DOMAIN Store
      /\ Store' = [g \in DOMAIN Store \cup {new} |-> IF g = new THEN data'[i] ELSE Store[g]]
  BY <1>1, <1>2, <1>3, <1>5, <1>6
<1>8. LS!Insert(new, data'[i])
  BY <1>7 DEF LS!Insert
<1>9. FoundHandles \subseteq FoundHandles' /\ FoundHandles' \subseteq DOMAIN Store'
  <2>1. /\ FoundHandles = {HandleOf(j) : j \in {k \in UsedItems : Bucket(k) <= size}}
        /\ FoundHandles' = {HandleOf(j)' : j \in {k \in UsedItems' : Bucket(k) <= size'}}
    BY FoundIs, NextFoundIs DEF Index
  <2>2. \A j \in UsedItems : HandleOf(j)' = HandleOf(j)
    BY DEF HandleOf
  <2>3. \A j \in UsedItems : Bucket(j) <= size => Bucket(j) <= size'
    BY BucketsAssumption DEF Bucket
  <2>4. FoundHandles \subseteq FoundHandles'
    BY <2>1, <2>2, <2>3
  <2>5. FoundHandles' \subseteq DOMAIN Store'
    BY DEF FoundHandles
  <2> QED BY <2>4, <2>5
<1>10. new = [index |-> i, generation |-> generation'[i]]
  BY DEF new, HandleOf
<1> QED BY <1>8, <1>9, <1>10 DEF LS!InsertItem

LEMMA StoreRemoved ==
  ASSUME handle_offset = 0, UsedItems \subseteq Index, pc # "gone", pc' # "gone",
         NEW i \in UsedItems, UsedItems' = UsedItems \ {i}, generation[i] \in Generation,
         \A j \in UsedItems \ {i} : generation'[j] = generation[j] /\ data'[j] = data[j],
         size \in Nat, size' = size - 1, UsedItems \subseteq Nat, Bucket(i) <= size
  PROVE  LS!RemoveFound(HandleOf(i))
<1> DEFINE old == {HandleOf(j) : j \in UsedItems}
           gone == HandleOf(i)
<1>1. /\ Store = [h \in old |-> data[h.index]]
      /\ Store' = [h \in {HandleOf(j)' : j \in UsedItems'} |-> data'[h.index]]
  BY StoreIs, NextStoreIs DEF Index
<1>2. \A j \in UsedItems : HandleOf(j) = gone <=> j = i
  BY DEF HandleOf
<1>3. {HandleOf(j)' : j \in UsedItems'} = old \ {gone}
  <2>1. \A j \in UsedItems' : HandleOf(j)' = HandleOf(j)
    BY DEF HandleOf
  <2> HIDE DEF gone
  <2> QED BY <2>1, <1>2
<1>4. gone \in old /\ gone \in Handles
  BY DEF HandleOf, Handles
<1>5. \A h \in old \ {gone} : data'[h.index] = data[h.index]
  <2> TAKE h \in old \ {gone}
  <2>1. PICK j \in UsedItems : h = HandleOf(j)
    OBVIOUS
  <2>2. j # i /\ h.index = j
    BY <2>1 DEF HandleOf
  <2> QED BY <2>2
<1> HIDE DEF old, gone
<1>6. /\ gone \in DOMAIN Store
      /\ Store' = [g \in DOMAIN Store \ {gone} |-> Store[g]]
  BY <1>1, <1>3, <1>4, <1>5
<1>7. LS!Remove(gone)
  BY <1>6 DEF LS!Remove
<1>8. gone \in FoundHandles /\ FoundHandles' \subseteq FoundHandles \ {gone}
  <2>1. /\ FoundHandles = {HandleOf(j) : j \in {k \in UsedItems : Bucket(k) <= size}}
        /\ FoundHandles' = {HandleOf(j)' : j \in {k \in UsedItems' : Bucket(k) <= size'}}
    BY FoundIs, NextFoundIs DEF Index
  <2>2. gone \in FoundHandles
    BY <2>1 DEF gone
  <2>3. \A j \in UsedItems' : HandleOf(j)' = HandleOf(j) /\ HandleOf(j) # gone
    BY <1>2 DEF HandleOf
  <2>4. \A j \in UsedItems : Bucket(j) <= size' => Bucket(j) <= size
    BY BucketsAssumption DEF Bucket
  <2> QED BY <2>1, <2>2, <2>3, <2>4
<1> QED BY <1>7, <1>8 DEF LS!RemoveFound, gone

LEMMA StepInv ==
  ASSUME handle_offset = 0, IInv, [WeakNext]_vars
  PROVE  IInv' /\ StoreAsCalled /\ [LS!LossyNext]_<<Store, pc # "gone", FoundHandles>>
<1>1. /\ BucketTypes /\ GenerationTypes /\ UsedCounted
      /\ FreeLinked(UnusedItems) /\ UnusedItems \subseteq Memory
  BY DEF IInv, UsedCounted, UnusedItems
<1>2. UsedItems \subseteq Index /\ UsedItems \subseteq Memory
  BY <1>1, BucketsAssumption DEF UsedCounted, BucketTypes, Index
<1> DEFINE unused2 == UnusedItems \cup (Memory' \ Memory)
           inserted == LS!InsertItem([index |-> first_free,
                                      generation |-> generation'[to_index(first_free)]],
                                     inserting)
           removed(h) == LS!RemoveFound([index |-> h.index, generation |-> h.generation])
<1>3. ASSUME NEW n \in ReserveSizes, Reserve(n) PROVE IInv' /\ UNCHANGED <<Store, pc # "gone", FoundHandles>>
  <2>1. n \in Nat /\ ReserveItems(n) /\ NewBucketsEmpty /\ issued' = issued
    BY <1>3, BucketsAssumption DEF Reserve
  <2> HIDE DEF unused2
  <2>3. unused2 = UnusedItems \cup (Memory' \ Memory)
    BY DEF unused2
  <2>4. /\ BucketTypes' /\ pc = "idle" /\ pc' \in {"idle", "panic"} /\ size' = size
        /\ Memory \subseteq Memory' /\ \A i \in Memory : data'[i] = data[i]
        /\ buckets_size' \in Nat /\ buckets_size <= buckets_size'
        /\ IsLinked(first_free', data', NONE, unused2, capacity' - size')
    BY <1>1, <2>1, <2>3, ReserveLinked
  <2> QED BY <1>1, <2>1, <2>3, <2>4, GrowthStep
<1>4. ASSUME NEW x \in Item, BeginInsert(x) PROVE IInv' /\ UNCHANGED <<Store, pc # "gone", FoundHandles>>
  <2>1. BeginInsertion(x) /\ NewBucketsEmpty /\ issued' = issued
    BY <1>4 DEF BeginInsert
  <2> HIDE DEF unused2
  <2>3. unused2 = UnusedItems \cup (Memory' \ Memory)
    BY DEF unused2
  <2>4. /\ BucketTypes' /\ pc = "idle" /\ pc' \in {"insert", "panic"} /\ size' = size
        /\ Memory \subseteq Memory' /\ \A i \in Memory : data'[i] = data[i]
        /\ pc' = "insert" => capacity' > size'
        /\ buckets_size' \in Nat /\ buckets_size <= buckets_size'
        /\ IsLinked(first_free', data', NONE, unused2, capacity' - size')
    BY <1>1, <2>1, <2>3, BeginInsertionLinked
  <2> QED BY <1>1, <2>1, <2>3, <2>4, GrowthStep
<1>5. ASSUME FinishInsert PROVE IInv' /\ inserted /\ LS!LossyNext
  <2> DEFINE i == first_free
  <2>1. pc = "insert" /\ TakeFirstFree(to_index(first_free)) /\ capacity > size
    BY <1>5 DEF FinishInsert, IInv
  <2>2. /\ BucketTypes' /\ i \in UnusedItems /\ to_index(first_free) = i
        /\ Memory' = Memory /\ data'[i] = inserting
        /\ \A j \in Memory \ {i} : data'[j] = data[j]
        /\ size' = size + 1 /\ pc' = "idle"
        /\ IsLinked(first_free', data', NONE, UnusedItems \ {i}, capacity' - size')
    BY <1>1, <2>1, TakeLinked
  <2>3. /\ generation' = [generation EXCEPT ![i] = UsedGeneration(@)]
        /\ issued' = issued \cup {[index |-> i, generation |-> generation'[i], use |-> uses'[i]]}
        /\ buckets_size' = buckets_size
    BY <1>5, <2>1, <2>2 DEF FinishInsert, TakeFirstFree, layout
  <2>4. i \in Index /\ inserting \in Item
    BY <1>1 DEF BucketTypes, Index
  <2> HIDE DEF i
  <2>5. /\ GenerationTypes' /\ UsedCounted'
        /\ UsedItems' = UsedItems \cup {i} /\ i \notin UsedItems
        /\ generation'[i] \in Generation
        /\ \A j \in UsedItems : generation'[j] = generation[j]
    BY <1>1, <2>2, <2>3, InsertedUsed
  <2>6. IInv'
    BY <2>2, <2>5 DEF IInv
  <2>7. \A j \in UsedItems : generation'[j] = generation[j] /\ data'[j] = data[j]
    BY <1>2, <2>2, <2>5
  <2>8. size \in Nat /\ UsedItems \subseteq Nat
    BY <1>1, <1>2 DEF BucketTypes
  <2>9. LS!InsertItem([index |-> i, generation |-> generation'[i]], inserting)
    BY <1>2, <2>1, <2>2, <2>4, <2>5, <2>7, <2>8, StoreInserted
  <2>10. inserted
    BY <2>2, <2>9 DEF i
  <2>11. [index |-> i, generation |-> generation'[i]] \in Handles
    BY <2>4, <2>5 DEF Handles
  <2> QED BY <2>4, <2>6, <2>9, <2>10, <2>11 DEF LS!LossyNext
<1>6. ASSUME NEW h \in issued, Remove(h) PROVE IInv' /\ removed(h) /\ LS!LossyNext
  <2> DEFINE i == h.index
  <2>1. pc = "idle" /\ Found(h) /\ GiveBack(to_index(h.index), h.index) /\ issued' = issued
    BY <1>6 DEF Remove, history
  <2>2. /\ to_index(h.index) = i /\ i \in UsedItems
        /\ HandleOf(i) = [index |-> h.index, generation |-> h.generation]
        /\ Bucket(i) <= size
    BY <1>1, <2>1, FoundUsed DEF Found
  <2>3. /\ GiveBack(i, i) /\ buckets_size' = buckets_size
        /\ generation' = [generation EXCEPT ![i] = UnusedGeneration(@)]
    BY <1>6, <2>1, <2>2 DEF Remove, GiveBack, layout
  <2>4. generation[i] \in Generation
    BY <1>1, <2>2 DEF GenerationTypes, UsedItems
  <2> HIDE DEF i
  <2>5. i \in Memory /\ i \notin UnusedItems
    BY <1>2, <2>2 DEF UsedItems, UnusedItems
  <2>6. size > 0
    <3>1. IsFiniteSet(UsedItems \ {i}) /\ Cardinality(UsedItems \ {i}) = Cardinality(UsedItems) - 1
      BY <1>1, <2>2, FS_RemoveElement DEF UsedCounted
    <3>2. Cardinality(UsedItems \ {i}) \in Nat
      BY <3>1, FS_CardinalityType
    <3> QED BY <3>1, <3>2, <1>1 DEF UsedCounted, BucketTypes
  <2>7. /\ BucketTypes' /\ Memory' = Memory /\ \A j \in Memory \ {i} : data'[j] = data[j]
        /\ size' = size - 1 /\ pc' = pc
        /\ IsLinked(first_free', data', NONE, UnusedItems \cup {i}, capacity' - size')
    BY <1>1, <2>3, <2>5, <2>6, GiveBackLinked
  <2>8. /\ GenerationTypes' /\ UsedCounted' /\ UsedItems' = UsedItems \ {i}
        /\ \A j \in UsedItems \ {i} : generation'[j] = generation[j]
    BY <1>1, <2>1, <2>2, <2>3, <2>7, RemovedUnused
  <2>9. IInv'
    BY <2>1, <2>7, <2>8 DEF IInv
  <2>10. \A j \in UsedItems \ {i} : generation'[j] = generation[j] /\ data'[j] = data[j]
    BY <1>2, <2>7, <2>8
  <2>11. size \in Nat /\ UsedItems \subseteq Nat
    BY <1>1, <1>2 DEF BucketTypes
  <2>12. LS!RemoveFound(HandleOf(i))
    BY <1>2, <2>1, <2>2, <2>4, <2>7, <2>8, <2>10, <2>11, StoreRemoved
  <2>13. HandleOf(i) \in Handles
    BY <1>2, <2>2, <2>4 DEF HandleOf, Handles
  <2> QED BY <2>2, <2>9, <2>12, <2>13 DEF LS!LossyNext
<1>7. ASSUME Destroy PROVE IInv' /\ LS!LossyNext
  <2> DEFINE lost == {b \in DOMAIN allocations : FreedBytes(b) # allocations[b]}
  <2>1. /\ pc = "idle" /\ pc' = "gone"
        /\ allocations' = [b \in lost |-> allocations[b]]
        /\ UNCHANGED <<buckets_size, buckets_capacity, size, capacity, first_free,
                       data, inserting, generation, issued>>
    BY <1>7 DEF Destroy, history
  <2>2. lost \subseteq DOMAIN allocations
    OBVIOUS
  <2> HIDE DEF lost
  <2>3. /\ DOMAIN allocations' \subseteq 0 .. buckets_size' - 1
        /\ allocations' \in [DOMAIN allocations' -> Nat]
    BY <1>1, <2>1, <2>2 DEF BucketTypes
  <2>4. /\ Memory' = Memory /\ UnusedItems' = UnusedItems /\ Items' = Items
        /\ UsedItems' = UsedItems
    BY <2>1 DEF Memory, UnusedItems, UsedItems, Used, Items
  <2>5. BucketTypes'
    BY <1>1, <2>1, <2>3, <2>4 DEF BucketTypes
  <2>6. GenerationTypes'
    BY <1>1, <2>1, <2>4 DEF GenerationTypes
  <2>7. UsedCounted'
    BY <1>1, <2>1, <2>4 DEF UsedCounted, FreeLinked, NONE
  <2>8. Store' = LS!Empty /\ FoundHandles' = {}
    BY <2>1 DEF Store, FoundHandles, LS!Empty
  <2> QED BY <2>1, <2>5, <2>6, <2>7, <2>8 DEF IInv, LS!LossyNext, LS!DestroyAll, LS!Destroy
<1>8. ASSUME UNCHANGED vars PROVE IInv' /\ UNCHANGED <<Store, pc # "gone", FoundHandles>>
  <2>1. UNCHANGED <<buckets_size, buckets_capacity, size, capacity, first_free, data,
                    allocations, pc, inserting, generation, issued>>
    BY <1>8 DEF vars, layout, history
  <2>2. /\ Memory' = Memory /\ UnusedItems' = UnusedItems /\ Items' = Items
        /\ UsedItems' = UsedItems
    BY <2>1 DEF Memory, UnusedItems, UsedItems, Used, Items
  <2>3. BucketTypes' /\ GenerationTypes' /\ UsedCounted'
    BY <1>1, <2>1, <2>2 DEF BucketTypes, GenerationTypes, UsedCounted, FreeLinked, NONE
  <2>4. IInv'
    BY <2>1, <2>3 DEF IInv
  <2>5. UNCHANGED <<Store, pc # "gone", FoundHandles>>
    BY <2>1, <2>2 DEF Store, LiveHandles, FoundHandles, Found, Bucket, to_index
  <2> QED BY <2>4, <2>5
<1>9. /\ FinishInsert => inserted
      /\ \A h \in issued : Remove(h) => removed(h)
  BY <1>5, <1>6
<1>10. \/ UNCHANGED <<Store, pc # "gone", FoundHandles>>
       \/ FinishInsert \/ Destroy
       \/ \E h \in issued : Remove(h)
  BY <1>3, <1>4, <1>8 DEF WeakNext
<1>11. StoreAsCalled
  BY <1>9, <1>10 DEF StoreAsCalled
<1>12. IInv' /\ [LS!LossyNext]_<<Store, pc # "gone", FoundHandles>>
  BY <1>3, <1>4, <1>5, <1>6, <1>7, <1>8 DEF WeakNext
<1> QED BY <1>11, <1>12

\* the inductive invariant: what is not in use is in the free list, once, and the
\* generations tell the two apart
THEOREM Invariance == ASSUME handle_offset = 0 PROVE WeakSpec => []IInv
  BY InitInv, StepInv, PTL DEF WeakSpec

\* the free list goes through the memory of exactly the unused items and ends, for
\* every order of removals, insertions and added blocks
THEOREM FreeListComplete == ASSUME handle_offset = 0 PROVE WeakSpec => []FreeListWhole
<1>1. IInv => FreeListWhole
  BY FreeLinkedIsList DEF IInv, UsedCounted, UnusedItems, FreeListWhole
<1> QED BY <1>1, Invariance, PTL


\* after growing an insertion finds a free item, whose number has memory, for every
\* sequence of calls and generations of any width; that nothing uses this item is
\* FreeListComplete
THEOREM InsertionsInRange == ASSUME handle_offset = 0 PROVE WeakSpec => []InsertInRange
<1>1. IInv => InsertInRange
  <2> SUFFICES ASSUME IInv, pc = "insert"
               PROVE  first_free # NONE /\ to_index(first_free) \in Memory
    BY DEF InsertInRange
  <2>1. BucketTypes /\ FreeLinked(UnusedItems) /\ capacity > size
    BY DEF IInv, UsedCounted
  <2>2. first_free \in UnusedItems
    BY <2>1, FirstFreeIsFree
  <2>3. first_free \in Memory /\ to_index(first_free) = first_free
    BY <2>1, <2>2, NoOffset DEF UnusedItems, BucketTypes
  <2>4. first_free # NONE
    BY <2>1, <2>3, BucketsAssumption DEF BucketTypes, NONE
  <2> QED BY <2>3, <2>4
<1> QED BY <1>1, Invariance, PTL

\* what get finds under a handle is the item it was returned for, from insert to
\* remove, and every call changes the store by its own item only
THEOREM HandlesStayStable == ASSUME handle_offset = 0 PROVE WeakSpec => IsHandleStore
<1>1. WeakInit => LS!LossyInit
  <2> SUFFICES ASSUME WeakInit PROVE LS!LossyInit
    OBVIOUS
  <2>1. generation = <<>> /\ pc = "idle"
    BY DEF WeakInit, Init
  <2>2. UsedItems = {}
    BY <2>1 DEF UsedItems, Items
  <2>3. Store = LS!Empty
    BY <2>1, <2>2 DEF Store, LiveHandles, LS!Empty
  <2>4. FoundHandles = {}
    BY <2>3 DEF FoundHandles, LS!Empty
  <2> QED BY <2>1, <2>3, <2>4 DEF LS!LossyInit, LS!Init
<1> QED BY <1>1, StepInv, Invariance, PTL DEF WeakSpec, IsHandleStore, LS!LossySpec

-----------------------------------------------------------------------------
(* Stale handles *)

\* the generation of the use u of an item, while it is in use and after
InUse(u) == USED_BIT + ((2 * u - 1) % USED_BIT)
NotInUse(u) == (2 * u) % USED_BIT

\* the generation of an item tells how often it was used, modulo USED_BIT
UsesCounted ==
  /\ uses \in [Items -> Nat]
  /\ issued \subseteq [index : Index, generation : Generation, use : Nat]
  /\ \A i \in Items :
       /\ Used(i) => uses[i] > 0 /\ generation[i] = InUse(uses[i])
       /\ ~Used(i) => generation[i] = NotInUse(uses[i])
  /\ \A h \in issued :
       h.index \in Items /\ h.use \in 1 .. uses[h.index] /\ h.generation = InUse(h.use)

\* the generation goes from one use to the next, through both halves of its range
LEMMA GenerationSteps ==
  ASSUME NEW u \in Nat
  PROVE  /\ UsedGeneration(NotInUse(u)) = InUse(u + 1)
         /\ u > 0 => UnusedGeneration(InUse(u)) = NotInUse(u)
<1> DEFINE U == USED_BIT
<1>1. U \in Nat \ {0}
  BY WeakAssumption
<1>2. /\ \A g : UsedGeneration(g) = LET n == (g + 1) % (2 * U)
                                    IN  IF n >= U THEN n ELSE n + U
      /\ \A g : UnusedGeneration(g) = ((g + 1) % (2 * U)) % U
      /\ \A v : InUse(v) = U + ((2 * v - 1) % U) /\ NotInUse(v) = (2 * v) % U
  BY DEF UsedGeneration, UnusedGeneration, InUse, NotInUse
<1> HIDE DEF U
<1> DEFINE V == 2 * U
<1>3. V \in Nat \ {0} /\ V = 2 * U
  BY <1>1
<1>4. V % V = 0 /\ U % U = 0 /\ 0 % U = 0
  <2>1. /\ V \in V .. 2 * V - 1 /\ U \in U .. 2 * U - 1 /\ 0 \in 0 .. U - 1
    BY <1>1, <1>3
  <2> HIDE DEF V
  <2>2. V % V = V - V /\ U % U = U - U /\ 0 % U = 0
    BY <1>1, <1>3, <2>1, ModNear
  <2> QED BY <2>2, <1>1, <1>3
<1> HIDE DEF V
<1>5. ASSUME NEW g \in Nat, NEW n \in Nat, (g + 1) % V = n
      PROVE  /\ n >= U => UsedGeneration(g) = n
             /\ n < U => UsedGeneration(g) = n + U
             /\ UnusedGeneration(g) = n % U
  <2>1. /\ UsedGeneration(g) = IF n >= U THEN n ELSE n + U
        /\ UnusedGeneration(g) = n % U
    BY <1>2, <1>3, <1>5, Zenon
  <2>2. n < U => ~(n >= U)
    BY <1>1
  <2> QED BY <2>1, <2>2, Zenon
<1>6. UsedGeneration(NotInUse(u)) = InUse(u + 1)
  <2>1. PICK x \in Nat : x = 2 * u /\ 2 * (u + 1) - 1 = x + 1
    OBVIOUS
  <2>2. NotInUse(u) = x % U /\ InUse(u + 1) = U + ((x + 1) % U)
    BY <1>2, <2>1, Zenon
  <2>3. PICK r \in 0 .. U - 1 : r = x % U
    BY <1>1
  <2>4. (x + 1) % U = (r + 1) % U
    BY <1>1, <2>3, ModSucc, Zenon
  <2>5. NotInUse(u) = r /\ InUse(u + 1) = U + ((r + 1) % U)
    BY <2>2, <2>3, <2>4, Zenon
  <2>6. r \in Nat /\ r + 1 \in Nat
    BY <1>1
  <2>7. CASE r + 1 < U
    <3>1. r + 1 \in 0 .. U - 1 /\ r + 1 \in 0 .. V - 1
      BY <1>1, <1>3, <2>7
    <3>2. (r + 1) % V = r + 1 /\ (r + 1) % U = r + 1
      BY <1>1, <1>3, <3>1, ModNear
    <3>3. UsedGeneration(r) = (r + 1) + U
      BY <1>5, <2>6, <2>7, <3>2, Zenon
    <3>4. InUse(u + 1) = U + (r + 1)
      BY <2>5, <3>2, Zenon
    <3>5. (r + 1) + U = U + (r + 1)
      BY <1>1
    <3> QED BY <2>5, <3>3, <3>4, <3>5, Zenon
  <2>8. CASE r + 1 = U
    <3>1. U \in 0 .. V - 1 /\ U >= U /\ U \in Nat
      BY <1>1, <1>3
    <3>2. (r + 1) % V = U
      BY <1>3, <2>8, <3>1, ModNear
    <3>3. UsedGeneration(r) = U
      BY <1>5, <2>6, <3>1, <3>2, Zenon
    <3>4. InUse(u + 1) = U + 0
      BY <1>4, <2>5, <2>8, Zenon
    <3>5. U + 0 = U
      BY <1>1
    <3> QED BY <2>5, <3>3, <3>4, <3>5, Zenon
  <2> QED BY <2>7, <2>8, <1>1
<1>7. ASSUME u > 0 PROVE UnusedGeneration(InUse(u)) = NotInUse(u)
  <2>1. PICK x \in Nat : x = 2 * u - 1 /\ 2 * u = x + 1
    BY <1>7
  <2>2. NotInUse(u) = (x + 1) % U /\ InUse(u) = U + (x % U)
    BY <1>2, <2>1, Zenon
  <2>3. PICK r \in 0 .. U - 1 : r = x % U
    BY <1>1
  <2>4. (x + 1) % U = (r + 1) % U
    BY <1>1, <2>3, ModSucc, Zenon
  <2>5. PICK s \in Nat : s = U + r
    BY <1>1
  <2>6. NotInUse(u) = (r + 1) % U /\ InUse(u) = s
    BY <2>2, <2>3, <2>4, <2>5, Zenon
  <2>7. CASE r + 1 < U
    <3>1. /\ s + 1 \in 0 .. V - 1 /\ s + 1 \in U .. 2 * U - 1 /\ r + 1 \in 0 .. U - 1
          /\ s + 1 - U = r + 1 /\ s + 1 \in Nat
      BY <1>1, <1>3, <2>5, <2>7
    <3>2. (s + 1) % V = s + 1
      BY <1>3, <3>1, ModNear
    <3>3. (s + 1) % U = r + 1
      <4>1. PICK a \in U .. 2 * U - 1 : a = s + 1 /\ a - U = r + 1
        BY <1>1, <2>5, <3>1
      <4>2. a % U = a - U
        BY <1>1, <4>1, ModNear
      <4> QED BY <4>1, <4>2, Zenon
    <3>4. (r + 1) % U = r + 1
      BY <1>1, <3>1, ModNear
    <3>5. UnusedGeneration(s) = (s + 1) % U
      BY <1>5, <3>1, <3>2, Zenon
    <3> QED BY <2>6, <3>1, <3>3, <3>4, <3>5, Zenon
  <2>8. CASE r + 1 = U
    <3>1. s + 1 = V
      BY <1>1, <1>3, <2>5, <2>8
    <3>2. UnusedGeneration(s) = 0 % U
      BY <1>4, <1>5, <3>1, Zenon
    <3>3. (r + 1) % U = 0
      BY <1>4, <2>8, Zenon
    <3> QED BY <1>4, <2>6, <3>2, <3>3, Zenon
  <2> QED BY <2>7, <2>8, <1>1
<1> QED BY <1>6, <1>7

LEMMA UsesStep ==
  ASSUME handle_offset = 0, IInv, UsesCounted, [WeakNext]_vars
  PROVE  UsesCounted'
<1>1. /\ BucketTypes /\ GenerationTypes /\ UsedCounted
      /\ FreeLinked(UnusedItems) /\ UnusedItems \subseteq Memory
  BY DEF IInv, UsedCounted, UnusedItems
<1>2. USED_BIT \in Nat \ {0} /\ BUCKET_SIZE \in Nat \ {0}
  BY WeakAssumption, BucketsAssumption
<1>3. ASSUME NewBucketsEmpty, buckets_size' \in Nat, buckets_size <= buckets_size', issued' = issued
      PROVE  UsesCounted'
  <2> DEFINE all == 0 .. buckets_size' * BUCKET_SIZE - 1
  <2>1. /\ generation' = [i \in all |-> IF i \in Items THEN generation[i] ELSE 0]
        /\ uses' = [i \in all |-> IF i \in Items THEN uses[i] ELSE 0]
    BY <1>3 DEF NewBucketsEmpty
  <2>2. Items' = all
    BY <2>1 DEF Items
  <2>3. Items \subseteq all
    <3>1. buckets_size * BUCKET_SIZE \in Nat /\ buckets_size' * BUCKET_SIZE \in Nat
      BY <1>1, <1>2, <1>3, Product DEF BucketTypes
    <3>2. buckets_size * BUCKET_SIZE <= buckets_size' * BUCKET_SIZE
      BY <1>1, <1>2, <1>3 DEF BucketTypes
    <3> QED BY <3>1, <3>2, <1>1 DEF GenerationTypes
  <2> HIDE DEF all
  <2>4. \A i \in Items : generation'[i] = generation[i] /\ uses'[i] = uses[i]
    BY <2>1, <2>3
  <2>5. \A i \in all \ Items : generation'[i] = 0 /\ uses'[i] = 0
    BY <2>1
  <2>6. NotInUse(0) = 0
    BY <1>2 DEF NotInUse
  <2>7. \A i \in all : uses'[i] \in Nat
    BY <2>4, <2>5 DEF UsesCounted
  <2>8. uses' \in [Items' -> Nat]
    <3>1. uses' = [i \in all |-> uses'[i]]
      BY <2>1
    <3> QED BY <3>1, <2>2, <2>7
  <2>9. \A i \in all \ Items : ~Used(i)' /\ generation'[i] = NotInUse(uses'[i])
    BY <1>2, <2>5, <2>6 DEF Used
  <2>10. \A i \in Items : Used(i)' <=> Used(i)
    BY <2>4 DEF Used
  <2>11. \A i \in Items' :
           /\ Used(i)' => uses'[i] > 0 /\ generation'[i] = InUse(uses'[i])
           /\ ~Used(i)' => generation'[i] = NotInUse(uses'[i])
    BY <2>2, <2>4, <2>9, <2>10 DEF UsesCounted
  <2>12. \A h \in issued' :
           h.index \in Items' /\ h.use \in 1 .. uses'[h.index] /\ h.generation = InUse(h.use)
    BY <1>3, <2>2, <2>3, <2>4 DEF UsesCounted
  <2>13. issued' \subseteq [index : Index, generation : Generation, use : Nat]
    BY <1>3 DEF UsesCounted
  <2> QED BY <2>8, <2>11, <2>12, <2>13 DEF UsesCounted, InUse, NotInUse, Index, Generation
<1>4. ASSUME NEW n \in ReserveSizes, Reserve(n) PROVE UsesCounted'
  <2>1. n \in Nat /\ ReserveItems(n) /\ NewBucketsEmpty /\ issued' = issued
    BY <1>4, BucketsAssumption DEF Reserve
  <2> DEFINE unused2 == UnusedItems \cup (Memory' \ Memory)
  <2>2. unused2 = UnusedItems \cup (Memory' \ Memory)
    OBVIOUS
  <2> HIDE DEF unused2
  <2>3. buckets_size' \in Nat /\ buckets_size <= buckets_size'
    BY <1>1, <2>1, <2>2, ReserveLinked
  <2> QED BY <2>1, <2>3, <1>3
<1>5. ASSUME NEW x \in Item, BeginInsert(x) PROVE UsesCounted'
  <2>1. BeginInsertion(x) /\ NewBucketsEmpty /\ issued' = issued
    BY <1>5 DEF BeginInsert
  <2> DEFINE unused2 == UnusedItems \cup (Memory' \ Memory)
  <2>2. unused2 = UnusedItems \cup (Memory' \ Memory)
    OBVIOUS
  <2> HIDE DEF unused2
  <2>3. buckets_size' \in Nat /\ buckets_size <= buckets_size'
    BY <1>1, <2>1, <2>2, BeginInsertionLinked
  <2> QED BY <2>1, <2>3, <1>3
<1>6. ASSUME FinishInsert PROVE UsesCounted'
  <2>0. PICK i : i = first_free
    OBVIOUS
  <2>1. pc = "insert" /\ TakeFirstFree(to_index(first_free)) /\ capacity > size
    BY <1>6 DEF FinishInsert, IInv
  <2>2. i \in UnusedItems /\ to_index(first_free) = i
    BY <1>1, <2>0, <2>1, TakeLinked
  <2>3. i \in Items /\ ~Used(i)
    BY <1>1, <2>2 DEF UnusedItems, BucketTypes, GenerationTypes
  <2>4. /\ generation' = [generation EXCEPT ![i] = UsedGeneration(@)]
        /\ uses' = [uses EXCEPT ![i] = @ + 1]
        /\ issued' = issued \cup {[index |-> i, generation |-> generation'[i], use |-> uses'[i]]}
    BY <1>6, <2>0, <2>2 DEF FinishInsert
  <2>5. uses[i] \in Nat /\ generation[i] = NotInUse(uses[i])
    BY <2>3 DEF UsesCounted
  <2>6. uses'[i] = uses[i] + 1 /\ \A j \in Items \ {i} : uses'[j] = uses[j]
    BY <2>3, <2>4 DEF UsesCounted
  <2>7. /\ generation'[i] = UsedGeneration(generation[i])
        /\ \A j \in Items \ {i} : generation'[j] = generation[j]
    BY <1>1, <2>3, <2>4 DEF GenerationTypes
  <2>8. generation'[i] = InUse(uses'[i])
    BY <2>5, <2>6, <2>7, GenerationSteps
  <2>9. Used(i)'
    <3>1. (2 * uses'[i] - 1) % USED_BIT \in 0 .. USED_BIT - 1
      BY <1>2, <2>5, <2>6
    <3> QED BY <1>2, <2>8, <3>1 DEF Used, InUse
  <2>10. Items' = Items /\ uses' \in [Items -> Nat]
    BY <2>3, <2>4, <2>5 DEF Items, UsesCounted
  <2>11. \A j \in Items \ {i} : Used(j)' <=> Used(j)
    BY <2>7 DEF Used
  <2>12. \A j \in Items' :
           /\ Used(j)' => uses'[j] > 0 /\ generation'[j] = InUse(uses'[j])
           /\ ~Used(j)' => generation'[j] = NotInUse(uses'[j])
    <3> TAKE j \in Items'
    <3>1. CASE j = i
      BY <3>1, <2>5, <2>6, <2>8, <2>9
    <3>2. CASE j # i
      BY <3>2, <2>6, <2>7, <2>10, <2>11 DEF UsesCounted
    <3> QED BY <3>1, <3>2
  <2>13. \A h \in issued' :
           h.index \in Items' /\ h.use \in 1 .. uses'[h.index] /\ h.generation = InUse(h.use)
    <3> TAKE h \in issued'
    <3>1. CASE h \in issued
      <4>1. h.index \in Items /\ h.use \in 1 .. uses[h.index] /\ h.generation = InUse(h.use)
        BY <3>1 DEF UsesCounted
      <4>2. uses[h.index] \in Nat /\ uses'[h.index] \in Nat /\ uses[h.index] <= uses'[h.index]
        BY <4>1, <2>5, <2>6 DEF UsesCounted
      <4> QED BY <4>1, <4>2, <2>10
    <3>2. CASE h = [index |-> i, generation |-> generation'[i], use |-> uses'[i]]
      BY <3>2, <2>3, <2>5, <2>6, <2>8, <2>10
    <3> QED BY <3>1, <3>2, <2>4
  <2>14. issued' \subseteq [index : Index, generation : Generation, use : Nat]
    <3>1. i \in Index /\ uses'[i] \in Nat
      BY <1>1, <2>0, <2>5, <2>6 DEF BucketTypes, Index
    <3>2. generation'[i] \in Generation
      <4>1. (2 * uses'[i] - 1) % USED_BIT \in 0 .. USED_BIT - 1
        BY <1>2, <2>5, <2>6
      <4> QED BY <1>2, <2>8, <4>1 DEF InUse, Generation
    <3> QED BY <2>4, <3>1, <3>2 DEF UsesCounted
  <2> QED BY <2>10, <2>12, <2>13, <2>14 DEF UsesCounted, InUse, NotInUse, Index, Generation
<1>7. ASSUME NEW g \in issued, Remove(g) PROVE UsesCounted'
  <2> DEFINE i == g.index
  <2>1. to_index(g.index) = i /\ i \in UsedItems
    BY <1>1, <1>7, FoundUsed DEF Remove
  <2>2. i \in Items /\ Used(i)
    BY <2>1 DEF UsedItems
  <2>3. generation' = [generation EXCEPT ![i] = UnusedGeneration(@)] /\ UNCHANGED history
    BY <1>7, <2>1 DEF Remove
  <2>4. uses' = uses /\ issued' = issued
    BY <2>3 DEF history
  <2> HIDE DEF i
  <2>5. uses[i] \in Nat /\ uses[i] > 0 /\ generation[i] = InUse(uses[i])
    BY <2>2 DEF UsesCounted
  <2>6. /\ generation'[i] = UnusedGeneration(generation[i])
        /\ \A j \in Items \ {i} : generation'[j] = generation[j]
    BY <1>1, <2>2, <2>3 DEF GenerationTypes
  <2>7. generation'[i] = NotInUse(uses[i])
    BY <2>5, <2>6, GenerationSteps
  <2>8. ~Used(i)'
    <3>1. (2 * uses[i]) % USED_BIT \in 0 .. USED_BIT - 1
      BY <1>2, <2>5
    <3> QED BY <1>2, <2>7, <3>1 DEF Used, NotInUse
  <2>9. Items' = Items /\ \A j \in Items \ {i} : Used(j)' <=> Used(j)
    BY <2>3, <2>6 DEF Items, Used
  <2>10. \A j \in Items' :
           /\ Used(j)' => uses'[j] > 0 /\ generation'[j] = InUse(uses'[j])
           /\ ~Used(j)' => generation'[j] = NotInUse(uses'[j])
    <3> TAKE j \in Items'
    <3>1. CASE j = i
      BY <3>1, <2>4, <2>7, <2>8
    <3>2. CASE j # i
      BY <3>2, <2>4, <2>6, <2>9 DEF UsesCounted
    <3> QED BY <3>1, <3>2
  <2> QED BY <2>4, <2>9, <2>10 DEF UsesCounted, InUse, NotInUse, Index, Generation
<1>8. ASSUME UNCHANGED <<generation, uses, issued>> PROVE UsesCounted'
  BY <1>8 DEF UsesCounted, Items, Used, InUse, NotInUse, Index, Generation
<1>9. Destroy => UNCHANGED <<generation, uses, issued>>
  BY DEF Destroy, history
<1>10. UNCHANGED vars => UNCHANGED <<generation, uses, issued>>
  BY DEF vars, history
<1> QED BY <1>4, <1>5, <1>6, <1>7, <1>8, <1>9, <1>10 DEF WeakNext

LEMMA UsesInit == WeakInit => UsesCounted
<1> SUFFICES ASSUME WeakInit PROVE UsesCounted
  OBVIOUS
<1>1. generation = <<>> /\ uses = <<>> /\ issued = {} /\ Items = {}
  BY DEF WeakInit, Items
<1> QED BY <1>1 DEF UsesCounted

\* every operation leaves the array well formed, with as many items in use as it counts
\* and never more than have memory
THEOREM TypeCorrect == ASSUME handle_offset = 0 PROVE WeakSpec => []TypeOK
<1>1. IInv /\ UsesCounted => TypeOK
  <2> SUFFICES ASSUME IInv, UsesCounted PROVE TypeOK
    OBVIOUS
  <2>1. BucketTypes /\ GenerationTypes /\ FreeLinked(UnusedItems)
    BY DEF IInv, UsedCounted
  <2>2. capacity - size \in Nat
    BY <2>1 DEF FreeLinked, IsLinked
  <2>3. size <= capacity
    BY <2>1, <2>2 DEF BucketTypes
  <2>4. Memory \subseteq Items
    BY <2>1 DEF BucketTypes, GenerationTypes
  <2> QED BY <2>1, <2>3, <2>4 DEF TypeOK, BucketTypes, GenerationTypes, UsesCounted, Index
<1> QED BY <1>1, UsesInit, UsesStep, Invariance, PTL DEF WeakSpec

\* a handle whose item was removed is not found, until its item was used USED_BIT / 2
\* times more: the generation has not come round
THEOREM StaleHandlesFail == ASSUME handle_offset = 0 PROVE WeakSpec => []StaleNotFound
<1>1. WeakInit => UsesCounted
  BY UsesInit
<1>2. IInv /\ UsesCounted => StaleNotFound
  <2> SUFFICES ASSUME IInv, UsesCounted, NEW h \in issued, Found(h),
                      uses[to_index(h.index)] - h.use < USED_BIT \div 2
               PROVE  Current(h)
    BY DEF StaleNotFound
  <2>1. to_index(h.index) = h.index /\ h.index \in UsedItems /\ generation[h.index] = h.generation
    BY FoundUsed DEF IInv, Found
  <2> DEFINE i == h.index
             u == uses[h.index]
             v == h.use
  <2>2. Used(i) /\ i \in Items
    BY <2>1 DEF UsedItems
  <2>3. /\ u \in Nat /\ v \in 1 .. u
        /\ generation[i] = InUse(u) /\ h.generation = InUse(v)
    BY <2>2 DEF UsesCounted
  <2>4. u - v < USED_BIT \div 2
    BY <2>1
  <2> HIDE DEF u, v, i
  <2>5. USED_BIT \in Nat \ {0} /\ 2 * (USED_BIT \div 2) <= USED_BIT /\ USED_BIT \div 2 \in Nat
    BY WeakAssumption
  <2>6. PICK x \in Nat, y \in Nat : x = 2 * u - 1 /\ y = 2 * v - 1
    BY <2>3
  <2>7. x % USED_BIT \in Nat /\ y % USED_BIT \in Nat
    BY <2>5, <2>6
  <2>8. USED_BIT + (x % USED_BIT) = USED_BIT + (y % USED_BIT)
    BY <2>1, <2>3, <2>6, Zenon DEF InUse, i
  <2>9. x % USED_BIT = y % USED_BIT
    <3> DEFINE a == x % USED_BIT
               b == y % USED_BIT
    <3>1. a \in Nat /\ b \in Nat /\ USED_BIT + a = USED_BIT + b
      BY <2>7, <2>8
    <3> HIDE DEF a, b
    <3>2. a = b
      BY <2>5, <3>1
    <3> QED BY <3>2 DEF a, b
  <2>10. y <= x /\ x - y < USED_BIT
    BY <2>3, <2>4, <2>5, <2>6
  <2>11. x = y
    BY <2>5, <2>9, <2>10, SameRemainder
  <2>12. u = v
    BY <2>3, <2>6, <2>11
  <2> QED BY <2>1, <2>2, <2>12 DEF Current, u, v, i
<1> QED BY <1>1, <1>2, UsesStep, Invariance, PTL DEF WeakSpec
-----------------------------------------------------------------------------
(* The sizes of the blocks *)

\* the buckets of a block give its size back: rounded down, their bytes are the
\* bytes that were allocated
SizesRoundBack ==
  \A n \in Nat \ {0} :
    ((block_buckets(n) * BUCKET_SIZE * item_bytes) \div BUCKET_GRANULARITY)
      * BUCKET_GRANULARITY = block_bytes(n)

\* the block that begins with bucket b ends where bucket c begins
EndsBefore(b, c) ==
  /\ c \in {buckets_size} \cup DOMAIN allocations
  /\ c > b /\ \A d \in DOMAIN allocations : d > b => c <= d

\* every block has as many buckets, up to the next block, as its size asks for
BlocksKnown ==
  \A b \in DOMAIN allocations : \E n \in Nat \ {0} :
    allocations[b] = block_bytes(n) /\ EndsBefore(b, b + block_buckets(n))

BlocksInv == IF pc = "gone" THEN allocations = <<>> ELSE BlocksKnown

\* a number of multiples and a rest that is smaller
LEMMA QuotientIs ==
  ASSUME NEW b \in Nat \ {0}, NEW q \in Nat, NEW r \in 0 .. b - 1
  PROVE  (q * b + r) \div b = q
<1> DEFINE x == q * b + r
           p == x \div b
<1>1. x \in Nat
  OBVIOUS
<1>2. p \in Nat /\ p * b <= x /\ x < p * b + b
  <2> HIDE DEF x
  <2> QED BY <1>1, Quotient
<1> HIDE DEF p
<1>3. CASE p < q
  <2>1. b * p + b <= b * q
    BY <1>2, <1>3, MultiplesApart
  <2> QED BY <1>2, <2>1
<1>4. CASE q < p
  <2>1. b * q + b <= b * p
    BY <1>2, <1>4, MultiplesApart
  <2> QED BY <1>2, <2>1
<1> QED BY <1>2, <1>3, <1>4 DEF p

\* rounding up adds less than one more
LEMMA RoundUpNear ==
  ASSUME NEW a \in Nat, NEW b \in Nat \ {0}
  PROVE  div_round_up(a, b) * b <= a + b - 1
<1> DEFINE c == a + b - 1
<1>1. c \in Nat
  OBVIOUS
<1> HIDE DEF c
<1>2. (c \div b) * b <= c
  BY <1>1, Quotient
<1> QED BY <1>2 DEF c, div_round_up

\* sizes that divide the granularity, and of which fewer than a bucket are
\* smaller than it, round back
LEMMA DividingSizesRoundBack ==
  ASSUME NEW k \in Nat, BUCKET_GRANULARITY = k * item_bytes,
         (BUCKET_SIZE - 1) * item_bytes < BUCKET_GRANULARITY
  PROVE  SizesRoundBack
<1> SUFFICES ASSUME NEW n \in Nat \ {0}
             PROVE  ((block_buckets(n) * BUCKET_SIZE * item_bytes) \div BUCKET_GRANULARITY)
                      * BUCKET_GRANULARITY = block_bytes(n)
  BY DEF SizesRoundBack
<1>1. /\ item_bytes \in Nat \ {0} /\ BUCKET_GRANULARITY \in Nat \ {0}
      /\ BUCKET_SIZE \in Nat \ {0}
  BY BucketsAssumption
<1> DEFINE q == div_round_up(n * item_bytes, BUCKET_GRANULARITY)
           i == q * k
           m == div_round_up(i, BUCKET_SIZE)
           over == m * BUCKET_SIZE - i
           rest == over * item_bytes
<1>2. q \in Nat /\ block_bytes(n) = q * BUCKET_GRANULARITY
  <2>1. n * item_bytes \in Nat
    BY <1>1
  <2>2. q \in Nat
    BY <1>1, <2>1, RoundUp
  <2> QED BY <2>2 DEF block_bytes
<1> HIDE DEF q
<1>3. i \in Nat /\ q * BUCKET_GRANULARITY = i * item_bytes
  BY <1>1, <1>2
<1> HIDE DEF i
<1>4. block_items(n) = i
  <2>1. 0 \in 0 .. item_bytes - 1 /\ i * item_bytes + 0 = i * item_bytes
    BY <1>1, <1>3
  <2>2. (i * item_bytes + 0) \div item_bytes = i
    BY <1>1, <1>3, <2>1, QuotientIs
  <2> QED BY <1>2, <1>3, <2>1, <2>2 DEF block_items
<1>5. m \in Nat /\ i <= m * BUCKET_SIZE /\ m * BUCKET_SIZE <= i + BUCKET_SIZE - 1
  BY <1>1, <1>3, RoundUp, RoundUpNear
<1>6. block_buckets(n) = m
  BY <1>4 DEF block_buckets
<1> HIDE DEF m
<1>7. over \in 0 .. BUCKET_SIZE - 1 /\ m * BUCKET_SIZE = i + over
  <2>1. m * BUCKET_SIZE \in Nat
    BY <1>1, <1>5
  <2> QED BY <2>1, <1>1, <1>3, <1>5
<1> HIDE DEF over
<1>8. rest \in 0 .. BUCKET_GRANULARITY - 1
  <2>1. rest \in Nat /\ rest <= (BUCKET_SIZE - 1) * item_bytes
    BY <1>1, <1>7
  <2>2. (BUCKET_SIZE - 1) * item_bytes \in Nat
    BY <1>1
  <2> HIDE DEF rest
  <2> QED BY <2>1, <2>2, <1>1
<1>9. (m * BUCKET_SIZE) * item_bytes = q * BUCKET_GRANULARITY + rest
  BY <1>1, <1>3, <1>7
<1> HIDE DEF rest
<1>10. (q * BUCKET_GRANULARITY + rest) \div BUCKET_GRANULARITY = q
  BY <1>1, <1>2, <1>8, QuotientIs
<1> QED BY <1>2, <1>6, <1>9, <1>10

\* a block that is known is deallocated with its size
LEMMA BlockRoundsBack ==
  ASSUME SizesRoundBack, BucketTypes, BlocksKnown, NEW b \in DOMAIN allocations
  PROVE  FreedBytes(b) = allocations[b]
<1>1. PICK n \in Nat \ {0} :
        allocations[b] = block_bytes(n) /\ EndsBefore(b, b + block_buckets(n))
  BY DEF BlocksKnown
<1> DEFINE c == b + block_buckets(n)
<1>2. b \in Nat /\ DOMAIN allocations \subseteq Nat /\ buckets_size \in Nat
      /\ block_buckets(n) \in Nat
  BY BlockFits DEF BucketTypes
<1>3. EndsBefore(b, c) /\ \A d : EndsBefore(b, d) => d = c
  <2>1. EndsBefore(b, c)
    BY <1>1
  <2>2. ASSUME NEW d, EndsBefore(b, d) PROVE d = c
    <3>1. c \in Nat /\ d \in Nat
      BY <1>2, <2>1, <2>2 DEF EndsBefore
    <3>2. \A e \in DOMAIN allocations : e < buckets_size
      BY DEF BucketTypes
    <3> HIDE DEF c
    <3>3. c <= d /\ d <= c
      BY <1>2, <2>1, <2>2, <3>1, <3>2 DEF EndsBefore
    <3> QED BY <3>1, <3>3
  <2> QED BY <2>1, <2>2
<1>4. NextBlock(b) = c
  <2>1. NextBlock(b) = CHOOSE d \in {buckets_size} \cup DOMAIN allocations :
                          d > b /\ \A e \in DOMAIN allocations : e > b => d <= e
    BY DEF NextBlock
  <2> HIDE DEF c
  <2> QED BY <2>1, <1>3 DEF EndsBefore
<1>5. NextBlock(b) - b = block_buckets(n)
  BY <1>2, <1>4
<1> QED BY <1>1, <1>5 DEF FreedBytes, SizesRoundBack

LEMMA GrowthKnown ==
  ASSUME BucketTypes, BlocksKnown,
         \/ \E n \in Nat \ {0} : AddBuckets(n)
         \/ UNCHANGED <<buckets_size, allocations>>
  PROVE  BlocksKnown'
<1>1. CASE UNCHANGED <<buckets_size, allocations>>
  BY <1>1 DEF BlocksKnown, EndsBefore
<1>2. ASSUME NEW n \in Nat \ {0}, AddBuckets(n) PROVE BlocksKnown'
  <2>1. /\ allocations' = [b \in DOMAIN allocations \cup {buckets_size} |->
                             IF b = buckets_size THEN block_bytes(n) ELSE allocations[b]]
        /\ buckets_size' = buckets_size + block_buckets(n)
    BY <1>2 DEF AddBuckets
  <2>2. block_buckets(n) \in Nat /\ block_buckets(n) > 0
    BY BlockFits
  <2>3. /\ buckets_size \in Nat /\ buckets_size \notin DOMAIN allocations
        /\ \A d \in DOMAIN allocations : d \in Nat /\ d < buckets_size
    BY DEF BucketTypes
  <2>4. DOMAIN allocations' = DOMAIN allocations \cup {buckets_size}
    BY <2>1
  <2>5. ASSUME NEW b \in DOMAIN allocations
        PROVE  \E l \in Nat \ {0} : /\ allocations'[b] = block_bytes(l)
                                    /\ EndsBefore(b, b + block_buckets(l))'
    <3>1. PICK l \in Nat \ {0} :
            allocations[b] = block_bytes(l) /\ EndsBefore(b, b + block_buckets(l))
      BY DEF BlocksKnown
    <3>2. allocations'[b] = block_bytes(l)
      BY <2>1, <2>3, <3>1
    <3> DEFINE c == b + block_buckets(l)
    <3>3. /\ c \in {buckets_size} \cup DOMAIN allocations
          /\ c > b /\ \A d \in DOMAIN allocations : d > b => c <= d
      BY <3>1 DEF EndsBefore
    <3> HIDE DEF c
    <3>4. /\ c \in {buckets_size'} \cup DOMAIN allocations'
          /\ \A d \in DOMAIN allocations' : d > b => c <= d
      BY <2>3, <2>4, <3>3
    <3>5. EndsBefore(b, c)'
      BY <3>3, <3>4 DEF EndsBefore, c
    <3> QED BY <3>2, <3>5 DEF c
  <2>6. allocations'[buckets_size] = block_bytes(n)
    BY <2>1
  <2>7. ASSUME NEW b, b = buckets_size PROVE EndsBefore(b, b + block_buckets(n))'
    BY <2>1, <2>2, <2>3, <2>4, <2>7 DEF EndsBefore
  <2> QED BY <2>4, <2>5, <2>6, <2>7 DEF BlocksKnown
<1> QED BY <1>1, <1>2

LEMMA BlocksInit == WeakInit => BlocksInv
<1> SUFFICES ASSUME WeakInit PROVE BlocksInv
  OBVIOUS
<1>1. allocations = <<>> /\ pc = "idle" /\ DOMAIN allocations = {}
  BY DEF WeakInit, Init
<1> QED BY <1>1 DEF BlocksInv, BlocksKnown

LEMMA BlocksStep ==
  ASSUME SizesRoundBack, BucketTypes, BlocksInv, [WeakNext]_vars
  PROVE  BlocksInv'
<1>1. ASSUME pc # "gone", pc' # "gone",
             \/ \E n \in Nat \ {0} : AddBuckets(n)
             \/ UNCHANGED <<buckets_size, allocations>>
      PROVE  BlocksInv'
  BY <1>1, GrowthKnown DEF BlocksInv
<1>2. ASSUME NEW n \in ReserveSizes, Reserve(n) PROVE BlocksInv'
  <2>1. ReserveItems(n) /\ n \in Nat
    BY <1>2, BucketsAssumption DEF Reserve
  <2>2. n - capacity \in Nat \ {0} /\ pc = "idle" /\ pc' \in {"idle", "panic"}
    BY <2>1 DEF ReserveItems, BucketTypes
  <2>3. AddBuckets(n - capacity) \/ UNCHANGED <<buckets_size, allocations>>
    BY <2>1 DEF ReserveItems, AddBucketsFails
  <2> QED BY <1>1, <2>2, <2>3
<1>3. ASSUME NEW x \in Item, BeginInsert(x) PROVE BlocksInv'
  <2>1. BeginInsertion(x)
    BY <1>3 DEF BeginInsert
  <2>2. pc = "idle" /\ pc' \in {"insert", "panic"}
    BY <2>1 DEF BeginInsertion
  <2>3. (\E n \in Nat \ {0} : AddBuckets(n)) \/ UNCHANGED <<buckets_size, allocations>>
    <3>1. capacity < size + 1 => GrowBy \in Nat \ {0}
      BY BucketsAssumption DEF GrowBy, BucketTypes
    <3> QED BY <2>1, <3>1 DEF BeginInsertion, AddBucketsFails, layout
  <2> QED BY <1>1, <2>2, <2>3
<1>4. ASSUME FinishInsert PROVE BlocksInv'
  <2>1. pc = "insert" /\ pc' = "idle" /\ UNCHANGED <<buckets_size, allocations>>
    BY <1>4 DEF FinishInsert, TakeFirstFree, layout
  <2> QED BY <1>1, <2>1
<1>5. ASSUME NEW h \in issued, Remove(h) PROVE BlocksInv'
  <2>1. pc = "idle" /\ pc' = pc /\ UNCHANGED <<buckets_size, allocations>>
    BY <1>5 DEF Remove, GiveBack, layout
  <2> QED BY <1>1, <2>1
<1>6. ASSUME Destroy PROVE BlocksInv'
  <2>1. pc = "idle" /\ pc' = "gone"
    BY <1>6 DEF Destroy
  <2>2. \A b \in DOMAIN allocations : FreedBytes(b) = allocations[b]
    BY <2>1, BlockRoundsBack DEF BlocksInv
  <2>3. allocations' = [b \in {} |-> allocations[b]]
    <3>1. {b \in DOMAIN allocations : FreedBytes(b) # allocations[b]} = {}
      BY <2>2
    <3> QED BY <3>1, <1>6 DEF Destroy
  <2>4. allocations' = <<>>
    BY <2>3
  <2> QED BY <2>1, <2>4 DEF BlocksInv
<1>7. ASSUME UNCHANGED vars PROVE BlocksInv'
  BY <1>7 DEF vars, layout, BlocksInv, BlocksKnown, EndsBefore
<1> QED BY <1>2, <1>3, <1>4, <1>5, <1>6, <1>7 DEF WeakNext

\* the destructor gives every block back with the size it was allocated with,
\* when the items divide the granularity and a bucket without one of them is
\* smaller than it: for other items the sum rounds to another size
THEOREM BlocksAllFreed ==
  ASSUME handle_offset = 0,
         NEW k \in Nat, BUCKET_GRANULARITY = k * item_bytes,
         (BUCKET_SIZE - 1) * item_bytes < BUCKET_GRANULARITY
  PROVE  WeakSpec => []BlocksFreed
<1>1. SizesRoundBack
  BY DividingSizesRoundBack
<1>2. WeakInit => BlocksInv
  BY BlocksInit
<1>3. IInv /\ BlocksInv /\ [WeakNext]_vars => BlocksInv'
  BY <1>1, BlocksStep DEF IInv
<1>4. BlocksInv => BlocksFreed
  BY DEF BlocksInv, BlocksFreed
<1> QED BY <1>2, <1>3, <1>4, Invariance, PTL DEF WeakSpec
=============================================================================
