----------------------------- MODULE BucketArray -----------------------------
(****************************************************************************)
(* Bucket_Array of bucket_array.h: Buckets where a bit mask in every bucket *)
(* tells the items in use, and every bucket knows how many items it has and *)
(* the size of the block that was allocated with it.  A handle is an index, *)
(* and must be valid.                                                       *)
(****************************************************************************)
EXTENDS Buckets

VARIABLES
  used,              \* the items with their bit set in the mask of their bucket
  bucket_capacity,   \* of every bucket
  destroyed          \* the items the array's destructor has destroyed

vars == <<layout, size, first_free, data, pc, inserting, used, bucket_capacity,
          destroyed>>

BucketInit == Init /\ used = {} /\ bucket_capacity = <<>> /\ destroyed = {}

UnusedItems == Memory \ used

\* faulty: what remains for the last bucket also when it is full
PartOfBucket(remaining) == remaining % BUCKET_SIZE

\* how many of the items that remain are in the next bucket
ItemsInBucket(remaining) == IF remaining < BUCKET_SIZE THEN remaining ELSE BUCKET_SIZE

\* the buckets that were added share the items that were added
NewBucketsFilled ==
  bucket_capacity' =
    [b \in 0 .. buckets_size' - 1 |->
       IF b < buckets_size THEN bucket_capacity[b]
       ELSE ItemsInBucket(capacity' - capacity - (b - buckets_size) * BUCKET_SIZE)]

Reserve(n) == ReserveItems(n) /\ NewBucketsFilled /\ UNCHANGED <<used, destroyed>>

BeginInsert(x) == BeginInsertion(x) /\ NewBucketsFilled /\ UNCHANGED <<used, destroyed>>

FinishInsert ==
  /\ pc = "insert"
  /\ TakeFirstFree(to_index(first_free))
  /\ used' = used \cup {to_index(first_free)}
  /\ UNCHANGED <<bucket_capacity, destroyed>>

Remove(handle) ==
  /\ pc = "idle" /\ to_index(handle) \in used
  /\ GiveBack(to_index(handle), handle)
  /\ used' = used \ {to_index(handle)}
  /\ UNCHANGED <<bucket_capacity, destroyed>>

\* the destructor destroys the items in use of every bucket and deallocates every
\* block with the size that is kept with its first bucket
Destroy ==
  LET items(b) == b * BUCKET_SIZE .. b * BUCKET_SIZE + bucket_capacity[b] - 1
  IN  /\ pc = "idle"
      /\ pc' = "gone"
      /\ destroyed' = used \cap UNION {items(b) : b \in 0 .. buckets_size - 1}
      /\ allocations' = [b \in {c \in DOMAIN allocations : allocations[c] = 0} |-> 0]
      /\ UNCHANGED <<buckets_size, buckets_capacity, size, capacity, first_free,
                     data, inserting, used, bucket_capacity>>

BucketNext ==
  \/ \E n \in ReserveSizes : Reserve(n)
  \/ \E x \in Item : BeginInsert(x)
  \/ FinishInsert
  \/ \E i \in used : Remove((i + handle_offset) % Word)
  \/ Destroy

BucketSpec == BucketInit /\ [][BucketNext]_vars

-----------------------------------------------------------------------------
(* Properties *)

Index == 0 .. Word - 1

TypeOK ==
  /\ buckets_size \in Nat /\ buckets_capacity \in Nat
  /\ size \in Nat /\ capacity \in Nat /\ size <= capacity
  /\ first_free \in Index
  /\ Memory \subseteq 0 .. MaxIndex /\ data \in [Memory -> Item \cup Index]
  /\ DOMAIN allocations \subseteq 0 .. buckets_size - 1
  /\ allocations \in [DOMAIN allocations -> Nat]
  /\ pc \in {"idle", "insert", "panic", "gone"} /\ inserting \in Item
  /\ bucket_capacity \in [0 .. buckets_size - 1 -> 1 .. BUCKET_SIZE]
  /\ used \subseteq Memory /\ destroyed \subseteq used

\* the free list goes through the memory of exactly the items that are not in use,
\* after any order of removals, insertions and added blocks
FreeListWhole == FreeListIs(UnusedItems)

\* the destructor destroys every item that is still in use, in buckets that are
\* full and in buckets that are cut short
ItemsDestroyed == pc = "gone" => destroyed = used

-----------------------------------------------------------------------------
(* Refinement *)

LiveHandles == {(i + handle_offset) % Word : i \in used}
Store == [h \in IF pc = "gone" THEN {} ELSE LiveHandles |-> data[to_index(h)]]

HS == INSTANCE HandleStore WITH Handle <- Index, store <- Store,
                           alive <- pc # "gone"

\* a live handle names the item it was returned for: no insertion takes the place
\* of an item in use and no reservation or removal touches another item
IsHandleStore == HS!Spec
=============================================================================
