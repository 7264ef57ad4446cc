------------------------------- MODULE Buckets -------------------------------
(****************************************************************************)
(* What Bucket_Array (bucket_array.h) and Weak_Bucket_Array                 *)
(* (weak_bucket_array.h) have in common: items in blocks that never move,   *)
(* buckets of BUCKET_SIZE items that point into the blocks, and a free list *)
(* whose links are kept in the memory of the free items.  An item has the   *)
(* index bucket * BUCKET_SIZE + item; the last bucket of a block may be cut *)
(* short, so not every index has memory.                                    *)
(****************************************************************************)
EXTENDS FreeList

CONSTANTS
  Item,                \* what the clients store
  Word,                \* number of values of a uint32_t, 2^32 in the code
  BUCKET_SIZE, BUCKET_GRANULARITY, LEAST_ITEMS_COUNT, LEAST_BUCKETS_COUNT,
  item_bytes,          \* sizeof(T)
  handle_offset,
  ReserveSizes,        \* the sizes clients reserve
  Fails,               \* the allocations that may fail: "table", "block"
  MaxIndex             \* bound: no block is added beyond that index

ASSUME BucketsAssumption ==
  /\ Item # {}
  /\ {BUCKET_SIZE, BUCKET_GRANULARITY, LEAST_ITEMS_COUNT, LEAST_BUCKETS_COUNT,
      item_bytes} \subseteq Nat \ {0}
  /\ Word \in Nat /\ handle_offset \in 0 .. Word - 1
  /\ ReserveSizes \subseteq Nat /\ Fails \subseteq {"table", "block"}
  /\ MaxIndex \in Nat /\ MaxIndex < Word - 1

VARIABLES
  buckets_size, buckets_capacity, size, capacity, first_free,
  data,          \* the memory of the items: an item, or a link to a free one
  allocations,   \* the bytes of each block, by the bucket it was given to
  pc,            \* "idle", "insert" (an insertion has grown), "panic", "gone"
  inserting      \* the item of the insertion

layout == <<buckets_size, buckets_capacity, capacity, allocations>>

NONE == Word - 1   \* (uint32_t) -1

Init ==
  /\ buckets_size = 0 /\ buckets_capacity = 0 /\ size = 0 /\ capacity = 0
  /\ first_free = NONE
  /\ data = <<>> /\ allocations = <<>>
  /\ pc = "idle" /\ inserting = CHOOSE x \in Item : TRUE

Memory == DOMAIN data

div_round_up(a, b) == (a + b - 1) \div b

\* to_index, as one number
to_index(handle) == (handle - handle_offset) % Word

-----------------------------------------------------------------------------
(* add_buckets_failing *)

block_bytes(n) == div_round_up(n * item_bytes, BUCKET_GRANULARITY) * BUCKET_GRANULARITY
block_items(n) == block_bytes(n) \div item_bytes

block_buckets(n) == div_round_up(block_items(n), BUCKET_SIZE)

TableFull(n) == block_buckets(n) + buckets_size > buckets_capacity

TableCapacity(n) ==
  IF ~TableFull(n)                                  THEN buckets_capacity
  ELSE IF buckets_capacity * 2 < LEAST_BUCKETS_COUNT THEN LEAST_BUCKETS_COUNT
  ELSE buckets_capacity * 2

\* faulty: the last item of a block links the item after the block
LinkWithoutEnd(i, last) == i + 1

\* the link of the new free item i in a block whose last item is last
LinkOf(i, last) == IF i = last THEN first_free ELSE i + 1

\* the table has room, or gets it, and the block is allocated; its items are
\* linked in front of the free list
AddBuckets(n) ==
  LET first == buckets_size * BUCKET_SIZE
      last  == first + block_items(n) - 1
  IN  /\ last <= MaxIndex
      /\ buckets_capacity' = TableCapacity(n)
      /\ data' = [i \in Memory \cup first .. last |->
                    IF i \in Memory THEN data[i] ELSE LinkOf(i, last)]
      /\ first_free' = first
      /\ allocations' = [b \in DOMAIN allocations \cup {buckets_size} |->
                           IF b = buckets_size THEN block_bytes(n) ELSE allocations[b]]
      /\ buckets_size' = buckets_size + block_buckets(n)
      /\ capacity' = capacity + block_items(n)

\* the table cannot grow, or it has grown and the block cannot be allocated
AddBucketsFails(n) ==
  /\ \/ "table" \in Fails /\ TableFull(n) /\ UNCHANGED buckets_capacity
     \/ "block" \in Fails /\ buckets_capacity' = TableCapacity(n)
  /\ UNCHANGED <<buckets_size, capacity, first_free, data, allocations>>

\* grow, for one more item
GrowBy == IF LEAST_ITEMS_COUNT < size + 1 - capacity
          THEN size + 1 - capacity ELSE LEAST_ITEMS_COUNT

-----------------------------------------------------------------------------
(* The steps of the two arrays, but for how they tell used from free items *)

\* reserve and reserve_failing: only the first one reports a failure to the
\* handler, which stops the program
ReserveItems(n) ==
  /\ pc = "idle" /\ capacity < n
  /\ \/ AddBuckets(n - capacity) /\ UNCHANGED pc
     \/ AddBucketsFails(n - capacity) /\ pc' \in {"idle", "panic"}
  /\ UNCHANGED <<size, inserting>>

\* insert grows when there is no free item
BeginInsertion(x) ==
  /\ pc = "idle"
  /\ inserting' = x
  /\ \/ capacity >= size + 1 /\ pc' = "insert" /\ UNCHANGED <<layout, data, first_free>>
     \/ capacity < size + 1 /\ AddBuckets(GrowBy) /\ pc' = "insert"
     \/ capacity < size + 1 /\ AddBucketsFails(GrowBy) /\ pc' = "panic"
  /\ UNCHANGED size

\* faulty: the free list still starts with the item that was taken
FreeAfterTakeSame(i) == i

FreeAfterTake(i) == data[i]

\* item i is taken from the free list and constructed in place of its link
TakeFirstFree(i) ==
  /\ i \in Memory
  /\ first_free' = FreeAfterTake(i)
  /\ data' = [data EXCEPT ![i] = inserting]
  /\ size' = size + 1
  /\ pc' = "idle"
  /\ UNCHANGED <<layout, inserting>>

\* item i is destroyed and its memory links the free list, which begins with
\* the handle afterwards
GiveBack(i, handle) ==
  /\ data' = [data EXCEPT ![i] = first_free]
  /\ first_free' = handle
  /\ size' = size - 1
  /\ UNCHANGED <<layout, pc, inserting>>

-----------------------------------------------------------------------------
(* What the properties of both arrays look at *)

\* the free list lists the unused items, every one of them once, and ends
FreeListIs(unused) ==
  capacity - size = Cardinality(unused) /\ ListIs(first_free, data, NONE, unused)

\* "bucket_sizes_correct" of is_invariant: the buckets fit in their table,
\* as long as no reservation is larger than a doubled table has room for
BucketsFit == buckets_size <= buckets_capacity

\* "assert(out.bucket < bucket_array._buckets_size)" in to_index, and the assertion
\* of insert that there is a free item: after growing, the insertion finds memory
InsertInRange == pc = "insert" => first_free # NONE /\ to_index(first_free) \in Memory
=============================================================================
