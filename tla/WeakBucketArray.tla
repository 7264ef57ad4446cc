--------------------------- MODULE WeakBucketArray ---------------------------
(****************************************************************************)
(* Weak_Bucket_Array of weak_bucket_array.h: Buckets where every item has a *)
(* generation, which grows whenever the item is inserted or removed.  A     *)
(* handle holds an index and the generation it was issued with, and is      *)
(* found as long as the two match.                                          *)
(****************************************************************************)
EXTENDS Buckets

CONSTANTS
  USED_BIT,     \* 2^31 in the code; generations have one bit more
  MaxInserts    \* bound: how many items are inserted in all

ASSUME WeakAssumption == USED_BIT \in Nat \ {0} /\ MaxInserts \in Nat

VARIABLES
  generation,   \* of every item of every bucket
  uses,         \* history: how often an item was inserted in its place
  issued        \* history: the handles clients got, and the use they name

history == <<uses, issued>>
vars == <<layout, size, first_free, data, pc, inserting, generation, history>>

WeakInit ==
  /\ Init
  /\ generation = <<>> /\ uses = <<>> /\ issued = {}

Items == DOMAIN generation
Bucket(i) == i \div BUCKET_SIZE

Used(i) == generation[i] >= USED_BIT
UsedItems == {i \in Items : Used(i)}
UnusedItems == {i \in Memory : ~Used(i)}

\* generations += 1, then the bit is set, or cleared
UsedGeneration(g) ==
  LET n == (g + 1) % (2 * USED_BIT)
  IN  IF n >= USED_BIT THEN n ELSE n + USED_BIT
UnusedGeneration(g) == ((g + 1) % (2 * USED_BIT)) % USED_BIT

\* the buckets that were added are set to empty
NewBucketsEmpty ==
  LET all == 0 .. buckets_size' * BUCKET_SIZE - 1
  IN  /\ generation' = [i \in all |-> IF i \in Items THEN generation[i] ELSE 0]
      /\ uses' = [i \in all |-> IF i \in Items THEN uses[i] ELSE 0]

Reserve(n) ==
  /\ ReserveItems(n)
  /\ NewBucketsEmpty /\ UNCHANGED issued

BeginInsert(x) ==
  /\ Cardinality(issued) < MaxInserts
  /\ BeginInsertion(x)
  /\ NewBucketsEmpty /\ UNCHANGED issued

FinishInsert ==
  LET i == to_index(first_free)
  IN  /\ pc = "insert"
      /\ TakeFirstFree(i)
      /\ generation' = [generation EXCEPT ![i] = UsedGeneration(@)]
      /\ uses' = [uses EXCEPT ![i] = @ + 1]
      /\ issued' = issued \cup
           {[index |-> first_free, generation |-> generation'[i], use |-> uses'[i]]}

\* faulty: no generation is compared
FoundAnyGeneration(h) == to_index(h.index) \in Items /\ Used(to_index(h.index))

\* the test of get and remove, made on a handle the array has issued
Found(h) ==
  LET i == to_index(h.index)
  IN  i \in Items /\ Bucket(i) <= size /\ generation[i] = h.generation

\* a handle that is not found leaves the array as it is
Remove(h) ==
  LET i == to_index(h.index)
  IN  /\ pc = "idle" /\ Found(h)
      /\ GiveBack(i, h.index)
      /\ generation' = [generation EXCEPT ![i] = UnusedGeneration(@)]
      /\ UNCHANGED history

\* the destructor knows which buckets were given a block, and sums up the items
\* of the buckets from there to the next such bucket for the block's size
NextBlock(b) ==
  CHOOSE c \in {buckets_size} \cup DOMAIN allocations :
    c > b /\ \A d \in DOMAIN allocations : d > b => c <= d
\* faulty: the sum is not rounded
FreedBytesExact(b) == (NextBlock(b) - b) * BUCKET_SIZE * item_bytes

FreedBytes(b) ==
  (((NextBlock(b) - b) * BUCKET_SIZE * item_bytes) \div BUCKET_GRANULARITY)
    * BUCKET_GRANULARITY

\* a block stays behind when it is deallocated with another size than it has
Destroy ==
  LET lost == {b \in DOMAIN allocations : FreedBytes(b) # allocations[b]}
  IN  /\ pc = "idle"
      /\ pc' = "gone"
      /\ allocations' = [b \in lost |-> allocations[b]]
      /\ UNCHANGED <<buckets_size, buckets_capacity, size, capacity, first_free,
                     data, inserting, generation, history>>

WeakNext ==
  \/ \E n \in ReserveSizes : Reserve(n)
  \/ \E x \in Item : BeginInsert(x)
  \/ FinishInsert
  \/ \E h \in issued : Remove(h)
  \/ Destroy

WeakSpec == WeakInit /\ [][WeakNext]_vars

-----------------------------------------------------------------------------
(* Properties *)

Index == 0 .. Word - 1
Generation == 0 .. 2 * USED_BIT - 1

TypeOK ==
  /\ buckets_size \in Nat /\ buckets_capacity \in Nat
  /\ size \in Nat /\ capacity \in Nat /\ size <= capacity
  /\ first_free \in Index
  /\ Memory \subseteq 0 .. MaxIndex /\ data \in [Memory -> Item \cup Index]
  /\ DOMAIN allocations \subseteq 0 .. buckets_size - 1
  /\ allocations \in [DOMAIN allocations -> Nat]
  /\ pc \in {"idle", "insert", "panic", "gone"} /\ inserting \in Item
  /\ Items = 0 .. buckets_size * BUCKET_SIZE - 1 /\ Memory \subseteq Items
  /\ generation \in [Items -> Generation] /\ uses \in [Items -> Nat]
  /\ issued \subseteq [index : Index, generation : Generation, use : Nat]

\* the free list goes through the memory of exactly the items that are not in use,
\* after any order of removals, insertions and added blocks
FreeListWhole == FreeListIs(UnusedItems)

Current(h) == h.use = uses[to_index(h.index)] /\ Used(to_index(h.index))

\* a stale handle is not found, unless its item was used again so often that
\* the generation has come round: "if the handle is not found or is outdated
\* returns if_not_found instead"
StaleNotFound ==
  \A h \in issued :
    Found(h) /\ uses[to_index(h.index)] - h.use < USED_BIT \div 2 => Current(h)

\* "returns an item given its handle.  If the handle is not found or is outdated
\* returns if_not_found instead": a handle whose item was not removed is found.
\* The code does not keep it, it compares the handle's bucket with the number of
\* items: after removals the items in the last buckets are not found.
LiveFound == \A h \in issued : Current(h) => Found(h)

\* the destructor deallocates every block with the size it was allocated with,
\* "rounding in consistent way"
BlocksFreed == pc = "gone" => allocations = <<>>

-----------------------------------------------------------------------------
(* Refinement *)

Handles == [index : Index, generation : Generation]
LiveHandles == {[index |-> (i + handle_offset) % Word, generation |-> generation[i]] :
                  i \in UsedItems}

\* the items in place, and the handles among theirs that get and remove find
Store == [h \in IF pc = "gone" THEN {} ELSE LiveHandles |-> data[to_index(h.index)]]
FoundHandles == {h \in DOMAIN Store : Found(h)}

LS == INSTANCE LossyStore WITH Handle <- Handles, store <- Store,
                            alive <- pc # "gone", found <- FoundHandles

\* a step changes the store by what the call it belongs to is for
StoreAsCalled ==
  /\ \A h \in issued :
       Remove(h) => LS!RemoveFound([index |-> h.index, generation |-> h.generation])
  /\ FinishInsert =>
       LET i == to_index(first_free)
       IN  LS!InsertItem([index |-> first_free, generation |-> generation'[i]], inserting)
  /\ \/ UNCHANGED <<Store, pc # "gone", FoundHandles>>
     \/ FinishInsert \/ Destroy
     \/ \E h \in issued : Remove(h)

\* An item stays what it is in its place: insert returns a handle no other item
\* has and takes nobody's place, remove takes out the item of its handle and no
\* other, and what get finds under a handle is the item it was returned for.
\* get and remove do not find every handle in use, a removal may hide others
\* until there are more items again (LiveFound).
IsHandleStore == LS!LossySpec /\ [][StoreAsCalled]_vars
=============================================================================
