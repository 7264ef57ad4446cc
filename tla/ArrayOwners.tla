---------------------------- MODULE ArrayOwners ----------------------------
(****************************************************************************)
(* Several Array variables, the blocks they own and the allocators those    *)
(* come from: constructors, assignments, swap and destructors, while an     *)
(* Allocator_Swap may exchange the default allocator in between. An array   *)
(* frees its block through the allocator it remembers.                      *)
(****************************************************************************)
EXTENDS Integers, Sequences, FiniteSets

CONSTANTS
  Var,          \* the client's arrays
  Allocator, Malloc,
  IsString, Given, Capacities,
  MaxSwaps      \* Allocator_Swaps in nested scopes

VARIABLES
  arrays,       \* of the variables that are in scope
  heap,         \* the blocks allocated, and what their cells hold
  default,      \* the default allocator
  swaps,        \* old_allocator of the Allocator_Swaps in scope
  wrong         \* a block was freed through another allocator or with another size

vars == <<arrays, heap, default, swaps, wrong>>

None == -1      \* no block, or the terminator that strings share
Raw == "raw"

Empty(a) == [data |-> None, size |-> 0, capacity |-> 0, allocator |-> a]
Bytes(cap) == IF IsString THEN cap + 1 ELSE cap

Init ==
  /\ arrays = [v \in {} |-> Empty(Malloc)]
  /\ heap = [b \in {} |-> Empty(Malloc)]
  /\ default = Malloc /\ swaps = <<>> /\ wrong = FALSE

Fresh == CHOOSE b \in 0 .. Cardinality(Var) : b \notin DOMAIN heap

\* the items of an array
Items(a) == IF a.data = None THEN <<>> ELSE SubSeq(heap[a.data].cells, 1, a.size)

FreedWrongly(a) ==
  /\ a.capacity # 0
  /\ \/ a.data \notin DOMAIN heap
     \/ heap[a.data].from # a.allocator \/ heap[a.data].bytes # Bytes(a.capacity)

Without(f, x) == [y \in DOMAIN f \ {x} |-> f[y]]
With(f, x, e) == [y \in DOMAIN f \cup {x} |-> IF y = x THEN e ELSE f[y]]

\* xs in cap cells
Filled(xs, cap) == [i \in 1 .. cap |-> IF i <= Len(xs) THEN xs[i] ELSE Raw]

\* Array a left with items xs and capacity cap, as variable v. Where the
\* capacity changes the block does, in its place or to another one.
Store(v, a, xs, cap) ==
  LET at == IF cap = a.capacity THEN {a.data}
            ELSE IF cap = 0 THEN {None}
            ELSE IF a.capacity = 0 THEN {Fresh} ELSE {a.data, Fresh}
      kept == IF cap = a.capacity THEN heap ELSE Without(heap, a.data)
  IN  \E b \in at :
        /\ arrays' = With(arrays, v, [a EXCEPT !.data = b, !.size = Len(xs), !.capacity = cap])
        /\ heap' = IF b = None THEN kept
                   ELSE With(kept, b, [from |-> a.allocator, bytes |-> Bytes(cap), cells |-> Filled(xs, cap)])
        /\ wrong' = (wrong \/ (cap # a.capacity /\ FreedWrongly(a)))
        /\ UNCHANGED <<default, swaps>>

AtLeast(cap, n) == IF cap >= n THEN cap ELSE n

\* Array(allocator), or Array() with the default one
construct(v, allocator) ==
  /\ v \notin DOMAIN arrays
  /\ arrays' = With(arrays, v, Empty(allocator))
  /\ UNCHANGED <<heap, default, swaps, wrong>>

\* mutant: the block goes back to the default allocator
destruct_to_default(v) ==
  LET a == [arrays[v] EXCEPT !.allocator = default] IN
  /\ arrays' = Without(arrays, v)
  /\ heap' = IF a.capacity # 0 THEN Without(heap, a.data) ELSE heap
  /\ wrong' = (wrong \/ FreedWrongly(a))
  /\ UNCHANGED <<default, swaps>>

destruct(v) ==
  LET a == arrays[v] IN
  /\ arrays' = Without(arrays, v)
  /\ heap' = IF a.capacity # 0 THEN Without(heap, a.data) ELSE heap
  /\ wrong' = (wrong \/ FreedWrongly(a))
  /\ UNCHANGED <<default, swaps>>

\* the block outlives what it holds, and only grows
copy(v, a, xs) == Store(v, a, xs, AtLeast(a.capacity, Len(xs)))

own(v, xs, allocator) == v \notin DOMAIN arrays /\ copy(v, Empty(allocator), xs)

copy_construct(v, other) ==
  v \notin DOMAIN arrays /\ copy(v, Empty(default), Items(arrays[other]))

\* the target keeps its allocator, and may be the source
copy_assign(v, other) == v \in DOMAIN arrays /\ copy(v, arrays[v], Items(arrays[other]))

\* mutant: the allocators stay where they are
swap_blocks(v, target, other) ==
  /\ arrays' = With(With(arrays, other, [target EXCEPT !.allocator = arrays[other].allocator]),
                    v, [arrays[other] EXCEPT !.allocator = target.allocator])
  /\ UNCHANGED <<heap, default, swaps, wrong>>

\* two arrays exchange all they have, their allocators too
swap(v, target, other) ==
  /\ arrays' = With(With(arrays, other, target), v, arrays[other])
  /\ UNCHANGED <<heap, default, swaps, wrong>>

move_construct(v, other) == v \notin DOMAIN arrays /\ swap(v, Empty(default), other)

move_assign(v, other) == v \in DOMAIN arrays /\ swap(v, arrays[v], other)

set_capacity(v, cap) ==
  LET a == arrays[v]
      n == IF cap < a.size THEN cap ELSE a.size
  IN  Store(v, a, SubSeq(Items(a), 1, n), cap)

\* Allocator_Swap
Exchange(allocator) ==
  /\ Len(swaps) < MaxSwaps
  /\ default' = allocator
  /\ swaps' = Append(swaps, default)
  /\ UNCHANGED <<arrays, heap, wrong>>

Restore ==
  /\ swaps # <<>>
  /\ default' = swaps[Len(swaps)]
  /\ swaps' = SubSeq(swaps, 1, Len(swaps) - 1)
  /\ UNCHANGED <<arrays, heap, wrong>>

Next ==
  \/ \E v \in Var, a \in Allocator : construct(v, a) \/ (\E xs \in Given : own(v, xs, a))
  \/ \E v \in Var, other \in DOMAIN arrays :
       copy_construct(v, other) \/ copy_assign(v, other) \/ move_construct(v, other) \/ move_assign(v, other)
  \/ \E v \in DOMAIN arrays : destruct(v) \/ (\E cap \in Capacities : set_capacity(v, cap))
  \/ \E a \in Allocator : Exchange(a)
  \/ Restore

Spec == Init /\ [][Next]_vars

-----------------------------------------------------------------------------
\* Every block belongs to one array, which remembers the allocator it is from
\* and the size it was allocated with, and was never freed in any other way.
BlocksOwned ==
  /\ ~wrong
  /\ \A b \in DOMAIN heap : Cardinality({v \in DOMAIN arrays : arrays[v].data = b}) = 1
  /\ \A v \in DOMAIN arrays : LET a == arrays[v] IN
       /\ (a.capacity = 0) = (a.data = None)
       /\ a.data # None => a.data \in DOMAIN heap /\ ~FreedWrongly(a)

\* Once every Allocator_Swap is out of scope the default is the first one.
DefaultRestored == swaps = <<>> => default = Malloc

values == [v \in DOMAIN arrays |-> Items(arrays[v])]

\* Arrays are values: an assignment or a constructor gives the target the items of
\* the other one, which a move leaves with those of the target or none; each
\* operation leaves all other arrays as they are.
ValueStep ==
  /\ \A v \in Var, a \in Allocator :
       /\ construct(v, a) => values' = With(values, v, <<>>)
       /\ \A xs \in Given : own(v, xs, a) => values' = With(values, v, xs)
  /\ \A v \in Var, other \in DOMAIN arrays :
       /\ copy_construct(v, other) \/ copy_assign(v, other) => values' = With(values, v, values[other])
       /\ move_construct(v, other) => values' = With(With(values, other, <<>>), v, values[other])
       /\ move_assign(v, other) => values' = With(With(values, other, values[v]), v, values[other])
  /\ \A v \in DOMAIN arrays :
       /\ destruct(v) => values' = Without(values, v)
       /\ \A cap \in Capacities : set_capacity(v, cap) =>
            values' = With(values, v, SubSeq(values[v], 1, IF cap < Len(values[v]) THEN cap ELSE Len(values[v])))
  /\ (\E a \in Allocator : Exchange(a)) \/ Restore => UNCHANGED values
=============================================================================
