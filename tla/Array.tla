-------------------------------- MODULE Array --------------------------------
(****************************************************************************)
(* Array<T>: the items at the front of a block of cells. As a dynamic       *)
(* string it has a trivial T and keeps a null after the last item, in one   *)
(* cell more than its capacity; an array without a block then points to a   *)
(* terminator that all arrays share and that must not be written.           *)
(****************************************************************************)
EXTENDS Integers, Sequences

CONSTANTS
  IsString,     \* is_string_char<T>
  Item, Given, MaxItems,
  Capacities,   \* the capacities a client sets
  Anywhere      \* whether a client inserts anywhere

VARIABLES
  data,         \* the cells of the block
  size, capacity,
  stopped       \* the out of memory handler was called

vars == <<data, size, capacity, stopped>>

Zero == "null"       \* the terminator
Raw == "raw"         \* a cell that holds no item
Moved == "moved"     \* a cell whose item was moved out

Cells(cap) == IF cap = 0 THEN 0 ELSE IF IsString THEN cap + 1 ELSE cap

null_terminate(cells, n) ==
  IF IsString /\ n \in DOMAIN cells THEN [cells EXCEPT ![n] = Zero] ELSE cells

Init ==
  /\ data = [i \in {} |-> Raw] /\ size = 0 /\ capacity = 0 /\ stopped = FALSE

Smaller(a, b) == IF a < b THEN a ELSE b

\* cells [from, to) destroyed, where T has a destructor
destruct_items(cells, from, to) ==
  IF IsString THEN cells
  ELSE [i \in DOMAIN cells |-> IF from <= i /\ i < to THEN Raw ELSE cells[i]]

\* the block after its capacity is set: the items that fit, in the same place
\* or moved to another one
SetTo(cap) ==
  null_terminate([i \in 0 .. Cells(cap) - 1 |-> IF i < Smaller(size, cap) THEN data[i] ELSE Raw],
                 Smaller(size, cap))

\* mutant: a smaller capacity leaves the size as it is
set_capacity_keeping_size(cap) ==
  /\ data' = SetTo(cap)
  /\ size' = size
  /\ capacity' = cap
  /\ UNCHANGED stopped

set_capacity(cap) ==
  /\ data' = SetTo(cap)
  /\ size' = Smaller(size, cap)
  /\ capacity' = cap
  /\ UNCHANGED stopped

\* the allocation failed and nothing has changed
set_capacity_failing(cap) == cap # 0 /\ UNCHANGED vars

OutOfMemory(cap) == cap > capacity /\ stopped' = TRUE /\ UNCHANGED <<data, size, capacity>>

\* The capacity that holds to_fit items, growing by half and eight.
Grown(to_fit) ==
  LET step[n \in 0 .. to_fit * 2 + 8] == IF n < to_fit THEN step[(n * 3) \div 2 + 8] ELSE n
  IN  IF capacity >= to_fit THEN capacity ELSE step[size]

Reserved(to_size) == IF capacity >= to_size THEN capacity ELSE to_size

\* the block an operation works on, once it has grown to capacity cap
Block(cap) == IF cap = capacity THEN data ELSE SetTo(cap)

\* an operation that leaves these cells and this many items
Leave(cap, cells, n) ==
  /\ data' = null_terminate(cells, n)
  /\ size' = n
  /\ capacity' = cap
  /\ UNCHANGED stopped

\* cells with xs constructed from `from` on
Placed(cells, from, xs) ==
  [i \in DOMAIN cells |-> IF from <= i /\ i < from + Len(xs) THEN xs[i - from + 1] ELSE cells[i]]

\* An operation that may end with nothing to add or to keep writes the
\* terminator even when the array has none of its own: clients avoid it.
TerminatorOwned == IsString => capacity > 0

push(x) ==
  LET cap == Grown(size + 1) IN Leave(cap, Placed(Block(cap), size, <<x>>), size + 1)

push_multiple(xs) ==
  LET cap == Grown(size + Len(xs)) IN
  /\ Len(xs) = 0 => TerminatorOwned
  /\ Leave(cap, Placed(Block(cap), size, xs), size + Len(xs))

pop == size > 0 /\ Leave(capacity, destruct_items(data, size - 1, size), size - 1)

pop_multiple(count) ==
  /\ count <= size /\ TerminatorOwned
  /\ Leave(capacity, destruct_items(data, size - count, size), size - count)

resize(to, fill_with) ==
  LET cap == Reserved(to)
      filled == Placed(Block(cap), size, [i \in 1 .. to - size |-> fill_with])
  IN  /\ to = 0 => TerminatorOwned
      /\ Leave(cap, destruct_items(filled, to, size), to)

resize_for_overwrite(to) ==
  LET cap == Reserved(to) IN
  /\ IsString /\ (to = 0 => TerminatorOwned)
  /\ Leave(cap, Block(cap), to)

copy(xs) ==
  LET cap == Reserved(Len(xs)) IN
  Leave(cap, destruct_items(Placed(Block(cap), 0, xs), Len(xs), size), Len(xs))

\* The last item is moved to a new cell, then the loop moves items one cell
\* up, beginning with the cell before the one that was the last.
Shifted(cells, at) ==
  LET created == [cells EXCEPT ![size] = cells[size - 1], ![size - 1] = Moved]
  IN  [i \in DOMAIN cells |->
         IF at + 1 <= i /\ i <= size - 2 THEN created[i - 1] ELSE created[i]]

\* The places at which a client inserts. The code keeps every item only when
\* it inserts in front of the last one or behind it.
InsertPlaces == {n \in 0 .. size : Anywhere \/ n >= size - 1}

insert(at, x) ==
  LET cap == Grown(size + 1) IN
  IF at >= size THEN push(x)
  ELSE Leave(cap, [Shifted(Block(cap), at) EXCEPT ![at] = x], size + 1)

\* mutant: the last item is not moved down
remove_short(at) ==
  LET closed == [i \in DOMAIN data |-> IF at <= i /\ i < size - 2 THEN data[i + 1] ELSE data[i]]
  IN  at < size /\ Leave(capacity, destruct_items(closed, size - 1, size), size - 1)

remove(at) ==
  LET closed == [i \in DOMAIN data |-> IF at <= i /\ i < size - 1 THEN data[i + 1] ELSE data[i]]
  IN  at < size /\ Leave(capacity, destruct_items(closed, size - 1, size), size - 1)

unordered_remove(at) ==
  LET swapped == [data EXCEPT ![at] = data[size - 1], ![size - 1] = data[at]]
  IN  Leave(capacity, destruct_items(swapped, size - 1, size), size - 1)

unordered_insert(at, x) ==
  LET cap == Grown(size + 1)
      pushed == Placed(Block(cap), size, <<x>>)
  IN  Leave(cap, [pushed EXCEPT ![at] = x, ![size] = pushed[at]], size + 1)

Next ==
  /\ ~stopped
  /\ \/ \E cap \in Capacities : set_capacity(cap) \/ set_capacity_failing(cap) \/ OutOfMemory(cap)
     \/ /\ size < MaxItems
        /\ \E x \in Item :
             \/ push(x)
             \/ \E at \in InsertPlaces : insert(at, x)
             \/ \E at \in 0 .. size : unordered_insert(at, x)
     \/ \E xs \in Given : size + Len(xs) <= MaxItems /\ push_multiple(xs)
     \/ \E xs \in Given : copy(xs)
     \/ pop
     \/ \E n \in 0 .. size : pop_multiple(n)
     \/ \E n \in 0 .. MaxItems, x \in Item : resize(n, x)
     \/ \E n \in 0 .. size : resize_for_overwrite(n)   \* growing: as resize, with what the client writes
     \/ \E at \in 0 .. size - 1 : remove(at) \/ unordered_remove(at)

Spec == Init /\ [][Next]_vars

items == [i \in 1 .. size |-> data[i - 1]]
Abstract == INSTANCE ItemSequence

-----------------------------------------------------------------------------
\* The cells of the items hold items, none that was moved out, and those
\* behind them hold none: no item is used after its end or never destroyed.
Lifetimes ==
  \A i \in DOMAIN data :
    IF i < size THEN data[i] \in Item ELSE IsString \/ data[i] = Raw

\* A string ends with a null inside its block after every operation.
Terminated == IsString /\ capacity > 0 => data[size] = Zero

\* The block is as large as the allocator is told when it is freed.
CapacityKept ==
  /\ DOMAIN data = 0 .. Cells(capacity) - 1
  /\ size <= capacity

\* Each operation makes of the sequence of items what its comment says of it; the
\* insertion in order only at InsertPlaces.
Follows ==
  /\ \A cap \in Capacities :
       /\ set_capacity(cap) => Abstract!Truncate(Smaller(size, cap))
       /\ set_capacity_failing(cap) \/ OutOfMemory(cap) => UNCHANGED items
  /\ \A x \in Item :
       /\ push(x) => Abstract!Push(x)
       /\ \A at \in InsertPlaces : insert(at, x) => Abstract!Insert(at, x)
       /\ \A at \in 0 .. size : unordered_insert(at, x) => Abstract!UnorderedInsert(at, x)
       /\ \A n \in 0 .. MaxItems : resize(n, x) => Abstract!Fill(n, x)
  /\ \A xs \in Given :
       /\ push_multiple(xs) => Abstract!PushMultiple(xs)
       /\ copy(xs) => Abstract!Copy(xs)
  /\ pop => Abstract!Truncate(size - 1)
  /\ \A n \in 0 .. size :
       /\ pop_multiple(n) => Abstract!Truncate(size - n)
       /\ resize_for_overwrite(n) => Abstract!Truncate(n)
  /\ \A at \in 0 .. size - 1 :
       /\ remove(at) => Abstract!TakeOut(at)
       /\ unordered_remove(at) => Abstract!UnorderedRemove(at)
ItemsFollow == [][Follows]_vars
=============================================================================
