---------------------------- MODULE WindowsBuffer ----------------------------
(****************************************************************************)
(* WIO_Buffer of io_windows.h: items in a block of the heap, or in a local  *)
(* buffer as long as they fit, with room for a zero item behind the last.   *)
(* A resize that leaves the local buffer does not take its items along.     *)
(****************************************************************************)
EXTENDS Integers, Sequences

CONSTANTS
  Item,         \* items a client pushes
  Backings,     \* the capacities of local buffers, 0 without one
  FirstCapacity,   \* the least capacity from the heap
  MaxItems

VARIABLES
  data,         \* the cells
  size, capacity, is_alloced,
  blocks,       \* the blocks held from the heap
  pushed        \* what the client has pushed since the buffer was empty

vars == <<data, size, capacity, is_alloced, blocks, pushed>>

Zero == "zero"
Garbage == "garbage"

Init ==
  /\ capacity \in Backings
  /\ data = [i \in 0 .. capacity - 1 |-> Zero]
  /\ size = 0 /\ is_alloced = FALSE
  /\ blocks = 0 /\ pushed = <<>>

\* the least capacity with room for n items and a zero
Enough(n) ==
  LET doubled[c \in 1 .. 2 * (MaxItems + FirstCapacity + 2)] == IF c < n + 1 THEN doubled[c * 2] ELSE c
  IN  doubled[FirstCapacity]

\* the cells after a resize to n items: those of a block of the heap are kept,
\* those beyond the old capacity are zero, and so is the one behind the items
Resized(n) ==
  LET grown == IF n >= capacity THEN Enough(n) ELSE capacity
      kept(i) == IF i >= capacity THEN Zero
                 ELSE IF n < capacity \/ is_alloced THEN data[i] ELSE Garbage
  IN  [i \in 0 .. grown - 1 |-> IF i = n THEN Zero ELSE kept(i)]

\* the whole buffer, with these cells and n items, after a resize to `room`
Take(cells, room, n) ==
  /\ data' = cells
  /\ size' = n
  /\ capacity' = IF room >= capacity THEN Enough(room) ELSE capacity
  /\ is_alloced' = (is_alloced \/ room >= capacity)
  /\ blocks' = IF room >= capacity /\ ~is_alloced THEN blocks + 1 ELSE blocks

\* the cells with text at the front
Written(cells, text) ==
  [i \in DOMAIN cells |-> IF i < Len(text) THEN text[i + 1] ELSE cells[i]]

\* a resize to what a conversion is going to write
Convert(text) ==
  /\ Take(Written(Resized(Len(text)), text), Len(text), Len(text))
  /\ pushed' = text

\* each part is moved behind the one before, any of them may be missing
wio_w_concat(a, b, c) == Convert(a \o b \o c)

\* room for a path and more, in which the normalised path is written with a
\* terminator, and a resize to what it has needed
wio_normalize_allocate_path(room, normalized) ==
  LET cells == Written(Resized(room), Append(normalized, Zero)) IN
  /\ Len(normalized) < room
  /\ Take([cells EXCEPT ![Len(normalized)] = Zero], room, Len(normalized))
  /\ pushed' = normalized

\* Every buffer to which the code pushes has no room in its local buffer.
push(item) ==
  /\ capacity = 0 \/ is_alloced
  /\ Take([Resized(size + 1) EXCEPT ![size] = item], size + 1, size + 1)
  /\ pushed' = Append(pushed, item)

pop ==
  /\ size > 0
  /\ size' = size - 1
  /\ pushed' = SubSeq(pushed, 1, size - 1)
  /\ UNCHANGED <<data, capacity, is_alloced, blocks>>

deinit ==
  /\ data' = [i \in {} |-> Zero] /\ size' = 0 /\ capacity' = 0 /\ is_alloced' = FALSE
  /\ blocks' = IF is_alloced THEN blocks - 1 ELSE blocks
  /\ pushed' = <<>>

Next ==
  \/ \E n \in 0 .. MaxItems : \E text \in [1 .. n -> Item] :
       \/ Convert(text)
       \/ wio_normalize_allocate_path(MaxItems + 1, text)
       \/ \E i \in 0 .. n : wio_w_concat(SubSeq(text, 1, i), SubSeq(text, i + 1, n), <<>>)
  \/ \E item \in Item : size < MaxItems /\ push(item)
  \/ pop
  \/ deinit

Spec == Init /\ [][Next]_vars

-----------------------------------------------------------------------------
\* The client reads back what it wrote and pushed, from a local buffer, from a
\* block and after moving from the one to the other; a string that was written
\* ends with a zero inside the buffer; one block is held at most.
BufferSound ==
  /\ \A i \in 1 .. size : data[i - 1] = pushed[i]
  /\ capacity > 0 => size < capacity
  /\ DOMAIN data = 0 .. capacity - 1
  /\ blocks = (IF is_alloced THEN 1 ELSE 0)
=============================================================================
