--------------------------- MODULE ResizeProtocol ---------------------------
(****************************************************************************)
(* The three functions memory_resize_allocate, _undo and _deallocate, as    *)
(* the set_capacity of memory.h calls them: N arrays that must share one    *)
(* capacity are resized through one allocator, any of whose allocations may *)
(* fail. With N = 1 it is reallocate.                                       *)
(****************************************************************************)
EXTENDS Integers, Sequences, Functions

CONSTANTS
  N,           \* the number of arrays
  Sizes,       \* the capacities asked for, 0 among them
  Pointers     \* the addresses the allocator may give

VARIABLES
  arrays,      \* the block and the capacity of every array
  held,        \* the blocks the allocator has given: what their bytes hold
  written,     \* the places of an array that the client has written
  phase, at,   \* the step of set_capacity, and the array it works on
  ok,          \* s1 && s2 && s3
  new_size, new    \* the capacity asked for, and the blocks obtained for it

vars == <<arrays, held, written, phase, at, ok, new_size, new>>

Null == 0
Unset == <<0, 0>>
Arrays == 1 .. N

Init ==
  /\ arrays = [a \in Arrays |-> [data |-> Null, size |-> 0]]
  /\ held = [p \in {} |-> <<>>]
  /\ written = [a \in Arrays |-> {}]
  /\ phase = "idle" /\ at = 1 /\ ok = TRUE
  /\ new_size = 0 /\ new = [a \in Arrays |-> Null]

\* the client stores into every place of one array
Write(a) ==
  /\ phase = "idle" /\ arrays[a].data # Null
  /\ held' = [held EXCEPT ![arrays[a].data] = [i \in 1 .. arrays[a].size |-> <<a, i>>]]
  /\ written' = [written EXCEPT ![a] = 1 .. arrays[a].size]
  /\ UNCHANGED <<arrays, phase, at, ok, new_size, new>>

\* destroy_extra: the places beyond the new capacity hold nothing from here on
Begin(n) ==
  /\ phase = "idle"
  /\ phase' = "allocate" /\ at' = 1 /\ ok' = TRUE
  /\ new_size' = n /\ new' = [a \in Arrays |-> Null]
  /\ written' = [a \in Arrays |-> {i \in written[a] : i <= n}]
  /\ UNCHANGED <<arrays, held>>

\* a block of n bytes that begins with those of `bytes`
Sized(bytes, n) == [i \in 1 .. n |-> IF i <= Len(bytes) THEN bytes[i] ELSE Unset]

Advance(next) ==
  IF at = N THEN phase' = next /\ at' = 1 ELSE phase' = phase /\ at' = at + 1

\* memory_resize_allocate returned for one array
Obtained(pointer, success) ==
  /\ phase = "allocate"
  /\ new' = [new EXCEPT ![at] = pointer]
  /\ ok' = (ok /\ success)
  /\ Advance(IF ok' THEN "copy" ELSE "undo")
  /\ UNCHANGED <<arrays, written, new_size>>

ObtainNothing ==
  /\ new_size = 0
  /\ Obtained(Null, TRUE) /\ UNCHANGED held

ObtainResized ==
  /\ phase = "allocate"
  /\ new_size # 0 /\ arrays[at].data # Null /\ arrays[at].size # 0
  /\ held' = [held EXCEPT ![arrays[at].data] = Sized(@, new_size)]
  /\ Obtained(arrays[at].data, TRUE)

\* at the lowest address that is free
ObtainMoved(p) ==
  /\ phase = "allocate"
  /\ new_size # 0 /\ p \notin DOMAIN held
  /\ \A q \in Pointers \ DOMAIN held : p <= q
  /\ held' = [q \in DOMAIN held \cup {p} |-> IF q = p THEN Sized(<<>>, new_size) ELSE held[q]]
  /\ Obtained(p, TRUE)

ObtainFails ==
  /\ new_size # 0
  /\ Obtained(Null, FALSE) /\ UNCHANGED held

Freed(p) == Restrict(held, DOMAIN held \ {p})

\* mutant: leaves a block that was resized in place as it is
UndoMovedOnly ==
  /\ phase = "undo"
  /\ held' = IF new[at] \in {Null, arrays[at].data} THEN held ELSE Freed(new[at])
  /\ Advance("idle")
  /\ UNCHANGED <<arrays, written, ok, new_size, new>>

\* memory_resize_undo of one array. The allocator grants to resize a block
\* back to the size it had.
Undo ==
  /\ phase = "undo"
  /\ held' = IF new[at] = Null THEN held
             ELSE IF new[at] = arrays[at].data
             THEN [held EXCEPT ![new[at]] = Sized(@, arrays[at].size)]
             ELSE Freed(new[at])
  /\ Advance("idle")
  /\ UNCHANGED <<arrays, written, ok, new_size, new>>

Smaller(a, b) == IF a < b THEN a ELSE b

\* the bytes of a block, if the allocator still holds it
Contents(p) == IF p \in DOMAIN held THEN held[p] ELSE <<>>

Copy ==
  LET old == arrays[at] IN
  /\ phase = "copy"
  /\ held' = IF new[at] = old.data \/ new[at] = Null THEN held
             ELSE [held EXCEPT ![new[at]] =
                     Sized(SubSeq(Contents(old.data), 1, Smaller(old.size, new_size)), new_size)]
  /\ Advance("deallocate")
  /\ UNCHANGED <<arrays, written, ok, new_size, new>>

\* memory_resize_deallocate of one array, and the result after the last
Deallocate ==
  LET old == arrays[at] IN
  /\ phase = "deallocate"
  /\ held' = IF old.size # 0 /\ (new_size = 0 \/ new[at] # old.data) THEN Freed(old.data) ELSE held
  /\ Advance("idle")
  /\ arrays' = IF at = N THEN [a \in Arrays |-> [data |-> new[a], size |-> new_size]] ELSE arrays
  /\ UNCHANGED <<written, ok, new_size, new>>

Next ==
  \/ \E a \in Arrays : Write(a)
  \/ \E n \in Sizes : Begin(n)
  \/ ObtainNothing \/ ObtainResized \/ ObtainFails
  \/ \E p \in Pointers : ObtainMoved(p)
  \/ Undo \/ Copy \/ Deallocate

Spec == Init /\ [][Next]_vars

-----------------------------------------------------------------------------
\* Whether it succeeded or was undone half way, a call leaves exactly one
\* block per array, of the capacity all the arrays share: nothing leaks and
\* the sizes a later deallocate passes are those the allocator knows.
BlocksMatch ==
  phase = "idle" =>
    /\ \A a, b \in Arrays : arrays[a].size = arrays[b].size
    /\ \A a \in Arrays : (arrays[a].data = Null) = (arrays[a].size = 0)
    /\ \A a, b \in Arrays : arrays[a].data = arrays[b].data /\ a # b => arrays[a].data = Null
    /\ DOMAIN held = {arrays[a].data : a \in Arrays} \ {Null}
    /\ \A a \in Arrays : arrays[a].data # Null => Len(held[arrays[a].data]) = arrays[a].size

\* What the client wrote and did not give up is still there, in a block that
\* moved, one that was resized and back, and one that stayed.
ContentsKept ==
  phase = "idle" => \A a \in Arrays : \A i \in written[a] : held[arrays[a].data][i] = <<a, i>>
=============================================================================
