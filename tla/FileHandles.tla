----------------------------- MODULE FileHandles -----------------------------
(****************************************************************************)
(* Who owns a descriptor of file.h: a File closes it when it is destroyed,  *)
(* and File_Guard_Swap is to close what was opened while it existed and     *)
(* whose File was lost to a long jump. The swap replaces the pointer to the *)
(* table of descriptors and never the size that belongs to it.              *)
(****************************************************************************)
EXTENDS Integers, Sequences, FiniteSets

CONSTANTS
  FileVar,        \* the client's File variables
  Descriptor,     \* the descriptors the system may give, numbers from 0
  GuardSize,      \* the size of the tables of guards
  MaxGuards       \* bound on the guards that are nested

VARIABLES
  files,          \* the descriptor of every File, -1 when it has none
  opened,         \* the descriptors the system has open
  lost,           \* the descriptors whose File a long jump skipped
  table, table_size,   \* *descriptors_ptr() and *descriptors_size_ptr()
  guards          \* the guards alive: their tables and what they replaced

vars == <<files, opened, lost, table, table_size, guards>>

NoTable == <<>>

Init ==
  /\ files = [f \in FileVar |-> -1]
  /\ opened = {} /\ lost = {}
  /\ table = NoTable /\ table_size = 0
  /\ guards = <<>>

\* -1 when no place holds the value, -2 when no guard is set
find_descriptor(value) ==
  LET found == {i \in 1 .. table_size : table[i] = value}
  IN  IF table_size <= 0 \/ table = NoTable THEN -2
      ELSE IF found = {} THEN -1
      ELSE CHOOSE i \in found : \A j \in found : i <= j

Recorded(i, value) == IF i >= 1 THEN [table EXCEPT ![i] = value] ELSE table

open(f, d) ==
  LET i == find_descriptor(-1) IN
  /\ files[f] = -1 /\ d \notin opened
  /\ i # -1
  /\ opened' = opened \cup {d}
  /\ files' = [files EXCEPT ![f] = d]
  /\ table' = Recorded(i, d)
  /\ UNCHANGED <<lost, table_size, guards>>

\* the system refuses, or the table of the guard is full
OpenFails(f) == files[f] = -1 /\ UNCHANGED vars

\* close, or the end of the life of a File
close(f) ==
  /\ files[f] >= 0
  /\ table' = Recorded(find_descriptor(files[f]), -1)
  /\ opened' = opened \ {files[f]}
  /\ files' = [files EXCEPT ![f] = -1]
  /\ UNCHANGED <<lost, table_size, guards>>

\* move construction exchanges the descriptors
Move(f, other) ==
  /\ f # other /\ files[f] = -1
  /\ files' = [files EXCEPT ![f] = files[other], ![other] = files[f]]
  /\ UNCHANGED <<opened, lost, table, table_size, guards>>

\* copy: a second descriptor of the same file
dup(f, from, d) ==
  /\ files[f] = -1 /\ files[from] >= 0 /\ d \notin opened
  /\ opened' = opened \cup {d}
  /\ files' = [files EXCEPT ![f] = d]
  /\ UNCHANGED <<lost, table, table_size, guards>>

\* a File goes out of scope by a long jump
LongJump(f) ==
  /\ guards # <<>> /\ files[f] >= 0
  /\ lost' = lost \cup {files[f]}
  /\ files' = [files EXCEPT ![f] = -1]
  /\ UNCHANGED <<opened, table, table_size, guards>>

GuardBegin ==
  /\ Len(guards) < MaxGuards
  /\ guards' = Append(guards, [old |-> table, old_size |-> table_size])
  /\ table' = [i \in 1 .. GuardSize |-> -1]
  /\ UNCHANGED <<files, opened, lost, table_size>>

GuardEnd ==
  LET guard == guards[Len(guards)]
      held == {table[i] : i \in 1 .. GuardSize} \ {-1}
  IN  /\ guards # <<>>
      /\ opened' = opened \ held
      /\ lost' = lost \ held
      /\ table' = guard.old /\ table_size' = guard.old_size
      /\ guards' = SubSeq(guards, 1, Len(guards) - 1)
      /\ UNCHANGED files

Next ==
  \/ \E f \in FileVar : OpenFails(f) \/ close(f) \/ LongJump(f)
  \/ \E f \in FileVar, d \in Descriptor : open(f, d)
  \/ \E f, other \in FileVar : Move(f, other)
  \/ \E f, from \in FileVar, d \in Descriptor : dup(f, from, d)
  \/ GuardBegin \/ GuardEnd

Spec == Init /\ [][Next]_vars

-----------------------------------------------------------------------------
Owned == {files[f] : f \in FileVar} \ {-1}

\* Every open descriptor belongs to one File, or its File was skipped by a long
\* jump: no move, copy, close or guard closes a descriptor that is in use, and
\* none but a long jump forgets one.
DescriptorsOwned ==
  /\ opened = Owned \cup lost /\ Owned \cap lost = {}
  /\ \A f, g \in FileVar : f # g /\ files[f] >= 0 => files[f] # files[g]

\* Outside of all guards the table is the one the program began with.
GuardsRestore == guards = <<>> => table = NoTable /\ table_size = 0
=============================================================================
