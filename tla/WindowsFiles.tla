---------------------------- MODULE WindowsFiles ----------------------------
(****************************************************************************)
(* The files of io_windows.h: handles and who closes them, the loops around *)
(* ReadFile and WriteFile, the position, and the operations on names. The   *)
(* system's own functions are modelled by what the code relies on. A byte   *)
(* is a number, 0 in a part of a file that was never written.               *)
(****************************************************************************)
EXTENDS Integers, Sequences, FiniteSets

CONSTANTS
  Path,          \* the normalised names of files
  FileVar,       \* the client's File objects
  Handle,        \* the handles the system gives, numbers
  INVALID,       \* INVALID_HANDLE_VALUE
  Modes,         \* the open modes a client asks for
  Given,         \* the sequences of bytes a client writes
  MaxSize,       \* bound on the length of a file
  MASK_LOW       \* what stands for 0x100000; 0x800000 is eight times as much

VARIABLES
  disk,          \* the files by name, and their bytes
  files,         \* the handle of every File
  handles,       \* what the system has open: name, position and mode
  call,          \* the read or write in progress
  buffer, state  \* its buffer and File_IO_State

vars == <<disk, files, handles, call, buffer, state>>

NoCall == [of |-> "none"]
Smaller(a, b) == IF a < b THEN a ELSE b

Init ==
  /\ disk = [p \in {} |-> <<>>]
  /\ files = [f \in FileVar |-> INVALID]
  /\ handles = [h \in {} |-> <<>>]
  /\ call = NoCall /\ buffer = <<>> /\ state = "ok"

is_open(f) == files[f] # INVALID
At(f) == handles[files[f]]
Idle == call = NoCall

-----------------------------------------------------------------------------
(* handles *)

\* the sharing the system demands between two handles of one file
Shares(a, b) == (b.reads => a.other_reads) /\ (b.writes => a.other_writes)

Allowed(p, mode) ==
  \A h \in DOMAIN handles : handles[h].path = p =>
    Shares(handles[h].mode, mode) /\ Shares(mode, handles[h].mode)

\* CREATE wins over CREATE_ELSE_FAIL, which wins over an existing file
Disposition(mode) ==
  IF mode.create THEN "open_always" ELSE IF mode.create_else_fail THEN "create_new" ELSE "open_existing"

CreateFileW(p, mode) ==
  /\ CASE Disposition(mode) = "create_new" -> p \notin DOMAIN disk
       [] Disposition(mode) = "open_existing" -> p \in DOMAIN disk
       [] OTHER -> TRUE
  /\ Allowed(p, mode)

Opened(p) == [q \in DOMAIN disk \cup {p} |-> IF q \in DOMAIN disk THEN disk[q] ELSE <<>>]

file_open(f, p, mode) ==
  /\ Idle /\ ~is_open(f) /\ CreateFileW(p, mode)
  /\ \E h \in Handle \ DOMAIN handles :
       /\ \A g \in Handle \ DOMAIN handles : h <= g
       /\ handles' = [g \in DOMAIN handles \cup {h} |->
                        IF g = h THEN [path |-> p, position |-> 0, mode |-> mode] ELSE handles[g]]
       /\ files' = [files EXCEPT ![f] = h]
  /\ disk' = Opened(p)
  /\ UNCHANGED <<call, buffer, state>>

\* file_close, and the destructor
file_close(f) ==
  /\ Idle /\ is_open(f)
  /\ handles' = [h \in DOMAIN handles \ {files[f]} |-> handles[h]]
  /\ files' = [files EXCEPT ![f] = INVALID]
  /\ UNCHANGED <<disk, call, buffer, state>>

\* a File constructed from another one
MoveConstruct(f, other) ==
  /\ Idle /\ f # other /\ ~is_open(f)
  /\ files' = [files EXCEPT ![f] = files[other], ![other] = INVALID]
  /\ UNCHANGED <<disk, handles, call, buffer, state>>

\* assignment exchanges the handles and leaves the modes where they are
MoveAssign(f, other) ==
  /\ Idle /\ f # other
  /\ files' = [files EXCEPT ![f] = files[other], ![other] = files[f]]
  /\ UNCHANGED <<disk, handles, call, buffer, state>>

-----------------------------------------------------------------------------
(* reading and writing *)

\* remaining_size & 0x8FFFFF
Masked(remaining) ==
  (remaining % MASK_LOW) + (IF (remaining \div (8 * MASK_LOW)) % 2 = 1 THEN 8 * MASK_LOW ELSE 0)

Begin(f, of, size, bytes) ==
  /\ Idle /\ is_open(f)
  /\ call' = [of |-> of, file |-> f, size |-> size, processed |-> 0,
              from |-> At(f).position, before |-> disk[At(f).path]]
  /\ buffer' = bytes
  /\ state' = "ok"
  /\ UNCHANGED <<disk, files, handles>>

BeginRead(f, size) == Begin(f, "read", size, [i \in 1 .. size |-> 0])
BeginWrite(f, bytes) == Begin(f, "write", Len(bytes), bytes)

\* a call on a File that is not open processes nothing
IoOnClosed(f) ==
  /\ Idle /\ ~is_open(f)
  /\ state' = "file_closed"
  /\ UNCHANGED <<disk, files, handles, call, buffer>>

Requested == Masked(call.size - call.processed)
Content == disk[At(call.file).path]
Position == At(call.file).position
InCall(of) == call.of = of /\ call.processed < call.size /\ state = "ok"

Transferred(n) ==
  /\ call' = [call EXCEPT !.processed = @ + n]
  /\ handles' = [handles EXCEPT ![files[call.file]].position = @ + n]

\* ReadFile has read n bytes: none at the end of the file, or when it is asked
\* for none
ReadFile(n) ==
  LET most == Smaller(Requested, IF Len(Content) > Position THEN Len(Content) - Position ELSE 0) IN
  /\ InCall("read") /\ At(call.file).mode.reads
  /\ n <= most /\ (n = 0 => most = 0)
  /\ buffer' = [i \in DOMAIN buffer |->
                  IF call.processed < i /\ i <= call.processed + n
                  THEN Content[Position + i - call.processed] ELSE buffer[i]]
  /\ Transferred(n)
  /\ state' = IF n = 0 THEN "eof" ELSE "ok"
  /\ UNCHANGED <<disk, files>>

\* bytes from `position` on, over what was there and after a gap of zeros
Overwrite(content, position, bytes) ==
  LET to == position + Len(bytes)
      length == IF to > Len(content) THEN to ELSE Len(content)
  IN  [i \in 1 .. length |->
         IF position < i /\ i <= to THEN bytes[i - position]
         ELSE IF i <= Len(content) THEN content[i] ELSE 0]

\* mutant: the rest is taken from the start of the buffer
WriteFileAgain(n) ==
  /\ InCall("write") /\ At(call.file).mode.writes
  /\ n \in 1 .. Requested
  /\ disk' = [disk EXCEPT ![At(call.file).path] = Overwrite(@, Position, SubSeq(buffer, 1, n))]
  /\ Transferred(n)
  /\ UNCHANGED <<files, buffer, state>>

WriteFile(n) ==
  /\ InCall("write") /\ At(call.file).mode.writes
  /\ n \in 1 .. Requested
  /\ disk' = [disk EXCEPT ![At(call.file).path] =
                Overwrite(@, Position, SubSeq(buffer, call.processed + 1, call.processed + n))]
  /\ Transferred(n)
  /\ UNCHANGED <<files, buffer, state>>

\* the system refuses, as it does when the mode does not permit the access
IoFails ==
  /\ InCall("read") \/ InCall("write")
  /\ state' = "error"
  /\ UNCHANGED <<disk, files, handles, call, buffer>>

\* the client has the buffer and the state
Return ==
  /\ ~Idle
  /\ call.processed = call.size \/ state # "ok"
  /\ call' = NoCall /\ buffer' = <<>> /\ state' = "ok"
  /\ UNCHANGED <<disk, files, handles>>

-----------------------------------------------------------------------------
(* the position *)

Target(f, offset, from) ==
  CASE from = "start" -> offset
    [] from = "current" -> At(f).position + offset
    [] from = "end" -> Len(disk[At(f).path]) + offset

\* a position in front of the start is refused, silently but for FROM_START
file_seek(f, offset, from) ==
  /\ Idle /\ is_open(f)
  /\ Target(f, offset, from) <= MaxSize
  /\ handles' = IF Target(f, offset, from) < 0 THEN handles
                ELSE [handles EXCEPT ![files[f]].position = Target(f, offset, from)]
  /\ UNCHANGED <<disk, files, call, buffer, state>>

\* the end of the file is set at a position to which the file is moved first,
\* and from which it is moved back when it was in front of it
file_trim(f, max_size) ==
  LET p == At(f).path
      offset == At(f).position
  IN  /\ Idle /\ is_open(f) /\ At(f).mode.writes
      /\ disk' = [disk EXCEPT ![p] = Overwrite(SubSeq(@, 1, Smaller(Len(@), max_size)), max_size, <<>>)]
      /\ handles' = [handles EXCEPT ![files[f]].position = IF offset < max_size THEN offset ELSE max_size]
      /\ UNCHANGED <<files, call, buffer, state>>

-----------------------------------------------------------------------------
(* names *)

NotOpen(p) == \A h \in DOMAIN handles : handles[h].path # p
Names(now) == disk' = now /\ UNCHANGED <<files, handles, call, buffer, state>>

\* opens and closes a File of its own
file_create(p) == Idle /\ p \notin DOMAIN disk /\ Names(Opened(p))

file_remove(p) ==
  /\ Idle /\ p \in DOMAIN disk /\ NotOpen(p)
  /\ Names([q \in DOMAIN disk \ {p} |-> disk[q]])

file_move(new, old) ==
  /\ Idle /\ old \in DOMAIN disk /\ new \notin DOMAIN disk /\ NotOpen(old)
  /\ Names([q \in (DOMAIN disk \ {old}) \cup {new} |-> IF q = new THEN disk[old] ELSE disk[q]])

\* mutant: without COPY_FILE_FAIL_IF_EXISTS
file_copy_over(to, from) ==
  /\ Idle /\ from \in DOMAIN disk
  /\ \A h \in DOMAIN handles : handles[h].path = from => handles[h].mode.other_reads
  /\ Names([q \in DOMAIN disk \cup {to} |-> IF q = to THEN disk[from] ELSE disk[q]])

file_copy(to, from) ==
  /\ Idle /\ from \in DOMAIN disk /\ to \notin DOMAIN disk
  /\ \A h \in DOMAIN handles : handles[h].path = from => handles[h].mode.other_reads
  /\ Names([q \in DOMAIN disk \cup {to} |-> IF q = to THEN disk[from] ELSE disk[q]])

Next ==
  \/ \E f \in FileVar, p \in Path, mode \in Modes : file_open(f, p, mode)
  \/ \E f \in FileVar :
       \/ file_close(f) \/ IoOnClosed(f)
       \/ \E size \in 0 .. MaxSize : BeginRead(f, size)
       \/ \E bytes \in Given :
            is_open(f) /\ At(f).position + Len(bytes) <= MaxSize /\ BeginWrite(f, bytes)
       \/ \E offset \in {-1, 0, 2}, from \in {"start", "current", "end"} : file_seek(f, offset, from)
       \/ \E n \in 0 .. MaxSize : file_trim(f, n)
  \/ \E f, other \in FileVar : MoveConstruct(f, other) \/ MoveAssign(f, other)
  \/ \E n \in 0 .. MaxSize : ReadFile(n) \/ WriteFile(n)
  \/ IoFails \/ Return
  \/ \E p, q \in Path : file_create(p) \/ file_remove(p) \/ file_move(p, q) \/ file_copy(p, q)

Spec == Init /\ [][Next]_vars

-----------------------------------------------------------------------------
\* Every handle the system has open belongs to one File and no File holds a
\* handle that was closed: moves and assignments neither leak nor share one.
HandlesOwned ==
  /\ DOMAIN handles = {files[f] : f \in FileVar} \ {INVALID}
  /\ \A f, g \in FileVar : f # g /\ is_open(f) => files[f] # files[g]

\* At every point of a read or write what was processed is what is in place:
\* the buffer holds the file from the old position on, or the file holds the
\* buffer over its old bytes; the position has moved by as much; and a read
\* reports the end of the file only there.
IoInPlace ==
  ~Idle =>
    /\ Position = call.from + call.processed
    /\ call.of = "read" => \A i \in 1 .. call.processed : buffer[i] = Content[call.from + i]
    /\ call.of = "read" /\ state = "eof" => Position >= Len(Content)
    /\ call.of = "write" /\ call.processed > 0 =>
         Content = Overwrite(call.before, call.from, SubSeq(buffer, 1, call.processed))

\* The bytes of a file change only through a handle that may write; copying,
\* moving, creating and opening never overwrite a file that is there.
WritersStep ==
  \A p \in DOMAIN disk \cap DOMAIN disk' :
    disk'[p] # disk[p] => \E h \in DOMAIN handles : handles[h].path = p /\ handles[h].mode.writes

OnlyWritersWrite == [][WritersStep]_vars
=============================================================================
