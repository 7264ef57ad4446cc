-------------------------------- MODULE Files --------------------------------
(****************************************************************************)
(* The loops of file.h around the system calls read and write, and          *)
(* read_whole_file on top of them. A system call may fail, may read or      *)
(* write a part and may meet the end of the file; between two of them       *)
(* another process may change the length of the file. Byte i of a file, and *)
(* of what a client writes, is the number i.                                *)
(****************************************************************************)
EXTENDS Integers, Sequences

CONSTANTS
  MaxFile,       \* bound on the length of a file
  MAX_READ_WRITE_CHUNK

VARIABLES
  file,          \* the bytes of the file
  position,      \* the offset of the descriptor
  buffer,        \* the client's buffer
  op,            \* the call in progress: idle, read_whole, write or done
  processed,     \* processed_size of the outer loop, then that of the result
  inner,         \* processed_size of partial_read or partial_write
  ok, eof,       \* the result
  whole,         \* the Whole_File_State
  needed_size,   \* the size the file had when it was asked for
  overwritten    \* whether read put bytes where it had put others before

vars == <<file, position, buffer, op, processed, inner, ok, eof, whole, needed_size, overwritten>>

Unread == 0
Identity(n) == [i \in 1 .. n |-> i]
Smaller(a, b) == IF a < b THEN a ELSE b

Init ==
  /\ file \in {Identity(n) : n \in 0 .. MaxFile}
  /\ position = 0 /\ buffer = <<>>
  /\ op = "idle" /\ processed = 0 /\ inner = 0
  /\ ok = FALSE /\ eof = FALSE /\ whole = "none"
  /\ needed_size = 0 /\ overwritten = FALSE

buffer_size == Len(buffer)
single == Smaller(buffer_size - inner, MAX_READ_WRITE_CHUNK)
Available == IF Len(file) > position THEN Len(file) - position ELSE 0

-----------------------------------------------------------------------------
(* the result of a call to read *)

\* the string gets the size that was counted, and the file closes itself
ReadReturned(bytes, count, read_ok) ==
  /\ op' = "done"
  /\ buffer' = [i \in 1 .. count |-> IF i <= Len(bytes) THEN bytes[i] ELSE Unread]
  /\ processed' = count /\ ok' = read_ok
  /\ whole' = IF read_ok /\ count = needed_size THEN "ok" ELSE "reading_error"

\* Of an empty file nothing is read. A string that never had a block then has
\* its terminator put where the library keeps a constant.
StartReadWhole ==
  /\ op = "idle"
  /\ needed_size' = Len(file)
  /\ buffer' = [i \in 1 .. Len(file) |-> Unread]
  /\ IF file = <<>> THEN op' = "done" /\ ok' = TRUE /\ whole' \in {"ok", "crashed"}
     ELSE op' = "read_whole" /\ UNCHANGED <<ok, whole>>
  /\ processed' = 0 /\ inner' = 0 /\ eof' = FALSE
  /\ UNCHANGED <<file, position, overwritten>>

StartFails(why) ==
  /\ op = "idle" /\ op' = "done" /\ whole' = why
  /\ UNCHANGED <<file, position, buffer, processed, inner, ok, eof, needed_size, overwritten>>

\* Bytes arrive. A full chunk continues partial_read. Anything else ends it, and
\* read begins again at the start of the same buffer unless it has counted enough:
\* what it puts there replaces what it had read before.
ReadBytes(res) ==
  LET bytes == [i \in 1 .. buffer_size |->
                  IF inner < i /\ i <= inner + res THEN file[position + i - inner] ELSE buffer[i]]
      again == inner + res < buffer_size /\ res = MAX_READ_WRITE_CHUNK
      count == processed + inner + res
  IN  /\ op = "read_whole"
      /\ position' = position + res
      /\ overwritten' = (overwritten \/ processed > 0)
      /\ IF again
         THEN buffer' = bytes /\ inner' = inner + res /\ UNCHANGED <<op, processed, ok, whole>>
         ELSE /\ inner' = 0
              /\ IF count < buffer_size
                 THEN buffer' = bytes /\ processed' = count /\ UNCHANGED <<op, ok, whole>>
                 ELSE ReadReturned(bytes, count, TRUE)
      /\ UNCHANGED <<file, eof, needed_size>>

\* mutant: the end of the file is taken for a part of it
ReadEndsNever(at_eof) ==
  /\ op = "read_whole" /\ at_eof
  /\ UNCHANGED vars

\* what partial_read had read before is not counted
ReadEnds(at_eof) ==
  /\ op = "read_whole"
  /\ ReadReturned(buffer, processed, at_eof)
  /\ eof' = at_eof
  /\ UNCHANGED <<file, position, inner, needed_size, overwritten>>

\* the system call returned some bytes or the end of the file
Read ==
  \/ \E res \in 1 .. Smaller(single, Available) : ReadBytes(res)
  \/ Available = 0 /\ ReadEnds(TRUE)

-----------------------------------------------------------------------------
StartWrite(n) ==
  /\ op = "idle"
  /\ file' = <<>> /\ buffer' = Identity(n)
  /\ op' = IF n = 0 THEN "done" ELSE "write"
  /\ ok' = (n = 0)
  /\ processed' = 0 /\ inner' = 0
  /\ UNCHANGED <<position, eof, whole, needed_size, overwritten>>

\* mutant: the rest is taken from the start of the buffer
WriteBytesAgain(res) ==
  /\ op = "write"
  /\ file' = file \o SubSeq(buffer, 1, res)
  /\ IF inner + res < buffer_size
     THEN inner' = inner + res /\ UNCHANGED <<op, processed, ok>>
     ELSE inner' = 0 /\ processed' = processed + inner + res /\ op' = "done" /\ ok' = TRUE
  /\ UNCHANGED <<position, buffer, eof, whole, needed_size, overwritten>>

\* a part is written and partial_write goes on with the rest
WriteBytes(res) ==
  /\ op = "write"
  /\ file' = file \o SubSeq(buffer, inner + 1, inner + res)
  /\ IF inner + res < buffer_size
     THEN inner' = inner + res /\ UNCHANGED <<op, processed, ok>>
     ELSE inner' = 0 /\ processed' = processed + inner + res /\ op' = "done" /\ ok' = TRUE
  /\ UNCHANGED <<position, buffer, eof, whole, needed_size, overwritten>>

\* what partial_write had written before is not counted
WriteFails ==
  /\ op = "write" /\ op' = "done"
  /\ ok' = FALSE
  /\ UNCHANGED <<file, position, buffer, processed, inner, eof, whole, needed_size, overwritten>>

-----------------------------------------------------------------------------
\* another process truncates or extends the file that is being read
Others(n) ==
  /\ op = "read_whole"
  /\ file' = Identity(n)
  /\ UNCHANGED <<position, buffer, op, processed, inner, ok, eof, whole, needed_size, overwritten>>

Progress ==
  \/ op = "read_whole" /\ Read
  \/ \E res \in 1 .. single : WriteBytes(res)

Next ==
  \/ StartReadWhole
  \/ StartFails("not_found") \/ StartFails("out_of_mem")
  \/ Progress
  \/ ReadEnds(FALSE)
  \/ \E n \in 0 .. MaxFile : StartWrite(n)
  \/ WriteFails
  \/ \E n \in 0 .. MaxFile : Others(n)

\* a system call that was made returns
Spec == Init /\ [][Next]_vars /\ WF_vars(Progress)

-----------------------------------------------------------------------------
\* read_whole_file reports success only of a string as long as the file was, and
\* of no more bytes than came from it; and unless a read that was short had more
\* behind it, which read puts over what came before, the string is the start of
\* the file to its last byte: wherever the chunks end, the file is cut off and an
\* error comes.
WholeRead ==
  op = "done" /\ whole # "none" =>
    /\ whole = "ok" => Len(buffer) = needed_size
    /\ Len(buffer) <= position
    /\ ~overwritten => \A i \in 1 .. Len(buffer) : buffer[i] = i

\* Whatever parts the system writes, the file holds the client's bytes in
\* order, all of them when the call reports success, and never more were
\* counted than were written.
WritesInOrder ==
  op \in {"write", "done"} /\ whole = "none" =>
    /\ file = Identity(Len(file)) /\ Len(file) <= Len(buffer)
    /\ op = "done" /\ ok => file = buffer /\ processed = Len(buffer)
    /\ processed <= Len(file)

\* Every call returns, in chunks, parts and at the end of a file that shrank.
CallsEnd == op \in {"read_whole", "write"} ~> op = "done"
=============================================================================
