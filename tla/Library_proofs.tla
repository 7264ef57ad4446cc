--------------------------- MODULE Library_proofs ---------------------------
(****************************************************************************)
(* Proofs of what the run of MC_Library checks about the containers over    *)
(* memory, the files, the listing of directories and the benchmark.  Each   *)
(* component has an invariant of its own, which holds of every behaviour    *)
(* whose `kind` it is.                                                      *)
(****************************************************************************)
EXTENDS MC_Library, ListLemmas

-----------------------------------------------------------------------------
(* Reading and writing files *)

\* the first n bytes
LEMMA IdentityIs ==
  ASSUME NEW n \in Nat
  PROVE  /\ Reads!Identity(n) \in Seq(Nat) /\ Len(Reads!Identity(n)) = n
         /\ \A i \in 1 .. n : Reads!Identity(n)[i] = i
<1>1. Reads!Identity(n) \in [1 .. n -> Nat]
  BY DEF Reads!Identity
<1>2. \A i \in 1 .. n : Reads!Identity(n)[i] = i
  BY DEF Reads!Identity
<1> HIDE DEF Reads!Identity
<1> QED BY <1>1, <1>2

\* a sequence of numbers that counts from 1
Counts(s) == s \in Seq(Nat) /\ \A i \in 1 .. Len(s) : s[i] = i

LEMMA CountsIdentity ==
  ASSUME NEW s, Counts(s)
  PROVE  s = Reads!Identity(Len(s)) /\ Len(s) \in Nat
<1>1. Reads!Identity(Len(s)) \in Seq(Nat) /\ Len(Reads!Identity(Len(s))) = Len(s)
      /\ \A i \in 1 .. Len(s) : Reads!Identity(Len(s))[i] = i
  BY IdentityIs DEF Counts
<1> QED BY <1>1, SeqEqual DEF Counts

LEMMA IdentityCounts ==
  ASSUME NEW n \in Nat
  PROVE  Counts(Reads!Identity(n)) /\ Len(Reads!Identity(n)) = n
BY IdentityIs DEF Counts

\* before a call; a call of read_whole has read what is in front of the position,
\* and has it in the buffer unless it went back to the start
IdleCall ==
  op = "idle" => /\ position = 0 /\ buffer = <<>> /\ processed = 0 /\ inner = 0 /\ whole = "none"
                 /\ ok = FALSE /\ eof = FALSE

ReadingFile ==
  op = "read_whole" =>
    /\ whole = "none" /\ needed_size = Len(buffer)
    /\ processed \in Nat /\ inner \in Nat /\ position = processed + inner
    /\ processed < Len(buffer) /\ inner < Len(buffer)
    /\ ~overwritten => /\ \A i \in 1 .. position : buffer[i] = i
                       /\ position < Len(buffer) /\ (processed > 0 => inner = 0)

WritingFile ==
  op = "write" =>
    /\ whole = "none" /\ processed = 0
    /\ Counts(buffer) /\ inner = Len(file) /\ Len(file) < Len(buffer)

ReadsInv ==
  /\ op \in {"idle", "read_whole", "write", "done"}
  /\ Counts(file) /\ buffer \in Seq(Nat)
  /\ IdleCall /\ ReadingFile /\ WritingFile
  /\ Reads!WholeRead /\ Reads!WritesInOrder

LEMMA ReadsInit == Reads!Init => ReadsInv
<1> SUFFICES ASSUME Reads!Init PROVE ReadsInv
  OBVIOUS
<1>1. PICK n \in 0 .. MaxFile : file = Reads!Identity(n)
  BY DEF Reads!Init
<1>2. Counts(file)
  BY <1>1, IdentityCounts, ReadsAssumption
<1> QED BY <1>2 DEF Reads!Init, ReadsInv, IdleCall, ReadingFile, WritingFile, Reads!WholeRead, Reads!WritesInOrder

LEMMA ReadsStart ==
  ASSUME ReadsInv, Reads!StartReadWhole PROVE ReadsInv'
<1>1. op = "idle" /\ Counts(file) /\ whole = "none" /\ position = 0
  BY DEF Reads!StartReadWhole, ReadsInv, IdleCall
<1>2. Len(file) \in Nat /\ file' = file /\ position' = position
  BY <1>1 DEF Counts, Reads!StartReadWhole
<1>3. buffer' \in Seq(Nat) /\ Len(buffer') = Len(file)
  <2>1. buffer' \in [1 .. Len(file) -> Nat]
    BY DEF Reads!StartReadWhole, Reads!Unread
  <2> QED BY <2>1, <1>2
<1>4. CASE file = <<>>
  <2>1. op' = "done" /\ whole' \in {"ok", "crashed"} /\ processed' = 0 /\ Len(buffer') = 0
        /\ needed_size' = Len(buffer') /\ Len(buffer') <= position'
    BY <1>1, <1>2, <1>3, <1>4 DEF Reads!StartReadWhole
  <2> QED BY <1>1, <1>2, <1>3, <2>1
          DEF ReadsInv, Counts, IdleCall, ReadingFile, WritingFile, Reads!WholeRead, Reads!WritesInOrder
<1>5. CASE file # <<>>
  <2>1. op' = "read_whole" /\ whole' = "none" /\ processed' = 0 /\ inner' = 0
        /\ needed_size' = Len(buffer')
    BY <1>1, <1>3, <1>5 DEF Reads!StartReadWhole
  <2>2. Len(file) > 0
    BY <1>1, <1>2, <1>5, EmptySeq DEF Counts
  <2> QED BY <1>1, <1>2, <1>3, <2>1, <2>2
          DEF ReadsInv, Counts, IdleCall, ReadingFile, WritingFile, Reads!WholeRead, Reads!WritesInOrder
<1> QED BY <1>4, <1>5

LEMMA ReadsStartFails ==
  ASSUME ReadsInv, NEW why \in {"not_found", "out_of_mem"}, Reads!StartFails(why) PROVE ReadsInv'
<1>1. /\ op = "idle" /\ op' = "done" /\ whole' = why /\ position = 0 /\ buffer = <<>>
      /\ UNCHANGED <<file, position, buffer>> /\ Counts(file)
  BY DEF Reads!StartFails, ReadsInv, IdleCall
<1>2. Len(<<>>) = 0 /\ <<>> \in Seq(Nat)
  BY EmptySeq
<1> QED BY <1>1, <1>2 DEF ReadsInv, Counts, IdleCall, ReadingFile, WritingFile, Reads!WholeRead, Reads!WritesInOrder

\* a call that ends with count bytes counted, as many as came
LEMMA ReadsReturned ==
  ASSUME ReadsInv, op = "read_whole", NEW bytes \in Seq(Nat), NEW count \in Nat,
         NEW read_ok, Reads!ReadReturned(bytes, count, read_ok),
         position' \in Nat, count <= position',
         ~overwritten' => count <= Len(bytes) /\ \A i \in 1 .. count : bytes[i] = i,
         file' = file, needed_size' = needed_size
  PROVE  ReadsInv'
<1> DEFINE kept == [i \in 1 .. count |-> IF i <= Len(bytes) THEN bytes[i] ELSE Reads!Unread]
<1>1. kept \in [1 .. count -> Nat]
  <2> SUFFICES ASSUME NEW i \in 1 .. count
               PROVE  (IF i <= Len(bytes) THEN bytes[i] ELSE Reads!Unread) \in Nat
    OBVIOUS
  <2>1. Len(bytes) \in Nat /\ (i <= Len(bytes) => i \in 1 .. Len(bytes))
    OBVIOUS
  <2> QED BY <2>1 DEF Reads!Unread
<1>2. ~overwritten' => \A i \in 1 .. count : kept[i] = i
  <2> SUFFICES ASSUME ~overwritten', NEW i \in 1 .. count PROVE kept[i] = i
    OBVIOUS
  <2>1. Len(bytes) \in Nat /\ i <= Len(bytes)
    OBVIOUS
  <2> QED BY <2>1
<1>3. buffer' = kept
  BY DEF Reads!ReadReturned
<1> HIDE DEF kept
<1>4. buffer' \in Seq(Nat) /\ Len(buffer') = count
  <2>1. kept \in Seq(Nat) /\ DOMAIN kept = 1 .. count
    BY <1>1
  <2> QED BY <1>3, <2>1, LenProperties
<1>5. /\ op' = "done" /\ whole' \in {"ok", "reading_error"}
      /\ whole' = "ok" => count = needed_size
  BY DEF Reads!ReadReturned
<1>6. Reads!WholeRead'
  BY <1>2, <1>3, <1>4, <1>5 DEF Reads!WholeRead
<1>7. Counts(file)
  BY DEF ReadsInv
<1> QED BY <1>4, <1>5, <1>6, <1>7
        DEF ReadsInv, Counts, IdleCall, ReadingFile, WritingFile, Reads!WritesInOrder

LEMMA ReadsEnd ==
  ASSUME ReadsInv, NEW at_eof, Reads!ReadEnds(at_eof) PROVE ReadsInv'
<1>1. op = "read_whole" /\ buffer \in Seq(Nat) /\ file' = file
      /\ UNCHANGED <<position, needed_size, overwritten>>
      /\ Reads!ReadReturned(buffer, processed, at_eof)
  BY DEF Reads!ReadEnds, ReadsInv
<1>2. /\ processed \in Nat /\ position \in Nat /\ processed <= position
      /\ ~overwritten => processed <= Len(buffer) /\ \A i \in 1 .. processed : buffer[i] = i
  <2>1. /\ processed \in Nat /\ inner \in Nat /\ position = processed + inner
        /\ processed < Len(buffer) /\ Len(buffer) \in Nat
        /\ ~overwritten => \A i \in 1 .. position : buffer[i] = i
    BY <1>1 DEF ReadsInv, ReadingFile
  <2>2. processed <= position /\ \A i \in 1 .. processed : i \in 1 .. position
    BY <2>1
  <2> QED BY <2>1, <2>2
<1> QED BY <1>1, <1>2, ReadsReturned

LEMMA ReadsBytes ==
  ASSUME ReadsInv, NEW res \in 1 .. Reads!Smaller(Reads!single, Reads!Available),
         Reads!ReadBytes(res)
  PROVE  ReadsInv'
<1> DEFINE size_of == Len(buffer)
           length == Len(file)
           bytes == [i \in 1 .. size_of |->
                       IF inner < i /\ i <= inner + res THEN file[position + i - inner] ELSE buffer[i]]
           again == inner + res < size_of /\ res = MAX_READ_WRITE_CHUNK
           count == processed + inner + res
<1>1. op = "read_whole" /\ whole = "none" /\ file' = file /\ Counts(file)
      /\ needed_size = size_of /\ needed_size' = needed_size
  BY DEF Reads!ReadBytes, ReadsInv, ReadingFile
<1>2. /\ processed \in Nat /\ inner \in Nat /\ position = processed + inner
      /\ processed < size_of /\ inner < size_of
      /\ size_of \in Nat /\ length \in Nat
      /\ ~overwritten => position < size_of /\ (processed > 0 => inner = 0)
  BY <1>1 DEF ReadsInv, ReadingFile, Counts
<1>3. /\ buffer \in Seq(Nat) /\ (~overwritten => \A i \in 1 .. position : buffer[i] = i)
      /\ file \in Seq(Nat) /\ \A i \in 1 .. length : file[i] = i
  BY <1>1 DEF ReadsInv, ReadingFile, Counts
<1>4. /\ IF again
         THEN buffer' = bytes /\ inner' = inner + res /\ UNCHANGED <<op, processed, ok, whole>>
         ELSE /\ inner' = 0
              /\ IF count < size_of
                 THEN buffer' = bytes /\ processed' = count /\ UNCHANGED <<op, ok, whole>>
                 ELSE Reads!ReadReturned(bytes, count, TRUE)
      /\ position' = position + res
      /\ ~overwritten' => ~overwritten /\ ~(processed > 0)
  BY DEF Reads!ReadBytes, Reads!buffer_size
<1>5. res \in Nat /\ res > 0 /\ position + res <= length /\ inner + res <= size_of
  <2>1. Reads!Available = IF length > position THEN length - position ELSE 0
    BY DEF Reads!Available
  <2>2. Reads!single = IF size_of - inner < MAX_READ_WRITE_CHUNK THEN size_of - inner
                       ELSE MAX_READ_WRITE_CHUNK
    BY DEF Reads!Smaller, Reads!single, Reads!buffer_size
  <2> HIDE DEF size_of, length, again, bytes
  <2>3. Reads!Available \in Nat /\ position \in Nat
    BY <1>2, <2>1
  <2>4. Reads!single \in Nat /\ Reads!single <= size_of - inner
    BY <1>2, <2>2, ReadsAssumption
  <2>5. res \in Nat /\ res > 0 /\ res <= Reads!single /\ res <= Reads!Available
    BY <2>3, <2>4 DEF Reads!Smaller
  <2>6. res <= length - position
    BY <1>2, <2>1, <2>3, <2>5
  <2> QED BY <1>2, <2>3, <2>4, <2>5, <2>6
<1>6. ASSUME NEW i \in 1 .. size_of
      PROVE  bytes[i] \in Nat /\ (~overwritten' /\ i <= count => bytes[i] = i)
  <2>1. bytes[i] = IF inner < i /\ i <= inner + res THEN file[position + i - inner] ELSE buffer[i]
    OBVIOUS
  <2> HIDE DEF size_of, length, again, bytes
  <2>2. CASE inner < i /\ i <= inner + res
    <3>1. position + i - inner \in 1 .. length
      BY <1>2, <1>5, <2>2
    <3>2. ~overwritten' => position + i - inner = i
      BY <1>2, <1>4
    <3> QED BY <1>3, <2>1, <2>2, <3>1, <3>2
  <2>3. CASE ~(inner < i /\ i <= inner + res)
    <3>1. bytes[i] = buffer[i] /\ (~overwritten' /\ i <= count => i \in 1 .. position)
      BY <1>2, <1>4, <1>5, <2>1, <2>3
    <3>2. buffer[i] \in Nat
      BY <1>3 DEF size_of
    <3> QED BY <1>3, <1>4, <3>1, <3>2
  <2> QED BY <2>2, <2>3
<1>7. bytes \in [1 .. size_of -> Nat]
  BY <1>6
<1> HIDE DEF bytes
<1>8. bytes \in Seq(Nat) /\ Len(bytes) = size_of
  <2>1. bytes \in Seq(Nat) /\ DOMAIN bytes = 1 .. size_of
    BY <1>2, <1>7
  <2> QED BY <1>2, <2>1, LenProperties
<1> HIDE DEF size_of, length
<1>9. /\ ~overwritten' => count <= size_of
      /\ count \in Nat /\ position' = count
  BY <1>2, <1>4, <1>5
<1>10. ~overwritten' => \A i \in 1 .. count : i \in 1 .. size_of /\ bytes[i] = i
  BY <1>2, <1>6, <1>9
<1>11. CASE again \/ count < size_of
  <2>1. buffer' = bytes /\ op' = op /\ whole' = whole
    BY <1>4, <1>11
  <2>2. /\ position' = processed' + inner' /\ processed' \in Nat /\ inner' \in Nat
        /\ processed' < size_of /\ inner' < size_of
        /\ ~overwritten' => count < size_of /\ (processed' > 0 => inner' = 0)
    <3>1. CASE again
      <4>1. processed' = processed /\ inner' = inner + res /\ inner' < size_of
        BY <1>4, <3>1
      <4> QED BY <1>2, <1>4, <1>5, <1>9, <4>1
    <3>2. CASE ~again
      <4>1. processed' = count /\ inner' = 0 /\ count < size_of
        BY <1>4, <1>11, <3>2
      <4> QED BY <1>2, <1>4, <1>5, <1>9, <4>1
    <3> QED BY <3>1, <3>2
  <2>3. ReadingFile' /\ IdleCall' /\ WritingFile'
    BY <1>1, <1>8, <1>9, <1>10, <2>1, <2>2 DEF ReadingFile, IdleCall, WritingFile
  <2> QED BY <1>1, <1>8, <2>1, <2>3 DEF ReadsInv, Counts, Reads!WholeRead, Reads!WritesInOrder
<1>12. CASE ~again /\ ~(count < size_of)
  <2>1. Reads!ReadReturned(bytes, count, TRUE)
    BY <1>4, <1>12
  <2>2. position' \in Nat /\ count <= position'
        /\ (~overwritten' => count <= Len(bytes) /\ \A i \in 1 .. count : bytes[i] = i)
    BY <1>8, <1>9, <1>10
  <2> QED BY <1>1, <1>8, <1>9, <2>1, <2>2, ReadsReturned
<1> QED BY <1>11, <1>12

LEMMA ReadsStartWrite ==
  ASSUME ReadsInv, NEW n \in 0 .. MaxFile, Reads!StartWrite(n) PROVE ReadsInv'
<1>1. n \in Nat /\ file' = <<>> /\ buffer' = Reads!Identity(n) /\ whole = "none" /\ whole' = "none"
      /\ processed' = 0 /\ inner' = 0 /\ op' = (IF n = 0 THEN "done" ELSE "write") /\ ok' = (n = 0)
  BY ReadsAssumption DEF Reads!StartWrite, ReadsInv, IdleCall
<1>2. Counts(buffer') /\ Len(buffer') = n /\ Counts(file') /\ Len(file') = 0
  BY <1>1, IdentityCounts DEF Counts
<1>3. Len(Reads!Identity(0)) = 0 /\ Reads!Identity(0) = <<>>
  BY IdentityIs
<1> QED BY <1>1, <1>2, <1>3 DEF ReadsInv, Counts, IdleCall, ReadingFile, WritingFile, Reads!WholeRead, Reads!WritesInOrder

LEMMA ReadsWrite ==
  ASSUME ReadsInv, NEW res \in 1 .. Reads!single, Reads!WriteBytes(res) PROVE ReadsInv'
<1>1. /\ op = "write" /\ whole = "none" /\ whole' = "none" /\ processed = 0 /\ Counts(buffer)
      /\ inner = Len(file) /\ Len(file) < Len(buffer) /\ Counts(file) /\ buffer' = buffer
      /\ file' = file \o SubSeq(buffer, inner + 1, inner + res)
  BY DEF Reads!WriteBytes, ReadsInv, WritingFile
<1>2. res \in Nat /\ res > 0 /\ inner \in Nat /\ inner + res <= Len(buffer) /\ Len(buffer) \in Nat
  BY <1>1, ReadsAssumption DEF Reads!single, Reads!Smaller, Reads!buffer_size, Counts
<1>3. Counts(file') /\ Len(file') = inner + res
  <2> DEFINE part == SubSeq(buffer, inner + 1, inner + res)
  <2>1. part \in Seq(Nat) /\ Len(part) = res /\ \A i \in 1 .. res : part[i] = inner + i
    <3>1. buffer \in Seq(Nat) /\ \A i \in 1 .. Len(buffer) : buffer[i] = i
      BY <1>1 DEF Counts
    <3>2. part \in Seq(Nat) /\ Len(part) = res /\ \A i \in 1 .. res : part[i] = buffer[inner + i]
      BY <1>2, <3>1, PartIs
    <3>3. \A i \in 1 .. res : inner + i \in 1 .. Len(buffer)
      BY <1>2
    <3> QED BY <3>1, <3>2, <3>3
  <2> HIDE DEF part
  <2>2. file' = file \o part /\ file \in Seq(Nat) /\ \A i \in 1 .. Len(file) : file[i] = i
    BY <1>1 DEF Counts, part
  <2>3. file' \in Seq(Nat) /\ Len(file') = Len(file) + res
    BY <2>1, <2>2, ConcatProperties
  <2>4. ASSUME NEW i \in 1 .. Len(file') PROVE file'[i] = i
    BY <1>1, <1>2, <2>1, <2>2, <2>3
  <2> QED BY <1>1, <2>3, <2>4 DEF Counts
<1>4. CASE inner + res < Len(buffer)
  <2>1. inner' = inner + res /\ op' = op /\ processed' = processed
    BY <1>4 DEF Reads!WriteBytes, Reads!buffer_size
  <2>2. file' = Reads!Identity(Len(file'))
    BY <1>3, CountsIdentity
  <2>3. WritingFile' /\ IdleCall' /\ ReadingFile'
    BY <1>1, <1>3, <1>4, <2>1 DEF WritingFile, IdleCall, ReadingFile
  <2>4. Len(file') <= Len(buffer') /\ processed' = 0 /\ 0 <= Len(file') /\ op' = "write"
    BY <1>1, <1>2, <1>3, <1>4, <2>1
  <2>5. Reads!WholeRead' /\ Reads!WritesInOrder'
    BY <2>2, <2>4 DEF Reads!WholeRead, Reads!WritesInOrder
  <2> QED BY <1>1, <1>3, <2>1, <2>3, <2>5
          DEF ReadsInv, Counts, IdleCall, ReadingFile, WritingFile, Reads!WholeRead, Reads!WritesInOrder
<1>5. CASE ~(inner + res < Len(buffer))
  <2>1. inner' = 0 /\ op' = "done" /\ processed' = processed + inner + res
    BY <1>5 DEF Reads!WriteBytes, Reads!buffer_size
  <2>2. file' = Reads!Identity(Len(file')) /\ buffer = Reads!Identity(Len(buffer))
    BY <1>1, <1>3, CountsIdentity
  <2>3. Len(file') = Len(buffer) /\ processed' = Len(buffer) /\ file' = buffer
    <3>1. inner + res = Len(buffer) /\ processed' = inner + res
      BY <1>1, <1>2, <1>5, <2>1
    <3>2. Len(file') = Len(buffer)
      BY <1>3, <3>1
    <3>3. file' = buffer
      BY <2>2, <3>2, Zenon
    <3> QED BY <3>1, <3>2, <3>3, Zenon
  <2>4. Len(file') <= Len(buffer') /\ processed' <= Len(file') /\ processed' = Len(buffer')
    BY <1>1, <1>2, <2>3
  <2>5. Reads!WholeRead' /\ Reads!WritesInOrder'
    BY <1>1, <2>2, <2>3, <2>4 DEF Reads!WholeRead, Reads!WritesInOrder
  <2>6. IdleCall' /\ ReadingFile' /\ WritingFile'
    BY <2>1 DEF IdleCall, ReadingFile, WritingFile
  <2> QED BY <1>1, <1>3, <2>1, <2>5, <2>6 DEF ReadsInv, Counts
<1> QED BY <1>4, <1>5

LEMMA ReadsWriteFails ==
  ASSUME ReadsInv, Reads!WriteFails PROVE ReadsInv'
<1>1. file = Reads!Identity(Len(file)) /\ Len(file) \in Nat
  BY CountsIdentity DEF ReadsInv
<1> QED BY <1>1
        DEF Reads!WriteFails, ReadsInv, Counts, IdleCall, ReadingFile, WritingFile, Reads!WholeRead, Reads!WritesInOrder

LEMMA ReadsOthers ==
  ASSUME ReadsInv, NEW n \in 0 .. MaxFile, Reads!Others(n) PROVE ReadsInv'
<1>1. Counts(file') /\ op = "read_whole"
      /\ UNCHANGED <<position, buffer, op, processed, inner, ok, eof, whole, needed_size, overwritten>>
  BY IdentityCounts, ReadsAssumption DEF Reads!Others
<1> QED BY <1>1 DEF ReadsInv, Counts, IdleCall, ReadingFile, WritingFile, Reads!WholeRead, Reads!WritesInOrder

LEMMA ReadsStep == ReadsInv /\ Reads!Next => ReadsInv'
<1> SUFFICES ASSUME ReadsInv, Reads!Next PROVE ReadsInv'
  OBVIOUS
<1>1. CASE Reads!Progress
  BY <1>1, ReadsBytes, ReadsEnd, ReadsWrite DEF Reads!Progress, Reads!Read
<1> QED BY <1>1, ReadsStart, ReadsStartFails, ReadsEnd, ReadsStartWrite, ReadsWriteFails, ReadsOthers
        DEF Reads!Next

-----------------------------------------------------------------------------
(* Descriptors of files *)

\* the table of a guard: since the size that belongs to it stays 0, nothing is
\* ever recorded in it
UnusedTable == [i \in 1 .. GuardSize |-> -1]

Tables ==
  /\ table_size = 0
  /\ guards \in Seq([old : {<<>>, UnusedTable}, old_size : {0}])
  /\ guards = <<>> => table = <<>>
  /\ guards # <<>> => table = UnusedTable /\ guards[1].old = <<>>
  /\ \A i \in 2 .. Len(guards) : guards[i].old = UnusedTable

Holders ==
  /\ files \in [FileVar -> Nat \cup {-1}]
  /\ \A d : d \in opened <=> d \in lost \/ (d # -1 /\ \E f \in FileVar : files[f] = d)
  /\ \A f \in FileVar : files[f] \notin lost
  /\ \A f, g \in FileVar : f # g /\ files[f] >= 0 => files[f] # files[g]
  /\ -1 \notin lost

DescriptorsInv == Tables /\ Holders

LEMMA DescriptorsInit == Descriptors!Init => DescriptorsInv
BY DEF Descriptors!Init, Descriptors!NoTable, DescriptorsInv, Tables, Holders

LEMMA NothingRecorded ==
  ASSUME Tables, NEW value, NEW d
  PROVE  /\ Descriptors!find_descriptor(value) = -2
         /\ Descriptors!Recorded(Descriptors!find_descriptor(value), d) = table
<1>1. Descriptors!find_descriptor(value) = -2
  BY DEF Descriptors!find_descriptor, Tables
<1> QED BY <1>1 DEF Descriptors!Recorded

LEMMA DescriptorsOpen ==
  ASSUME DescriptorsInv, NEW f \in FileVar, NEW d \in Descriptor, Descriptors!open(f, d)
  PROVE  DescriptorsInv'
<1>1. table' = table
  BY NothingRecorded DEF Descriptors!open, DescriptorsInv
<1>2. Tables'
  BY <1>1 DEF Descriptors!open, DescriptorsInv, Tables
<1>3. d \in Nat /\ d \notin opened /\ files[f] = -1
  BY DescriptorAssumption DEF Descriptors!open
<1>4. files' = [files EXCEPT ![f] = d] /\ opened' = opened \cup {d} /\ lost' = lost
  BY DEF Descriptors!open
<1>5. Holders'
  BY <1>3, <1>4 DEF DescriptorsInv, Holders
<1> QED BY <1>2, <1>5 DEF DescriptorsInv

LEMMA DescriptorsClose ==
  ASSUME DescriptorsInv, NEW f \in FileVar, Descriptors!close(f)
  PROVE  DescriptorsInv'
<1>1. table' = table
  BY NothingRecorded DEF Descriptors!close, DescriptorsInv
<1>2. Tables'
  BY <1>1 DEF Descriptors!close, DescriptorsInv, Tables
<1>3. files' = [files EXCEPT ![f] = -1] /\ opened' = opened \ {files[f]} /\ lost' = lost /\ files[f] >= 0
  BY DEF Descriptors!close
<1>4. Holders'
  BY <1>3 DEF DescriptorsInv, Holders
<1> QED BY <1>2, <1>4 DEF DescriptorsInv

LEMMA DescriptorsMove ==
  ASSUME DescriptorsInv, NEW f \in FileVar, NEW other \in FileVar, Descriptors!Move(f, other)
  PROVE  DescriptorsInv'
<1>1. Tables'
  BY DEF Descriptors!Move, DescriptorsInv, Tables
<1>2. /\ files' = [files EXCEPT ![f] = files[other], ![other] = -1]
      /\ opened' = opened /\ lost' = lost /\ files[f] = -1 /\ f # other
  BY DEF Descriptors!Move
<1>3. Holders'
  BY <1>2 DEF DescriptorsInv, Holders
<1> QED BY <1>1, <1>3 DEF DescriptorsInv

LEMMA DescriptorsDup ==
  ASSUME DescriptorsInv, NEW f \in FileVar, NEW from \in FileVar, NEW d \in Descriptor,
         Descriptors!dup(f, from, d)
  PROVE  DescriptorsInv'
<1>1. Tables'
  BY DEF Descriptors!dup, DescriptorsInv, Tables
<1>2. d \in Nat /\ d \notin opened /\ files[f] = -1
  BY DescriptorAssumption DEF Descriptors!dup
<1>3. files' = [files EXCEPT ![f] = d] /\ opened' = opened \cup {d} /\ lost' = lost
  BY DEF Descriptors!dup
<1>4. Holders'
  BY <1>2, <1>3 DEF DescriptorsInv, Holders
<1> QED BY <1>1, <1>4 DEF DescriptorsInv

LEMMA DescriptorsLongJump ==
  ASSUME DescriptorsInv, NEW f \in FileVar, Descriptors!LongJump(f)
  PROVE  DescriptorsInv'
<1>1. Tables'
  BY DEF Descriptors!LongJump, DescriptorsInv, Tables
<1>2. /\ files' = [files EXCEPT ![f] = -1] /\ opened' = opened /\ files[f] >= 0
      /\ lost' = lost \cup {files[f]}
  BY DEF Descriptors!LongJump
<1>3. Holders'
  BY <1>2 DEF DescriptorsInv, Holders
<1> QED BY <1>1, <1>3 DEF DescriptorsInv

LEMMA DescriptorsGuardBegin ==
  ASSUME DescriptorsInv, Descriptors!GuardBegin
  PROVE  DescriptorsInv'
<1>1. Holders'
  BY DEF Descriptors!GuardBegin, DescriptorsInv, Holders
<1> DEFINE guard == [old |-> table, old_size |-> table_size]
<1>2. /\ guards' = Append(guards, guard) /\ table' = UnusedTable /\ table_size' = 0
      /\ guard \in [old : {<<>>, UnusedTable}, old_size : {0}] /\ guard.old = table
  BY DEF Descriptors!GuardBegin, DescriptorsInv, Tables, UnusedTable
<1> HIDE DEF guard
<1>3. guards \in Seq([old : {<<>>, UnusedTable}, old_size : {0}]) /\ Len(guards) \in Nat
  BY DEF DescriptorsInv, Tables
<1>4. /\ guards' \in Seq([old : {<<>>, UnusedTable}, old_size : {0}]) /\ Len(guards') = Len(guards) + 1
      /\ \A i \in 1 .. Len(guards) : guards'[i] = guards[i]
      /\ guards'[Len(guards) + 1] = guard
  BY <1>2, <1>3
<1>5. guards' # <<>>
  BY <1>3, <1>4
<1>6. guards'[1].old = <<>>
  <2>1. CASE guards = <<>>
    BY <1>2, <1>4, <2>1 DEF DescriptorsInv, Tables
  <2>2. CASE guards # <<>>
    <3>1. Len(guards) >= 1
      BY <1>3, <2>2, EmptySeq
    <3> QED BY <1>3, <1>4, <2>2, <3>1 DEF DescriptorsInv, Tables
  <2> QED BY <2>1, <2>2
<1>7. ASSUME NEW i \in 2 .. Len(guards') PROVE guards'[i].old = UnusedTable
  <2>1. CASE i = Len(guards) + 1
    <3>1. guards # <<>>
      BY <1>3, <1>4, <2>1
    <3> QED BY <1>2, <1>4, <2>1, <3>1 DEF DescriptorsInv, Tables
  <2>2. CASE i # Len(guards) + 1
    <3>1. i \in 2 .. Len(guards)
      BY <1>3, <1>4, <2>2
    <3>2. i \in 1 .. Len(guards)
      BY <1>3, <3>1
    <3> QED BY <1>4, <3>1, <3>2 DEF DescriptorsInv, Tables
  <2> QED BY <2>1, <2>2
<1>8. Tables'
  BY <1>2, <1>4, <1>5, <1>6, <1>7 DEF Tables, UnusedTable
<1> QED BY <1>1, <1>8 DEF DescriptorsInv

LEMMA DescriptorsGuardEnd ==
  ASSUME DescriptorsInv, Descriptors!GuardEnd
  PROVE  DescriptorsInv'
<1> DEFINE n == Len(guards)
           held == {table[i] : i \in 1 .. GuardSize} \ {-1}
<1>1. guards # <<>> /\ table = UnusedTable
  BY DEF Descriptors!GuardEnd, DescriptorsInv, Tables
<1>2. held = {}
  BY <1>1 DEF UnusedTable
<1>3. /\ opened' = opened \ held /\ lost' = lost \ held /\ files' = files
      /\ table' = guards[n].old /\ table_size' = guards[n].old_size
      /\ guards' = SubSeq(guards, 1, n - 1)
  BY DEF Descriptors!GuardEnd
<1>4. Holders'
  <2>1. opened' = opened /\ lost' = lost
    BY <1>2, <1>3
  <2> QED BY <1>3, <2>1 DEF DescriptorsInv, Holders
<1> DEFINE S == [old : {<<>>, UnusedTable}, old_size : {0}]
<1> HIDE DEF held
<1>5. guards \in Seq(S) /\ n \in Nat /\ n >= 1
  BY <1>1, EmptySeq DEF DescriptorsInv, Tables
<1>6. table_size' = 0
  <2> HIDE DEF S
  <2>1. guards[n] \in S
    BY <1>5
  <2> USE DEF S
  <2> QED BY <1>3, <2>1
<1>7. /\ guards' \in Seq(S) /\ Len(guards') = n - 1
      /\ \A i \in 1 .. n - 1 : guards'[i] = guards[i]
  <2> HIDE DEF S
  <2>1. n - 1 \in 0 .. Len(guards)
    BY <1>5
  <2> QED BY <1>3, <1>5, <2>1, FirstItems
<1> HIDE DEF n
<1>8. CASE n = 1
  <2>1. guards' = <<>> /\ Len(guards') = 0
    BY <1>7, <1>8, EmptySeq
  <2> QED BY <1>1, <1>3, <1>4, <1>6, <1>7, <1>8, <2>1 DEF DescriptorsInv, Tables
<1>9. CASE n > 1
  <2>1. n \in 2 .. n /\ 1 \in 1 .. n - 1 /\ guards' # <<>>
    BY <1>5, <1>7, <1>9
  <2>2. table' = UnusedTable
    BY <1>3, <2>1 DEF DescriptorsInv, Tables, n
  <2>3. guards'[1].old = <<>>
    BY <1>1, <1>7, <2>1 DEF DescriptorsInv, Tables
  <2>4. ASSUME NEW i \in 2 .. Len(guards') PROVE guards'[i].old = UnusedTable
    <3>1. i \in 1 .. n - 1 /\ i \in 2 .. n
      BY <1>5, <1>7
    <3> QED BY <1>7, <3>1 DEF DescriptorsInv, Tables, n
  <2>5. Tables'
    BY <1>6, <1>7, <2>1, <2>2, <2>3, <2>4 DEF Tables, UnusedTable
  <2> QED BY <1>4, <2>5 DEF DescriptorsInv
<1> QED BY <1>5, <1>8, <1>9

LEMMA DescriptorsStep == DescriptorsInv /\ Descriptors!Next => DescriptorsInv'
<1> SUFFICES ASSUME DescriptorsInv, Descriptors!Next PROVE DescriptorsInv'
  OBVIOUS
<1>1. ASSUME NEW f \in FileVar, Descriptors!OpenFails(f) PROVE DescriptorsInv'
  BY <1>1 DEF Descriptors!OpenFails, Descriptors!vars, DescriptorsInv, Tables, Holders
<1> QED BY <1>1, DescriptorsOpen, DescriptorsClose, DescriptorsMove, DescriptorsDup,
           DescriptorsLongJump, DescriptorsGuardBegin, DescriptorsGuardEnd
        DEF Descriptors!Next

LEMMA DescriptorsSound ==
  DescriptorsInv => Descriptors!DescriptorsOwned /\ Descriptors!GuardsRestore
<1> SUFFICES ASSUME DescriptorsInv PROVE Descriptors!DescriptorsOwned /\ Descriptors!GuardsRestore
  OBVIOUS
<1>1. opened = Descriptors!Owned \cup lost
  BY DEF DescriptorsInv, Holders, Descriptors!Owned
<1>2. Descriptors!Owned \cap lost = {}
  BY DEF DescriptorsInv, Holders, Descriptors!Owned
<1>3. Descriptors!GuardsRestore
  BY DEF DescriptorsInv, Tables, Descriptors!GuardsRestore, Descriptors!NoTable
<1> QED BY <1>1, <1>2, <1>3 DEF DescriptorsInv, Holders, Descriptors!DescriptorsOwned

-----------------------------------------------------------------------------
(* Files on Windows *)

\* z is the content with the bytes written over it from `at` on
IsOverwritten(z, content, at, bytes) ==
  /\ z \in Seq(Nat)
  /\ Len(z) = IF at + Len(bytes) > Len(content) THEN at + Len(bytes) ELSE Len(content)
  /\ \A i \in 1 .. Len(z) : z[i] = IF at < i /\ i <= at + Len(bytes) THEN bytes[i - at]
                                   ELSE IF i <= Len(content) THEN content[i] ELSE 0

LEMMA OverwriteIs ==
  ASSUME NEW content \in Seq(Nat), NEW at \in Nat, NEW bytes \in Seq(Nat)
  PROVE  IsOverwritten(Windows!Overwrite(content, at, bytes), content, at, bytes)
<1> DEFINE to == at + Len(bytes)
           length == IF to > Len(content) THEN to ELSE Len(content)
           byte(i) == IF at < i /\ i <= to THEN bytes[i - at]
                      ELSE IF i <= Len(content) THEN content[i] ELSE 0
           o == [i \in 1 .. length |-> byte(i)]
<1>1. Windows!Overwrite(content, at, bytes) = o
  BY DEF Windows!Overwrite
<1>2. Len(content) \in Nat /\ Len(bytes) \in Nat
  OBVIOUS
<1>3. length \in Nat
  BY <1>2
<1>4. ASSUME NEW i \in 1 .. length PROVE byte(i) \in Nat
  <2>1. CASE at < i /\ i <= to
    <3>1. i - at \in 1 .. Len(bytes)
      BY <1>2, <1>3, <2>1
    <3> QED BY <2>1, <3>1
  <2>2. CASE ~(at < i /\ i <= to)
    <3>1. i <= Len(content) => i \in 1 .. Len(content)
      BY <1>2, <1>3
    <3> QED BY <2>2, <3>1
  <2> QED BY <2>1, <2>2
<1> HIDE DEF byte
<1>5. o \in [1 .. length -> Nat] /\ \A i \in 1 .. length : o[i] = byte(i)
  BY <1>4
<1> HIDE DEF o
<1>6. o \in Seq(Nat) /\ Len(o) = length
  <2> HIDE DEF length
  <2>1. o \in Seq(Nat) /\ DOMAIN o = 1 .. length
    BY <1>3, <1>5
  <2> QED BY <1>3, <2>1, LenProperties
<1> QED BY <1>1, <1>5, <1>6 DEF byte, IsOverwritten

\* what is written in two parts is what is written at once
LEMMA OverwriteParts ==
  ASSUME NEW b \in Seq(Nat), NEW f \in Nat, NEW s \in Seq(Nat),
         NEW p \in Nat, NEW n \in Nat, p + n <= Len(s)
  PROVE  Windows!Overwrite(Windows!Overwrite(b, f, SubSeq(s, 1, p)), f + p, SubSeq(s, p + 1, p + n))
         = Windows!Overwrite(b, f, SubSeq(s, 1, p + n))
<1> DEFINE first == SubSeq(s, 1, p)
           second == SubSeq(s, p + 1, p + n)
           both == SubSeq(s, 1, p + n)
           x == Windows!Overwrite(b, f, first)
           y == Windows!Overwrite(x, f + p, second)
           z == Windows!Overwrite(b, f, both)
<1>1. p \in 0 .. Len(s) /\ p + n \in 0 .. Len(s) /\ Len(s) \in Nat /\ f + p \in Nat /\ Len(b) \in Nat
  OBVIOUS
<1>2. first \in Seq(Nat) /\ Len(first) = p /\ \A i \in 1 .. p : first[i] = s[i]
  BY <1>1, FirstItems
<1>3. both \in Seq(Nat) /\ Len(both) = p + n /\ \A i \in 1 .. p + n : both[i] = s[i]
  BY <1>1, FirstItems
<1>4. second \in Seq(Nat) /\ Len(second) = n /\ \A i \in 1 .. n : second[i] = s[p + i]
  BY PartIs, Zenon
<1> HIDE DEF first, second, both
<1>5. /\ x \in Seq(Nat)
      /\ Len(x) = IF f + p > Len(b) THEN f + p ELSE Len(b)
      /\ \A i \in 1 .. Len(x) : x[i] = IF f < i /\ i <= f + p THEN first[i - f]
                                       ELSE IF i <= Len(b) THEN b[i] ELSE 0
  <2>1. IsOverwritten(x, b, f, first)
    BY <1>2, OverwriteIs
  <2> QED BY <1>1, <1>2, <2>1 DEF IsOverwritten
<1> HIDE DEF x
<1>6. /\ y \in Seq(Nat)
      /\ Len(y) = IF f + p + n > Len(x) THEN f + p + n ELSE Len(x)
      /\ \A i \in 1 .. Len(y) : y[i] = IF f + p < i /\ i <= f + p + n THEN second[i - (f + p)]
                                       ELSE IF i <= Len(x) THEN x[i] ELSE 0
  <2>1. IsOverwritten(y, x, f + p, second)
    BY <1>1, <1>4, <1>5, OverwriteIs
  <2> QED BY <1>1, <1>4, <2>1 DEF IsOverwritten
<1>7. /\ z \in Seq(Nat)
      /\ Len(z) = IF f + (p + n) > Len(b) THEN f + (p + n) ELSE Len(b)
      /\ \A i \in 1 .. Len(z) : z[i] = IF f < i /\ i <= f + (p + n) THEN both[i - f]
                                       ELSE IF i <= Len(b) THEN b[i] ELSE 0
  <2>1. IsOverwritten(z, b, f, both)
    BY <1>3, OverwriteIs
  <2> QED BY <1>1, <1>3, <2>1 DEF IsOverwritten
<1> HIDE DEF y, z
<1>8. Len(y) = Len(z) /\ Len(x) <= Len(y) /\ Len(x) \in Nat /\ Len(y) \in Nat
  <2> DEFINE lx == Len(x)
             lb == Len(b)
             long == f + p + n
             short == f + p
  <2>1. lx \in Nat /\ lx = IF short > lb THEN short ELSE lb
    BY <1>5
  <2>2. Len(y) = IF long > lx THEN long ELSE lx
    BY <1>6
  <2>3. Len(z) = IF long > lb THEN long ELSE lb
    BY <1>7
  <2>4. lb \in Nat /\ short \in Nat /\ long \in Nat /\ short <= long
    BY <1>1
  <2>5. Len(y) \in Nat
    BY <1>6
  <2> HIDE DEF lx, lb, long, short
  <2>6. Len(y) = Len(z) /\ lx <= Len(y)
    BY <2>1, <2>2, <2>3, <2>4
  <2> QED BY <2>1, <2>5, <2>6 DEF lx
<1>9. ASSUME NEW i \in 1 .. Len(y) PROVE y[i] = z[i]
  <2>0. i \in Nat /\ i >= 1 /\ i \in 1 .. Len(z)
    BY <1>8
  <2>1. CASE f + p < i /\ i <= f + p + n
    <3>1. i - (f + p) \in 1 .. n /\ p + (i - (f + p)) = i - f /\ i - f \in 1 .. p + n
      BY <2>0, <2>1
    <3>2. y[i] = s[i - f]
      BY <1>4, <1>6, <2>1, <3>1
    <3>3. f < i /\ i <= f + (p + n)
      BY <2>0, <2>1
    <3>4. z[i] = s[i - f]
      BY <1>3, <1>7, <2>0, <3>1, <3>3
    <3> QED BY <3>2, <3>4
  <2>2. CASE f < i /\ i <= f + p
    <3>1. i \in 1 .. Len(x) /\ ~(f + p < i) /\ i <= Len(x)
      BY <1>1, <1>5, <1>8, <2>0, <2>2
    <3>2. i - f \in 1 .. p /\ i - f \in 1 .. p + n /\ i <= f + (p + n)
      BY <2>0, <2>2
    <3>3. y[i] = x[i]
      BY <1>6, <3>1
    <3>4. x[i] = s[i - f]
      BY <1>2, <1>5, <2>2, <3>1, <3>2
    <3>5. z[i] = s[i - f]
      BY <1>3, <1>7, <2>0, <2>2, <3>2
    <3> QED BY <3>3, <3>4, <3>5
  <2>3. CASE ~(f < i) \/ f + p + n < i
    <3>1. ~(f + p < i /\ i <= f + p + n) /\ ~(f < i /\ i <= f + p) /\ ~(f < i /\ i <= f + (p + n))
      BY <2>0, <2>3
    <3>2. y[i] = IF i <= Len(x) THEN x[i] ELSE 0
      BY <1>6, <3>1
    <3>3. z[i] = IF i <= Len(b) THEN b[i] ELSE 0
      BY <1>7, <2>0, <3>1
    <3>4. CASE i <= Len(x)
      <4>1. i \in 1 .. Len(x)
        BY <1>8, <2>0, <3>4
      <4>2. x[i] = IF i <= Len(b) THEN b[i] ELSE 0
        BY <1>5, <3>1, <4>1
      <4> QED BY <3>2, <3>3, <3>4, <4>2
    <3>5. CASE ~(i <= Len(x))
      <4>1. ~(i <= Len(b))
        BY <1>1, <1>5, <1>8, <2>0, <3>5
      <4> QED BY <3>2, <3>3, <3>5, <4>1
    <3> QED BY <3>4, <3>5
  <2> QED BY <2>0, <2>1, <2>2, <2>3
<1>10. y = z
  BY <1>6, <1>7, <1>8, <1>9, SeqEqual
<1> QED BY <1>10 DEF x, y, z, first, second, both

\* below MASK_LOW the mask leaves a size as it is
LEMMA MaskedIs ==
  ASSUME NEW remaining \in 0 .. MaxSize
  PROVE  Windows!Masked(remaining) = remaining
<1> DEFINE n == 8 * MASK_LOW
           q == remaining \div n
<1>1. MASK_LOW \in Nat \ {0} /\ remaining \in 0 .. MASK_LOW - 1
  BY WindowsAssumption
<1>2. remaining % MASK_LOW = remaining
  BY <1>1, ModNear
<1>3. n \in Nat \ {0} /\ remaining \in 0 .. n - 1
  BY <1>1
<1> HIDE DEF n
<1>4. q = 0
  <2>1. q \in Int /\ remaining % n \in 0 .. n - 1 /\ remaining = n * q + (remaining % n)
    BY <1>3
  <2>2. remaining % n = remaining
    BY <1>3, ModNear
  <2> HIDE DEF q
  <2>3. n * q = 0 /\ n * 0 = 0
    <3>1. n * q \in Int
      BY <1>3, <2>1
    <3> QED BY <1>3, <2>1, <2>2, <3>1
  <2>4. CASE q > 0
    <3>1. n * 0 + n <= n * q
      BY <1>3, <2>1, <2>4, MultiplesApart
    <3> QED BY <1>3, <2>3, <3>1
  <2>5. CASE q < 0
    <3>1. n * q + n <= n * 0
      BY <1>3, <2>1, <2>5, MultiplesApart
    <3> QED BY <1>3, <2>3, <3>1
  <2> QED BY <2>1, <2>4, <2>5
<1>5. q % 2 # 1
  BY <1>4
<1> QED BY <1>2, <1>5 DEF Windows!Masked, n, q

-----------------------------------------------------------------------------
OpenHandles ==
  /\ files \in [FileVar -> Handle \cup {-1}]
  /\ disk \in [DOMAIN disk -> Seq(Nat)]
  /\ handles \in [DOMAIN handles -> [path : DOMAIN disk, position : Nat, mode : Modes]]
  /\ Windows!HandlesOwned

\* a call is on an open File, and before its first byte nothing has changed
CallInv ==
  ~Windows!Idle =>
    /\ call \in [of : {"read", "write"}, file : FileVar, size : 0 .. MaxSize, processed : Nat,
                 from : Nat, before : Seq(Nat)]
    /\ Windows!is_open(call.file)
    /\ call.processed <= call.size
    /\ buffer \in Seq(Nat) /\ Len(buffer) = call.size
    /\ call.of = "write" /\ call.processed = 0 => Windows!Content = call.before

WindowsInv == OpenHandles /\ CallInv /\ Windows!IoInPlace

LEMMA WindowsInit == Windows!Init => WindowsInv
<1> SUFFICES ASSUME Windows!Init PROVE WindowsInv
  OBVIOUS
<1>1. CallInv /\ Windows!IoInPlace
  BY DEF Windows!Init, CallInv, Windows!IoInPlace, Windows!Idle
<1>2. files = [f \in FileVar |-> -1] /\ DOMAIN handles = {} /\ DOMAIN disk = {}
      /\ disk = [p \in {} |-> <<>>] /\ handles = [h \in {} |-> <<>>]
  BY DEF Windows!Init
<1>3. Windows!HandlesOwned
  BY <1>2 DEF Windows!HandlesOwned, Windows!is_open
<1>4. OpenHandles
  BY <1>2, <1>3 DEF OpenHandles
<1> QED BY <1>1, <1>4 DEF WindowsInv

\* a File that is open has a handle
LEMMA HandleOf ==
  ASSUME OpenHandles, NEW f \in FileVar, Windows!is_open(f)
  PROVE  /\ files[f] \in DOMAIN handles /\ files[f] \in Nat /\ files[f] # -1
         /\ handles[files[f]] \in [path : DOMAIN disk, position : Nat, mode : Modes]
         /\ Windows!At(f) = handles[files[f]]
         /\ Windows!At(f).path \in DOMAIN disk /\ Windows!At(f).position \in Nat
         /\ disk[Windows!At(f).path] \in Seq(Nat)
<1>1. files[f] # -1 /\ files[f] \in DOMAIN handles
  BY DEF OpenHandles, Windows!is_open, Windows!HandlesOwned
<1>2. files[f] \in Nat
  BY <1>1, WindowsAssumption DEF OpenHandles
<1>3. handles[files[f]] \in [path : DOMAIN disk, position : Nat, mode : Modes]
  BY <1>1 DEF OpenHandles
<1> HIDE DEF OpenHandles
<1>4. Windows!At(f) = handles[files[f]]
  BY DEF Windows!At
<1> QED BY <1>1, <1>2, <1>3, <1>4 DEF OpenHandles

\* between calls, CallInv and IoInPlace are about nothing
LEMMA NoCallNow ==
  ASSUME Windows!Idle, call' = call PROVE CallInv' /\ Windows!IoInPlace'
BY DEF CallInv, Windows!IoInPlace, Windows!Idle

\* the position of a handle moves
LEMMA HandleMoved ==
  ASSUME OpenHandles, NEW h \in DOMAIN handles, NEW at \in Nat,
         handles' = [handles EXCEPT ![h].position = at],
         files' = files, DOMAIN disk' = DOMAIN disk, disk' \in [DOMAIN disk -> Seq(Nat)]
  PROVE  /\ OpenHandles'
         /\ handles'[h].position = at
         /\ \A g \in DOMAIN handles : handles'[g].path = handles[g].path
<1> DEFINE R == [path : DOMAIN disk, position : Nat, mode : Modes]
           moved == [handles[h] EXCEPT !.position = at]
<1>1. handles \in [DOMAIN handles -> R] /\ handles[h] \in R
  BY DEF OpenHandles
<1>2. moved \in R /\ moved.position = at /\ moved.path = handles[h].path
  BY <1>1
<1>3. handles' = [handles EXCEPT ![h] = moved]
  BY <1>1
<1> HIDE DEF R, moved
<1>4. /\ handles' \in [DOMAIN handles -> R] /\ DOMAIN handles' = DOMAIN handles
      /\ handles'[h] = moved /\ \A g \in DOMAIN handles : g # h => handles'[g] = handles[g]
  BY <1>1, <1>2, <1>3
<1>5. Windows!HandlesOwned'
  BY <1>4 DEF OpenHandles, Windows!HandlesOwned, Windows!is_open
<1>6. OpenHandles'
  BY <1>4, <1>5 DEF OpenHandles, R
<1> QED BY <1>2, <1>4, <1>6

\* what is done with names leaves the files that are open where they are
LEMMA NamesStep ==
  ASSUME OpenHandles, Windows!Idle, NEW now, Windows!Names(now),
         now \in [DOMAIN now -> Seq(Nat)],
         \A h \in DOMAIN handles : handles[h].path \in DOMAIN now
  PROVE  WindowsInv'
<1>1. CallInv' /\ Windows!IoInPlace'
  BY NoCallNow DEF Windows!Names
<1>2. disk' = now /\ files' = files /\ handles' = handles
  BY DEF Windows!Names
<1>3. handles \in [DOMAIN handles -> [path : DOMAIN now, position : Nat, mode : Modes]]
  BY DEF OpenHandles
<1>4. Windows!HandlesOwned'
  BY <1>2 DEF OpenHandles, Windows!HandlesOwned, Windows!is_open
<1>5. OpenHandles'
  BY <1>2, <1>3, <1>4 DEF OpenHandles
<1> QED BY <1>1, <1>5 DEF WindowsInv

LEMMA OpenedIs ==
  ASSUME OpenHandles, NEW p
  PROVE  /\ DOMAIN Windows!Opened(p) = DOMAIN disk \cup {p}
         /\ Windows!Opened(p) \in [DOMAIN disk \cup {p} -> Seq(Nat)]
         /\ \A q \in DOMAIN disk : Windows!Opened(p)[q] = disk[q]
<1>1. \A q \in DOMAIN disk \cup {p} : (IF q \in DOMAIN disk THEN disk[q] ELSE <<>>) \in Seq(Nat)
  BY DEF OpenHandles
<1> QED BY <1>1 DEF Windows!Opened

LEMMA WindowsOpen ==
  ASSUME WindowsInv, NEW f \in FileVar, NEW p \in Path, NEW mode \in Modes, Windows!file_open(f, p, mode)
  PROVE  WindowsInv'
<1>1. PICK h \in Handle \ DOMAIN handles :
        /\ handles' = [g \in DOMAIN handles \cup {h} |->
                         IF g = h THEN [path |-> p, position |-> 0, mode |-> mode] ELSE handles[g]]
        /\ files' = [files EXCEPT ![f] = h]
  BY DEF Windows!file_open
<1>2. Windows!Idle /\ files[f] = -1 /\ call' = call /\ disk' = Windows!Opened(p)
  BY DEF Windows!file_open, Windows!is_open
<1>3. CallInv' /\ Windows!IoInPlace'
  BY <1>2, NoCallNow
<1>4. DOMAIN disk' = DOMAIN disk \cup {p} /\ disk' \in [DOMAIN disk' -> Seq(Nat)]
  BY <1>2, OpenedIs DEF WindowsInv
<1>5. h \in Nat /\ h \notin DOMAIN handles /\ h # -1 /\ DOMAIN handles' = DOMAIN handles \cup {h}
  BY <1>1, WindowsAssumption
<1>6. handles' \in [DOMAIN handles' -> [path : DOMAIN disk', position : Nat, mode : Modes]]
  <2>1. ASSUME NEW g \in DOMAIN handles'
        PROVE  handles'[g] \in [path : DOMAIN disk', position : Nat, mode : Modes]
    <3>1. CASE g = h
      BY <1>1, <1>4, <1>5, <3>1
    <3>2. CASE g # h
      <4>1. g \in DOMAIN handles /\ handles'[g] = handles[g]
        BY <1>1, <1>5, <3>2
      <4>2. handles[g] \in [path : DOMAIN disk, position : Nat, mode : Modes]
        BY <4>1 DEF WindowsInv, OpenHandles
      <4> QED BY <1>4, <4>1, <4>2
    <3> QED BY <3>1, <3>2
  <2> DEFINE D == DOMAIN handles'
  <2>2. handles' = [g \in D |-> handles'[g]]
    BY <1>1, <1>5
  <2> QED BY <2>1, <2>2
<1>7. files' \in [FileVar -> Handle \cup {-1}]
  BY <1>1 DEF WindowsInv, OpenHandles
<1>8. Windows!HandlesOwned'
  <2>1. Windows!HandlesOwned /\ files \in [FileVar -> Handle \cup {-1}]
    BY DEF WindowsInv, OpenHandles
  <2>2. \A g \in FileVar : files'[g] = IF g = f THEN h ELSE files[g]
    BY <1>1, <2>1
  <2>3. DOMAIN handles' = {files'[g] : g \in FileVar} \ {-1}
    BY <1>2, <1>5, <2>1, <2>2 DEF Windows!HandlesOwned
  <2>4. \A g \in FileVar : files[g] # h
    BY <1>5, <2>1 DEF Windows!HandlesOwned
  <2>5. \A g, k \in FileVar : g # k /\ files'[g] # -1 => files'[g] # files'[k]
    BY <2>1, <2>2, <2>4 DEF Windows!HandlesOwned, Windows!is_open
  <2> QED BY <2>3, <2>5 DEF Windows!HandlesOwned, Windows!is_open
<1>9. OpenHandles'
  BY <1>4, <1>6, <1>7, <1>8 DEF OpenHandles
<1> QED BY <1>3, <1>9 DEF WindowsInv

LEMMA WindowsClose ==
  ASSUME WindowsInv, NEW f \in FileVar, Windows!file_close(f) PROVE WindowsInv'
<1>1. /\ Windows!Idle /\ call' = call /\ disk' = disk /\ files[f] # -1
      /\ handles' = [h \in DOMAIN handles \ {files[f]} |-> handles[h]]
      /\ files' = [files EXCEPT ![f] = -1]
  BY DEF Windows!file_close, Windows!is_open
<1>2. CallInv' /\ Windows!IoInPlace'
  BY <1>1, NoCallNow
<1>3. files \in [FileVar -> Handle \cup {-1}] /\ Windows!HandlesOwned
  BY DEF WindowsInv, OpenHandles
<1>4. \A g \in FileVar : files'[g] = IF g = f THEN -1 ELSE files[g]
  BY <1>1, <1>3
<1>5. DOMAIN handles' = DOMAIN handles \ {files[f]}
  BY <1>1
<1>6. Windows!HandlesOwned'
  <2>1. DOMAIN handles' = {files'[g] : g \in FileVar} \ {-1}
    BY <1>1, <1>3, <1>4, <1>5 DEF Windows!HandlesOwned, Windows!is_open
  <2>2. \A g, k \in FileVar : g # k /\ files'[g] # -1 => files'[g] # files'[k]
    BY <1>3, <1>4 DEF Windows!HandlesOwned, Windows!is_open
  <2> QED BY <2>1, <2>2 DEF Windows!HandlesOwned, Windows!is_open
<1>7. handles' \in [DOMAIN handles' -> [path : DOMAIN disk', position : Nat, mode : Modes]]
  BY <1>1, <1>5 DEF WindowsInv, OpenHandles
<1>8. OpenHandles'
  BY <1>1, <1>3, <1>6, <1>7 DEF WindowsInv, OpenHandles
<1> QED BY <1>2, <1>8 DEF WindowsInv

\* two Files exchange their handles
LEMMA WindowsSwap ==
  ASSUME WindowsInv, NEW f \in FileVar, NEW other \in FileVar, Windows!Idle,
         files' = [files EXCEPT ![f] = files[other], ![other] = files[f]],
         UNCHANGED <<disk, handles, call, buffer, state>>
  PROVE  WindowsInv'
<1>1. CallInv' /\ Windows!IoInPlace'
  BY NoCallNow
<1>2. files \in [FileVar -> Handle \cup {-1}] /\ Windows!HandlesOwned
  BY DEF WindowsInv, OpenHandles
<1>3. \A g \in FileVar : files'[g] = IF g = other THEN files[f] ELSE IF g = f THEN files[other] ELSE files[g]
  BY <1>2
<1>4. {files'[g] : g \in FileVar} = {files[g] : g \in FileVar}
  BY <1>3
<1>5. \A g, k \in FileVar : g # k /\ files'[g] # -1 => files'[g] # files'[k]
  BY <1>2, <1>3 DEF Windows!HandlesOwned, Windows!is_open
<1>6. Windows!HandlesOwned'
  BY <1>2, <1>4, <1>5 DEF Windows!HandlesOwned, Windows!is_open
<1>7. files' \in [FileVar -> Handle \cup {-1}]
  BY <1>2
<1> QED BY <1>1, <1>6, <1>7 DEF WindowsInv, OpenHandles

LEMMA WindowsMove ==
  ASSUME WindowsInv, NEW f \in FileVar, NEW other \in FileVar,
         Windows!MoveConstruct(f, other) \/ Windows!MoveAssign(f, other)
  PROVE  WindowsInv'
<1>1. CASE Windows!MoveConstruct(f, other)
  <2>1. files' = [files EXCEPT ![f] = files[other], ![other] = files[f]]
    BY <1>1 DEF Windows!MoveConstruct, Windows!is_open
  <2> QED BY <1>1, <2>1, WindowsSwap DEF Windows!MoveConstruct
<1>2. CASE Windows!MoveAssign(f, other)
  BY <1>2, WindowsSwap DEF Windows!MoveAssign
<1> QED BY <1>1, <1>2

LEMMA WindowsBegin ==
  ASSUME WindowsInv, NEW f \in FileVar, NEW of \in {"read", "write"}, NEW bytes \in Seq(Nat),
         Len(bytes) <= MaxSize, Windows!Begin(f, of, Len(bytes), bytes)
  PROVE  WindowsInv'
<1>1. /\ Windows!is_open(f) /\ buffer' = bytes /\ state' = "ok"
      /\ call' = [of |-> of, file |-> f, size |-> Len(bytes), processed |-> 0,
                  from |-> Windows!At(f).position, before |-> disk[Windows!At(f).path]]
      /\ UNCHANGED <<disk, files, handles>>
  BY DEF Windows!Begin
<1>2. Windows!At(f).position \in Nat /\ disk[Windows!At(f).path] \in Seq(Nat)
  BY <1>1, HandleOf DEF WindowsInv
<1>3. OpenHandles'
  BY <1>1 DEF WindowsInv, OpenHandles, Windows!HandlesOwned, Windows!is_open
<1>4. Windows!At(call.file)' = Windows!At(f)
  BY <1>1 DEF Windows!At
<1>5. Windows!Content' = call'.before /\ Windows!Position' = call'.from
  BY <1>1, <1>4 DEF Windows!Content, Windows!Position
<1>6. CallInv'
  <2>1. Len(bytes) \in 0 .. MaxSize
    BY WindowsAssumption
  <2>2. call' \in [of : {"read", "write"}, file : FileVar, size : 0 .. MaxSize, processed : Nat,
                   from : Nat, before : Seq(Nat)]
    BY <1>1, <1>2, <2>1
  <2>3. Windows!is_open(call.file)' /\ call'.processed = 0 /\ call'.size = Len(bytes)
    BY <1>1 DEF Windows!is_open
  <2> QED BY <1>1, <1>5, <2>1, <2>2, <2>3 DEF CallInv
<1>7. Windows!IoInPlace'
  <2>1. call'.processed = 0 /\ call'.from + 0 = call'.from
    BY <1>1, <1>2
  <2> QED BY <1>1, <1>5, <2>1 DEF Windows!IoInPlace
<1> QED BY <1>3, <1>6, <1>7 DEF WindowsInv

LEMMA WindowsOnClosed ==
  ASSUME WindowsInv, NEW f \in FileVar, Windows!IoOnClosed(f) PROVE WindowsInv'
<1>1. CallInv' /\ Windows!IoInPlace'
  BY NoCallNow DEF Windows!IoOnClosed
<1> QED BY <1>1 DEF Windows!IoOnClosed, WindowsInv, OpenHandles, Windows!HandlesOwned, Windows!is_open

\* what holds of a call that is in progress
LEMMA CallIs ==
  ASSUME WindowsInv, ~Windows!Idle
  PROVE  /\ call \in [of : {"read", "write"}, file : FileVar, size : 0 .. MaxSize, processed : Nat,
                      from : Nat, before : Seq(Nat)]
         /\ Windows!is_open(call.file) /\ files[call.file] \in DOMAIN handles
         /\ buffer \in Seq(Nat) /\ Len(buffer) = call.size /\ call.size \in Nat
         /\ call.processed \in 0 .. call.size /\ call.from \in Nat
         /\ Windows!Content \in Seq(Nat) /\ Windows!Position \in Nat
         /\ Windows!Position = call.from + call.processed
         /\ Windows!At(call.file).path \in DOMAIN disk
<1>1. /\ call \in [of : {"read", "write"}, file : FileVar, size : 0 .. MaxSize, processed : Nat,
                   from : Nat, before : Seq(Nat)]
      /\ Windows!is_open(call.file) /\ call.processed <= call.size
      /\ buffer \in Seq(Nat) /\ Len(buffer) = call.size
      /\ Windows!Position = call.from + call.processed
  BY DEF WindowsInv, CallInv, Windows!IoInPlace
<1>2. call.file \in FileVar /\ call.size \in Nat /\ call.from \in Nat /\ call.processed \in 0 .. call.size
  BY <1>1, WindowsAssumption
<1>3. OpenHandles
  BY DEF WindowsInv
<1> QED BY <1>1, <1>2, <1>3, HandleOf DEF Windows!Content, Windows!Position

\* n bytes were transferred: the position and the count move together
LEMMA TransferredIs ==
  ASSUME WindowsInv, ~Windows!Idle, NEW n \in Nat, call.processed + n <= call.size,
         Windows!Transferred(n), files' = files,
         DOMAIN disk' = DOMAIN disk, disk' \in [DOMAIN disk -> Seq(Nat)]
  PROVE  /\ OpenHandles'
         /\ call' \in [of : {"read", "write"}, file : FileVar, size : 0 .. MaxSize, processed : Nat,
                       from : Nat, before : Seq(Nat)]
         /\ call'.of = call.of /\ call'.file = call.file /\ call'.size = call.size
         /\ call'.from = call.from /\ call'.before = call.before
         /\ call'.processed = call.processed + n
         /\ Windows!Position' = Windows!Position + n
         /\ Windows!At(call.file)'.path = Windows!At(call.file).path
         /\ Windows!is_open(call.file)'
<1> DEFINE R == [of : {"read", "write"}, file : FileVar, size : 0 .. MaxSize, processed : Nat,
                 from : Nat, before : Seq(Nat)]
           h == files[call.file]
           at == handles[h].position + n
<1>1. /\ call \in R /\ Windows!is_open(call.file) /\ h \in DOMAIN handles
      /\ Windows!Position \in Nat /\ call.processed \in Nat
  BY CallIs
<1>2. call' = [call EXCEPT !.processed = call.processed + n]
  BY DEF Windows!Transferred
<1>3. call.processed + n \in Nat
  BY <1>1
<1>4. /\ call' \in R /\ call'.of = call.of /\ call'.file = call.file /\ call'.size = call.size
      /\ call'.from = call.from /\ call'.before = call.before
      /\ call'.processed = call.processed + n
  BY <1>1, <1>2, <1>3
<1>5. handles' = [handles EXCEPT ![h].position = at] /\ at \in Nat
  BY <1>1 DEF Windows!Transferred, Windows!Position, Windows!At
<1>6. OpenHandles
  BY DEF WindowsInv
<1> HIDE DEF R, h, at
<1>7. OpenHandles' /\ handles'[h].position = at
      /\ \A g \in DOMAIN handles : handles'[g].path = handles[g].path
  BY <1>1, <1>5, <1>6, HandleMoved
<1>8. Windows!At(call.file)' = handles'[h] /\ Windows!At(call.file) = handles[h]
  BY <1>4 DEF Windows!At, h
<1>9. Windows!Position' = Windows!Position + n
  BY <1>7, <1>8 DEF Windows!Position, at
<1>10. Windows!is_open(call.file)'
  BY <1>1, <1>4 DEF Windows!is_open
<1> QED BY <1>1, <1>4, <1>7, <1>8, <1>9, <1>10 DEF R

LEMMA WindowsRead ==
  ASSUME WindowsInv, NEW n \in Nat, Windows!ReadFile(n) PROVE WindowsInv'
<1> DEFINE p == call.processed
           left == IF Len(Windows!Content) > Windows!Position
                   THEN Len(Windows!Content) - Windows!Position ELSE 0
           most == Windows!Smaller(Windows!Requested, left)
<1>1. call.of = "read" /\ p < call.size /\ state = "ok"
  BY DEF Windows!ReadFile, Windows!InCall
<1>2. ~Windows!Idle
  BY <1>1 DEF Windows!Idle, Windows!NoCall
<1>3. /\ p \in 0 .. call.size /\ call.size \in 0 .. MaxSize /\ call.from \in Nat
      /\ Windows!Content \in Seq(Nat) /\ Windows!Position \in Nat
      /\ Windows!Position = call.from + p
      /\ buffer \in Seq(Nat) /\ Len(buffer) = call.size /\ call.size \in Nat
  BY <1>2, CallIs
<1>4. Windows!Requested = call.size - p
  <2> DEFINE size_of == call.size
  <2>1. p \in 0 .. size_of /\ size_of \in 0 .. MaxSize /\ MaxSize \in Nat
    BY <1>3, WindowsAssumption
  <2> HIDE DEF p, size_of
  <2>2. size_of - p \in 0 .. MaxSize
    BY <2>1
  <2>3. Windows!Masked(size_of - p) = size_of - p
    BY <2>2, MaskedIs
  <2> QED BY <2>3 DEF Windows!Requested, size_of, p
<1>5. /\ n <= most /\ (n = 0 => most = 0) /\ Windows!Transferred(n)
      /\ buffer' = [i \in DOMAIN buffer |->
                      IF p < i /\ i <= p + n THEN Windows!Content[Windows!Position + i - p] ELSE buffer[i]]
      /\ state' = (IF n = 0 THEN "eof" ELSE "ok")
      /\ UNCHANGED <<disk, files>>
  BY DEF Windows!ReadFile
<1>6. /\ p + n <= call.size
      /\ n > 0 => Windows!Position + n <= Len(Windows!Content)
      /\ n = 0 => Windows!Position >= Len(Windows!Content)
  <2> DEFINE length == Len(Windows!Content)
             asked == call.size - p
             position_now == Windows!Position
  <2>1. length \in Nat /\ position_now \in Nat /\ asked \in Nat /\ asked > 0
    BY <1>1, <1>3
  <2>2. left = IF length > position_now THEN length - position_now ELSE 0
    OBVIOUS
  <2>3. most = IF asked < left THEN asked ELSE left
    BY <1>4 DEF Windows!Smaller
  <2> HIDE DEF length, asked, position_now, left, most
  <2>4. n <= asked /\ n <= left /\ (n = 0 => left = 0)
    BY <1>5, <2>1, <2>2, <2>3
  <2>5. (n > 0 => position_now + n <= length) /\ (n = 0 => position_now >= length)
    BY <2>1, <2>2, <2>4
  <2> QED BY <1>3, <2>4, <2>5 DEF asked, position_now, length
<1>7. disk' \in [DOMAIN disk -> Seq(Nat)]
  BY <1>5 DEF WindowsInv, OpenHandles
<1>8. /\ OpenHandles'
      /\ call' \in [of : {"read", "write"}, file : FileVar, size : 0 .. MaxSize, processed : Nat,
                    from : Nat, before : Seq(Nat)]
      /\ call'.of = "read" /\ call'.size = call.size /\ call'.from = call.from
      /\ call'.processed = p + n
      /\ Windows!Position' = Windows!Position + n
      /\ Windows!At(call.file)'.path = Windows!At(call.file).path
      /\ Windows!is_open(call.file)'
  BY <1>1, <1>2, <1>5, <1>6, <1>7, TransferredIs
<1>9. Windows!Content' = Windows!Content
  BY <1>5, <1>8 DEF Windows!Content
<1>10. ASSUME NEW i \in 1 .. call.size
       PROVE  buffer'[i] \in Nat /\ (i <= p + n => buffer'[i] = Windows!Content[call.from + i])
  <2>1. i \in DOMAIN buffer /\ buffer[i] \in Nat
    BY <1>3
  <2>2. buffer'[i] = IF p < i /\ i <= p + n THEN Windows!Content[Windows!Position + i - p] ELSE buffer[i]
    BY <1>5, <2>1
  <2>3. CASE p < i /\ i <= p + n
    <3> DEFINE from_here == call.from
               at == Windows!Position
               length == Len(Windows!Content)
    <3>1. /\ p \in Nat /\ from_here \in Nat /\ at = from_here + p /\ length \in Nat /\ i \in Nat
          /\ i >= 1 /\ p < i /\ i <= p + n /\ (n > 0 => at + n <= length)
      BY <1>3, <1>6, <2>3
    <3> HIDE DEF p, from_here, at, length
    <3>2. at + i - p = from_here + i /\ from_here + i \in 1 .. length
      BY <3>1
    <3> USE DEF p, from_here, at, length
    <3>3. Windows!Content[from_here + i] \in Nat
      <4> DEFINE content == Windows!Content
                 k == from_here + i
      <4>1. content \in Seq(Nat) /\ k \in 1 .. Len(content)
        BY <1>3, <3>2
      <4> HIDE DEF content, k
      <4>2. content[k] \in Nat
        BY <4>1
      <4> QED BY <4>2 DEF content, k
    <3> QED BY <2>2, <2>3, <3>2, <3>3
  <2>4. CASE ~(p < i /\ i <= p + n)
    <3>1. i <= p + n => i \in 1 .. p
      BY <1>3, <2>4
    <3>2. \A k \in 1 .. p : buffer[k] = Windows!Content[call.from + k]
      BY <1>1, <1>2 DEF WindowsInv, Windows!IoInPlace
    <3> QED BY <2>1, <2>2, <2>4, <3>1, <3>2
  <2> QED BY <2>3, <2>4
<1>11. buffer' \in Seq(Nat) /\ Len(buffer') = call.size
  <2>1. DOMAIN buffer = 1 .. call.size
    BY <1>3
  <2>2. DOMAIN buffer' = 1 .. call.size /\ buffer' = [i \in 1 .. call.size |-> buffer'[i]]
    BY <1>5, <2>1
  <2>3. buffer' \in [1 .. call.size -> Nat]
    BY <1>10, <2>2
  <2>4. buffer' \in Seq(Nat)
    <3> DEFINE size_of == call.size
    <3>1. size_of \in Nat /\ buffer' \in [1 .. size_of -> Nat]
      BY <1>3, <2>3
    <3> HIDE DEF size_of
    <3> QED BY <3>1
  <2> QED BY <1>3, <2>2, <2>4, LenProperties
<1>12. CallInv'
  BY <1>6, <1>8, <1>11 DEF CallInv
<1>13. Windows!IoInPlace'
  <2>1. Windows!Position' = call'.from + call'.processed
    <3> DEFINE from_here == call.from
    <3>1. p \in Nat /\ from_here \in Nat
      BY <1>3
    <3> HIDE DEF p, from_here
    <3>2. from_here + p + n = from_here + (p + n)
      BY <3>1
    <3> QED BY <1>3, <1>8, <3>2 DEF p, from_here
  <2>2. \A i \in 1 .. call'.processed : buffer'[i] = Windows!Content'[call'.from + i]
    <3>1. \A i \in 1 .. p + n : i \in 1 .. call.size
      BY <1>3, <1>6
    <3> QED BY <1>8, <1>9, <1>10, <3>1
  <2>3. state' = "eof" => Windows!Position' >= Len(Windows!Content')
    BY <1>3, <1>5, <1>6, <1>8, <1>9
  <2> QED BY <1>8, <2>1, <2>2, <2>3 DEF Windows!IoInPlace
<1> QED BY <1>8, <1>12, <1>13 DEF WindowsInv

LEMMA WindowsWrite ==
  ASSUME WindowsInv, NEW n \in Nat, Windows!WriteFile(n) PROVE WindowsInv'
<1> DEFINE p == call.processed
           path == Windows!At(call.file).path
           now == Windows!Overwrite(Windows!Content, Windows!Position, SubSeq(buffer, p + 1, p + n))
<1>1. call.of = "write" /\ p < call.size /\ state = "ok"
  BY DEF Windows!WriteFile, Windows!InCall
<1>2. ~Windows!Idle
  BY <1>1 DEF Windows!Idle, Windows!NoCall
<1>3. /\ p \in 0 .. call.size /\ call.size \in 0 .. MaxSize /\ call.from \in Nat /\ call.before \in Seq(Nat)
      /\ Windows!Content \in Seq(Nat) /\ Windows!Position \in Nat
      /\ Windows!Position = call.from + p /\ path \in DOMAIN disk
      /\ buffer \in Seq(Nat) /\ Len(buffer) = call.size /\ call.size \in Nat
  BY <1>2, CallIs
<1>4. Windows!Requested = call.size - p
  <2> DEFINE size_of == call.size
  <2>1. p \in 0 .. size_of /\ size_of \in 0 .. MaxSize /\ MaxSize \in Nat
    BY <1>3, WindowsAssumption
  <2> HIDE DEF p, size_of
  <2>2. size_of - p \in 0 .. MaxSize
    BY <2>1
  <2>3. Windows!Masked(size_of - p) = size_of - p
    BY <2>2, MaskedIs
  <2> QED BY <2>3 DEF Windows!Requested, size_of, p
<1>5. /\ n \in 1 .. Windows!Requested /\ Windows!Transferred(n)
      /\ disk' = [disk EXCEPT ![path] = now]
      /\ UNCHANGED <<files, buffer, state>>
  BY DEF Windows!WriteFile, Windows!Content
<1>6. p + n <= call.size /\ n > 0
  BY <1>3, <1>4, <1>5
<1>7. now \in Seq(Nat)
  <2>1. p \in Nat /\ p + n <= Len(buffer)
    BY <1>3, <1>6
  <2>2. SubSeq(buffer, p + 1, p + n) \in Seq(Nat)
    BY <1>3, <2>1, PartIs
  <2> QED BY <1>3, <2>2, OverwriteIs DEF IsOverwritten
<1> HIDE DEF now
<1>8. DOMAIN disk' = DOMAIN disk /\ disk' \in [DOMAIN disk -> Seq(Nat)] /\ disk'[path] = now
  BY <1>3, <1>5, <1>7 DEF WindowsInv, OpenHandles
<1>9. /\ OpenHandles'
      /\ call' \in [of : {"read", "write"}, file : FileVar, size : 0 .. MaxSize, processed : Nat,
                    from : Nat, before : Seq(Nat)]
      /\ call'.of = "write" /\ call'.size = call.size /\ call'.from = call.from
      /\ call'.before = call.before /\ call'.processed = p + n
      /\ Windows!Position' = Windows!Position + n
      /\ Windows!At(call.file)'.path = path
      /\ Windows!is_open(call.file)'
  BY <1>1, <1>2, <1>5, <1>6, <1>8, TransferredIs
<1>10. Windows!Content' = now
  BY <1>8, <1>9 DEF Windows!Content
<1>11. now = Windows!Overwrite(call.before, call.from, SubSeq(buffer, 1, p + n))
  <2>1. CASE p = 0
    <3>1. Windows!Content = call.before
      BY <1>1, <1>2, <2>1 DEF WindowsInv, CallInv
    <3>2. Windows!Position = call.from /\ p + 1 = 1
      BY <1>3, <2>1
    <3> QED BY <3>1, <3>2 DEF now
  <2>2. CASE p > 0
    <3>1. Windows!Content = Windows!Overwrite(call.before, call.from, SubSeq(buffer, 1, p))
      BY <1>1, <1>2, <2>2 DEF WindowsInv, Windows!IoInPlace
    <3>2. p \in Nat /\ p + n <= Len(buffer)
      BY <1>3, <1>6
    <3>3. Windows!Overwrite(Windows!Overwrite(call.before, call.from, SubSeq(buffer, 1, p)),
                            call.from + p, SubSeq(buffer, p + 1, p + n))
          = Windows!Overwrite(call.before, call.from, SubSeq(buffer, 1, p + n))
      BY <1>3, <3>2, OverwriteParts
    <3> QED BY <1>3, <3>1, <3>3 DEF now
  <2> QED BY <1>3, <2>1, <2>2
<1>12. CallInv'
  BY <1>3, <1>5, <1>6, <1>9 DEF CallInv
<1>13. Windows!IoInPlace'
  <2>1. Windows!Position' = call'.from + call'.processed
    <3> DEFINE from_here == call.from
    <3>1. p \in Nat /\ from_here \in Nat
      BY <1>3
    <3> HIDE DEF p, from_here
    <3>2. from_here + p + n = from_here + (p + n)
      BY <3>1
    <3> QED BY <1>3, <1>9, <3>2 DEF p, from_here
  <2> QED BY <1>5, <1>9, <1>10, <1>11, <2>1 DEF Windows!IoInPlace
<1> QED BY <1>9, <1>12, <1>13 DEF WindowsInv

LEMMA WindowsIoFails ==
  ASSUME WindowsInv, Windows!IoFails PROVE WindowsInv'
<1>1. state' = "error" /\ UNCHANGED <<disk, files, handles, call, buffer>>
  BY DEF Windows!IoFails
<1>2. OpenHandles'
  BY <1>1 DEF WindowsInv, OpenHandles, Windows!HandlesOwned, Windows!is_open
<1>3. CallInv'
  BY <1>1 DEF WindowsInv, CallInv, Windows!Idle, Windows!is_open, Windows!Content, Windows!At
<1>4. Windows!IoInPlace'
  BY <1>1 DEF WindowsInv, Windows!IoInPlace, Windows!Idle, Windows!Content, Windows!Position, Windows!At
<1> QED BY <1>2, <1>3, <1>4 DEF WindowsInv

LEMMA WindowsReturn ==
  ASSUME WindowsInv, Windows!Return PROVE WindowsInv'
<1>1. CallInv' /\ Windows!IoInPlace'
  BY DEF Windows!Return, CallInv, Windows!IoInPlace, Windows!Idle
<1>2. UNCHANGED <<disk, files, handles>>
  BY DEF Windows!Return
<1> QED BY <1>1, <1>2 DEF WindowsInv, OpenHandles, Windows!HandlesOwned, Windows!is_open

LEMMA WindowsSeek ==
  ASSUME WindowsInv, NEW f \in FileVar, NEW offset \in {-1, 0, 2}, NEW from \in {"start", "current", "end"},
         Windows!file_seek(f, offset, from)
  PROVE  WindowsInv'
<1> DEFINE target == Windows!Target(f, offset, from)
<1>1. /\ Windows!Idle /\ Windows!is_open(f)
      /\ handles' = (IF target < 0 THEN handles ELSE [handles EXCEPT ![files[f]].position = target])
      /\ UNCHANGED <<disk, files, call, buffer, state>>
  BY DEF Windows!file_seek
<1>2. CallInv' /\ Windows!IoInPlace'
  BY <1>1, NoCallNow
<1>3. /\ files[f] \in DOMAIN handles /\ Windows!At(f).position \in Nat
      /\ Len(disk[Windows!At(f).path]) \in Nat
  BY <1>1, HandleOf DEF WindowsInv
<1>4. target \in Int
  BY <1>3 DEF Windows!Target
<1> HIDE DEF target
<1>5. CASE target < 0
  BY <1>1, <1>2, <1>5 DEF WindowsInv, OpenHandles, Windows!HandlesOwned, Windows!is_open
<1>6. CASE ~(target < 0)
  <2>1. target \in Nat /\ OpenHandles /\ DOMAIN disk' = DOMAIN disk
        /\ disk' \in [DOMAIN disk -> Seq(Nat)]
    BY <1>1, <1>4, <1>6 DEF WindowsInv, OpenHandles
  <2>2. handles' = [handles EXCEPT ![files[f]].position = target] /\ files' = files
    BY <1>1, <1>6
  <2>3. OpenHandles'
    BY <1>3, <2>1, <2>2, HandleMoved
  <2> QED BY <1>2, <2>3 DEF WindowsInv
<1> QED BY <1>5, <1>6

LEMMA WindowsTrim ==
  ASSUME WindowsInv, NEW f \in FileVar, NEW n \in 0 .. MaxSize, Windows!file_trim(f, n)
  PROVE  WindowsInv'
<1> DEFINE p == Windows!At(f).path
           h == files[f]
           offset == Windows!At(f).position
           at == IF offset < n THEN offset ELSE n
           kept == Windows!Smaller(Len(disk[p]), n)
           now == Windows!Overwrite(SubSeq(disk[p], 1, kept), n, <<>>)
<1>1. /\ Windows!Idle /\ Windows!is_open(f)
      /\ disk' = [disk EXCEPT ![p] = now]
      /\ handles' = [handles EXCEPT ![h].position = at]
      /\ UNCHANGED <<files, call, buffer, state>>
  BY DEF Windows!file_trim
<1>2. CallInv' /\ Windows!IoInPlace'
  BY <1>1, NoCallNow
<1>3. /\ h \in DOMAIN handles /\ offset \in Nat /\ disk[p] \in Seq(Nat) /\ p \in DOMAIN disk
      /\ OpenHandles
  BY <1>1, HandleOf DEF WindowsInv
<1>4. n \in Nat
  BY WindowsAssumption
<1>5. at \in Nat
  BY <1>3, <1>4
<1>6. kept \in 0 .. Len(disk[p])
  BY <1>3, <1>4 DEF Windows!Smaller
<1>7. now \in Seq(Nat)
  <2>1. SubSeq(disk[p], 1, kept) \in Seq(Nat) /\ <<>> \in Seq(Nat)
    BY <1>3, <1>6, FirstItems
  <2> QED BY <1>4, <2>1, OverwriteIs DEF IsOverwritten
<1> HIDE DEF now, at, h, p
<1>8. DOMAIN disk' = DOMAIN disk /\ disk' \in [DOMAIN disk -> Seq(Nat)]
  BY <1>1, <1>3, <1>7 DEF OpenHandles
<1>9. files' = files
  BY <1>1
<1>10. OpenHandles'
  BY <1>1, <1>3, <1>5, <1>8, <1>9, HandleMoved
<1> QED BY <1>2, <1>10 DEF WindowsInv

LEMMA WindowsNames ==
  ASSUME WindowsInv, NEW p \in Path, NEW q \in Path,
         \/ Windows!file_create(p) \/ Windows!file_remove(p)
         \/ Windows!file_move(p, q) \/ Windows!file_copy(p, q)
  PROVE  WindowsInv'
<1>1. OpenHandles /\ disk \in [DOMAIN disk -> Seq(Nat)]
      /\ \A h \in DOMAIN handles : handles[h].path \in DOMAIN disk
  BY DEF WindowsInv, OpenHandles
<1>2. CASE Windows!file_create(p)
  <2> DEFINE now == Windows!Opened(p)
  <2>1. now \in [DOMAIN now -> Seq(Nat)] /\ \A h \in DOMAIN handles : handles[h].path \in DOMAIN now
    BY <1>1, OpenedIs
  <2>2. Windows!Idle /\ Windows!Names(now)
    BY <1>2 DEF Windows!file_create
  <2> HIDE DEF now
  <2> QED BY <1>1, <2>1, <2>2, NamesStep
<1>3. CASE Windows!file_remove(p)
  <2> DEFINE now == [r \in DOMAIN disk \ {p} |-> disk[r]]
  <2>1. Windows!Idle /\ Windows!Names(now) /\ Windows!NotOpen(p)
    BY <1>3 DEF Windows!file_remove
  <2>2. now \in [DOMAIN now -> Seq(Nat)] /\ \A h \in DOMAIN handles : handles[h].path \in DOMAIN now
    BY <1>1, <2>1 DEF Windows!NotOpen
  <2> HIDE DEF now
  <2> QED BY <1>1, <2>1, <2>2, NamesStep
<1>4. CASE Windows!file_move(p, q)
  <2> DEFINE now == [r \in (DOMAIN disk \ {q}) \cup {p} |-> IF r = p THEN disk[q] ELSE disk[r]]
  <2>1. Windows!Idle /\ Windows!Names(now) /\ Windows!NotOpen(q) /\ q \in DOMAIN disk
    BY <1>4 DEF Windows!file_move
  <2>2. now \in [DOMAIN now -> Seq(Nat)] /\ \A h \in DOMAIN handles : handles[h].path \in DOMAIN now
    BY <1>1, <2>1 DEF Windows!NotOpen
  <2> HIDE DEF now
  <2> QED BY <1>1, <2>1, <2>2, NamesStep
<1>5. CASE Windows!file_copy(p, q)
  <2> DEFINE now == [r \in DOMAIN disk \cup {p} |-> IF r = p THEN disk[q] ELSE disk[r]]
  <2>1. Windows!Idle /\ Windows!Names(now) /\ q \in DOMAIN disk
    BY <1>5 DEF Windows!file_copy
  <2>2. now \in [DOMAIN now -> Seq(Nat)] /\ \A h \in DOMAIN handles : handles[h].path \in DOMAIN now
    BY <1>1, <2>1
  <2> HIDE DEF now
  <2> QED BY <1>1, <2>1, <2>2, NamesStep
<1> QED BY <1>2, <1>3, <1>4, <1>5

LEMMA WindowsStep == WindowsInv /\ Windows!Next => WindowsInv'
<1> SUFFICES ASSUME WindowsInv, Windows!Next PROVE WindowsInv'
  OBVIOUS
<1>1. ASSUME NEW f \in FileVar, NEW bytes_size \in 0 .. MaxSize, Windows!BeginRead(f, bytes_size)
      PROVE  WindowsInv'
  <2> DEFINE bytes == [i \in 1 .. bytes_size |-> 0]
  <2>1. bytes_size \in Nat /\ bytes_size <= MaxSize
    BY WindowsAssumption
  <2>2. bytes \in Seq(Nat) /\ DOMAIN bytes = 1 .. bytes_size
    BY <2>1
  <2>3. Windows!Begin(f, "read", bytes_size, bytes)
    BY <1>1 DEF Windows!BeginRead
  <2> HIDE DEF bytes
  <2>4. Len(bytes) = bytes_size
    BY <2>1, <2>2, LenProperties
  <2> QED BY <2>1, <2>2, <2>3, <2>4, WindowsBegin
<1>2. ASSUME NEW f \in FileVar, NEW bytes \in Handed, Windows!is_open(f),
             Windows!At(f).position + Len(bytes) <= MaxSize, Windows!BeginWrite(f, bytes)
      PROVE  WindowsInv'
  <2>1. bytes \in Seq(Nat) /\ Len(bytes) \in Nat /\ Windows!At(f).position \in Nat
    BY <1>2, HandleOf, WindowsAssumption DEF WindowsInv
  <2>2. Len(bytes) <= MaxSize
    BY <1>2, <2>1, WindowsAssumption
  <2> QED BY <1>2, <2>1, <2>2, WindowsBegin DEF Windows!BeginWrite
<1>3. 0 .. MaxSize \subseteq Nat
  BY WindowsAssumption
<1> QED BY <1>1, <1>2, <1>3, WindowsOpen, WindowsClose, WindowsOnClosed, WindowsSeek, WindowsTrim,
           WindowsMove, WindowsRead, WindowsWrite, WindowsIoFails, WindowsReturn, WindowsNames
        DEF Windows!Next

\* a step changes the bytes of a file only through a handle that may write
LEMMA WritersWrite == WindowsInv /\ (Windows!Next \/ UNCHANGED disk) => Windows!WritersStep
<1> SUFFICES ASSUME WindowsInv, Windows!Next \/ UNCHANGED disk, NEW p \in DOMAIN disk \cap DOMAIN disk',
                    disk'[p] # disk[p]
             PROVE  \E h \in DOMAIN handles : handles[h].path = p /\ handles[h].mode.writes
  BY DEF Windows!WritersStep
<1>1. OpenHandles
  BY DEF WindowsInv
<1>2. Windows!Next /\ disk' # disk
  OBVIOUS
<1>3. ASSUME NEW f \in FileVar, NEW now, Windows!is_open(f), Windows!At(f).mode.writes,
             disk' = [disk EXCEPT ![Windows!At(f).path] = now]
      PROVE  \E h \in DOMAIN handles : handles[h].path = p /\ handles[h].mode.writes
  <2>1. files[f] \in DOMAIN handles /\ Windows!At(f) = handles[files[f]]
    BY <1>1, <1>3, HandleOf
  <2>2. Windows!At(f).path = p
    BY <1>3
  <2> QED BY <1>3, <2>1, <2>2
<1>4. ASSUME NEW f \in FileVar, NEW n, Windows!file_trim(f, n)
      PROVE  \E h \in DOMAIN handles : handles[h].path = p /\ handles[h].mode.writes
  BY <1>3, <1>4 DEF Windows!file_trim
<1>5. ASSUME NEW n, Windows!WriteFile(n)
      PROVE  \E h \in DOMAIN handles : handles[h].path = p /\ handles[h].mode.writes
  <2>1. ~Windows!Idle /\ Windows!At(call.file).mode.writes
    BY <1>5 DEF Windows!WriteFile, Windows!InCall, Windows!Idle, Windows!NoCall
  <2>2. call.file \in FileVar /\ Windows!is_open(call.file)
    BY <2>1 DEF WindowsInv, CallInv
  <2>3. PICK now : disk' = [disk EXCEPT ![Windows!At(call.file).path] = now]
    BY <1>5 DEF Windows!WriteFile
  <2> QED BY <1>3, <2>1, <2>2, <2>3
<1>6. \A q : DOMAIN Windows!Opened(q) = DOMAIN disk \cup {q} /\ \A r \in DOMAIN disk : Windows!Opened(q)[r] = disk[r]
  BY <1>1, OpenedIs
<1>7. ASSUME NEW f \in FileVar, NEW q \in Path, NEW mode \in Modes, Windows!file_open(f, q, mode) PROVE FALSE
  BY <1>6, <1>7 DEF Windows!file_open
<1>8. ASSUME NEW new \in Path, NEW old \in Path,
             \/ Windows!file_create(new) \/ Windows!file_remove(new)
             \/ Windows!file_move(new, old) \/ Windows!file_copy(new, old)
      PROVE  FALSE
  BY <1>6, <1>8 DEF Windows!file_create, Windows!file_remove, Windows!file_move, Windows!file_copy, Windows!Names
<1>9. ASSUME \/ \E f \in FileVar : \/ Windows!file_close(f) \/ Windows!IoOnClosed(f)
                                   \/ \E n \in 0 .. MaxSize : Windows!BeginRead(f, n)
                                   \/ \E bytes \in Handed : Windows!BeginWrite(f, bytes)
                                   \/ \E offset \in {-1, 0, 2}, from \in {"start", "current", "end"} :
                                        Windows!file_seek(f, offset, from)
             \/ \E f, other \in FileVar : Windows!MoveConstruct(f, other) \/ Windows!MoveAssign(f, other)
             \/ \E n \in 0 .. MaxSize : Windows!ReadFile(n)
             \/ Windows!IoFails \/ Windows!Return
      PROVE  FALSE
  BY <1>2, <1>9 DEF Windows!file_close, Windows!IoOnClosed, Windows!BeginRead, Windows!BeginWrite,
     Windows!Begin, Windows!file_seek, Windows!MoveConstruct, Windows!MoveAssign, Windows!ReadFile,
     Windows!IoFails, Windows!Return
<1> QED BY <1>2, <1>4, <1>5, <1>7, <1>8, <1>9 DEF Windows!Next

-----------------------------------------------------------------------------
(* Arrays and strings *)

Raw == "raw"
Zero == "null"

\* cells that hold n items, of a string or not, in a block of this capacity
Holds(string, block, n, cap) ==
  /\ cap \in Nat /\ n \in 0 .. cap
  /\ DOMAIN block = 0 .. Arrays(string)!Cells(cap) - 1
  /\ \A i \in DOMAIN block : IF i < n THEN block[i] \in Item ELSE string \/ block[i] = Raw

ArrayInv(string) ==
  /\ Holds(string, data, size, capacity)
  /\ string /\ capacity > 0 => data[size] = Zero

Items == ListOf(size, data)

LEMMA ArrayInvSound ==
  ASSUME NEW string \in BOOLEAN, ArrayInv(string)
  PROVE  Arrays(string)!Lifetimes /\ Arrays(string)!CapacityKept /\ Arrays(string)!Terminated
BY DEF ArrayInv, Holds, Arrays!Lifetimes, Arrays!CapacityKept, Arrays!Terminated,
   Arrays!Raw, Arrays!Zero, Raw, Zero

LEMMA ArrayInit ==
  ASSUME NEW string \in BOOLEAN, Arrays(FALSE)!Init
  PROVE  ArrayInv(string)
<1>1. data = [i \in {} |-> Raw] /\ size = 0 /\ capacity = 0
  BY DEF Arrays!Init, Arrays!Raw, Raw
<1>2. Arrays(string)!Cells(0) = 0
  BY DEF Arrays!Cells
<1>3. 0 .. 0 - 1 = {}
  OBVIOUS
<1> QED BY <1>1, <1>2, <1>3 DEF ArrayInv, Holds

LEMMA CellsAre ==
  ASSUME NEW string \in BOOLEAN, NEW cap \in Nat
  PROVE  /\ Arrays(string)!Cells(cap) \in Nat /\ Arrays(string)!Cells(cap) >= cap
         /\ string /\ cap > 0 => Arrays(string)!Cells(cap) = cap + 1
         /\ \A n \in 0 .. cap : \A i \in 0 .. n - 1 : i \in 0 .. Arrays(string)!Cells(cap) - 1
BY DEF Arrays!Cells

\* cells with a terminator behind n items
LEMMA NullTerminated ==
  ASSUME NEW string \in BOOLEAN, NEW block, NEW n \in Nat
  PROVE  LET out == Arrays(string)!null_terminate(block, n)
         IN  /\ DOMAIN out = DOMAIN block
             /\ \A i \in DOMAIN block : out[i] = IF string /\ i = n THEN Zero ELSE block[i]
BY DEF Arrays!null_terminate, Arrays!Zero, Zero

LEMMA LeftHolds ==
  ASSUME NEW string \in BOOLEAN, NEW cap, NEW block, NEW n,
         Holds(string, block, n, cap), Arrays(string)!Leave(cap, block, n)
  PROVE  /\ ArrayInv(string)'
         /\ size' = n /\ \A i \in 0 .. n - 1 : data'[i] = block[i]
<1>1. data' = Arrays(string)!null_terminate(block, n) /\ size' = n /\ capacity' = cap
  BY DEF Arrays!Leave
<1>2. n \in Nat /\ cap \in Nat /\ n <= cap /\ DOMAIN block = 0 .. Arrays(string)!Cells(cap) - 1
  BY DEF Holds
<1>3. /\ DOMAIN data' = DOMAIN block
      /\ \A i \in DOMAIN block : data'[i] = IF string /\ i = n THEN Zero ELSE block[i]
  <2>1. n \in Nat /\ data' = Arrays(string)!null_terminate(block, n)
    BY <1>1, <1>2
  <2> QED BY <2>1, NullTerminated
<1>4. \A i \in DOMAIN block : IF i < n THEN data'[i] \in Item ELSE string \/ data'[i] = Raw
  BY <1>2, <1>3 DEF Holds
<1>5. ASSUME string, cap > 0 PROVE n \in DOMAIN block
  <2>1. Arrays(string)!Cells(cap) = cap + 1
    BY <1>2, <1>5, CellsAre
  <2> QED BY <1>2, <2>1
<1>6. ASSUME NEW i \in 0 .. n - 1 PROVE i \in DOMAIN block /\ i # n
  <2>1. n \in 0 .. cap /\ i # n
    BY <1>2
  <2>2. i \in 0 .. Arrays(string)!Cells(cap) - 1
    BY <1>2, <2>1, CellsAre
  <2> QED BY <1>2, <2>1, <2>2
<1> QED BY <1>1, <1>2, <1>3, <1>4, <1>5, <1>6 DEF ArrayInv, Holds

LEMMA SetToHolds ==
  ASSUME NEW string \in BOOLEAN, ArrayInv(string), NEW cap \in Nat
  PROVE  LET n == IF size < cap THEN size ELSE cap
             out == Arrays(string)!SetTo(cap)
         IN  /\ Arrays(string)!Smaller(size, cap) = n
             /\ Holds(string, out, n, cap)
             /\ string /\ cap > 0 => out[n] = Zero
             /\ \A i \in 0 .. n - 1 : out[i] = data[i]
<1> DEFINE n == IF size < cap THEN size ELSE cap
           block == [i \in 0 .. Arrays(string)!Cells(cap) - 1 |-> IF i < n THEN data[i] ELSE Raw]
           out == Arrays(string)!SetTo(cap)
<1>1. size \in Nat /\ capacity \in Nat /\ size <= capacity /\ n \in Nat /\ n <= cap /\ n <= size
  BY DEF ArrayInv, Holds
<1>2. Arrays(string)!Smaller(size, cap) = n
  BY DEF Arrays!Smaller
<1>3. out = Arrays(string)!null_terminate(block, n)
  BY <1>2 DEF Arrays!SetTo, Arrays!Raw, Raw
<1>4. \A i \in 0 .. n - 1 : i \in DOMAIN data /\ data[i] \in Item /\ i \in DOMAIN block /\ i # n
  <2> SUFFICES ASSUME NEW i \in 0 .. n - 1
               PROVE  i \in DOMAIN data /\ data[i] \in Item /\ i \in DOMAIN block /\ i # n
    OBVIOUS
  <2> HIDE DEF n
  <2>1. i \in 0 .. size - 1 /\ i # n /\ i < size
    BY <1>1
  <2>2. i \in DOMAIN data
    BY <1>1, <2>1, CellsAre DEF ArrayInv, Holds
  <2>3. i \in 0 .. Arrays(string)!Cells(cap) - 1
    BY <1>1, CellsAre
  <2> QED BY <2>1, <2>2, <2>3 DEF ArrayInv, Holds
<1>5. /\ DOMAIN out = DOMAIN block
      /\ \A i \in DOMAIN block : out[i] = IF string /\ i = n THEN Zero ELSE block[i]
  <2> HIDE DEF n, block, out
  <2> QED BY <1>1, <1>3, NullTerminated
<1>6. \A i \in DOMAIN block : block[i] = IF i < n THEN data[i] ELSE Raw
  OBVIOUS
<1>7. DOMAIN block = 0 .. Arrays(string)!Cells(cap) - 1
  OBVIOUS
<1>8. ASSUME string, cap > 0 PROVE n \in DOMAIN block
  <2> HIDE DEF n, block
  <2>1. Arrays(string)!Cells(cap) = cap + 1
    BY <1>8, CellsAre
  <2> QED BY <1>1, <1>7, <2>1
<1> HIDE DEF n, block, out
<1>9. \A i \in DOMAIN block : i < n => i \in 0 .. n - 1
  BY <1>1, <1>7, CellsAre
<1>10. \A i \in DOMAIN block : IF i < n THEN out[i] \in Item ELSE string \/ out[i] = Raw
  BY <1>4, <1>5, <1>6, <1>9
<1>11. \A i \in 0 .. n - 1 : out[i] = data[i]
  BY <1>1, <1>4, <1>5, <1>6
<1>12. Holds(string, out, n, cap)
  BY <1>1, <1>5, <1>7, <1>10 DEF Holds
<1>13. string /\ cap > 0 => out[n] = Zero
  BY <1>5, <1>8
<1> QED BY <1>2, <1>11, <1>12, <1>13 DEF n, out

LEMMA BlockHolds ==
  ASSUME NEW string \in BOOLEAN, ArrayInv(string), NEW cap \in Nat, cap >= size
  PROVE  /\ Holds(string, Arrays(string)!Block(cap), size, cap)
         /\ \A i \in 0 .. size - 1 : Arrays(string)!Block(cap)[i] = data[i]
<1>1. size \in Nat
  BY DEF ArrayInv, Holds
<1>2. CASE cap = capacity
  BY <1>2 DEF ArrayInv, Arrays!Block
<1>3. CASE cap # capacity
  <2>1. Arrays(string)!Block(cap) = Arrays(string)!SetTo(cap)
    BY <1>3 DEF Arrays!Block
  <2>2. (IF size < cap THEN size ELSE cap) = size
    BY <1>1
  <2> QED BY <2>1, <2>2, SetToHolds
<1> QED BY <1>2, <1>3

\* items constructed in the cells behind those there are, or over them
LEMMA PlacedHolds ==
  ASSUME NEW string \in BOOLEAN, NEW block, NEW n, NEW cap, Holds(string, block, n, cap),
         NEW xs \in Seq(Item), NEW from \in 0 .. n, from + Len(xs) <= cap
  PROVE  LET m == from + Len(xs)
             out == Arrays(string)!Placed(block, from, xs)
         IN  /\ Holds(string, out, IF n < m THEN m ELSE n, cap)
             /\ \A i \in DOMAIN block :
                  out[i] = IF from <= i /\ i < m THEN xs[i - from + 1] ELSE block[i]
<1> DEFINE m == from + Len(xs)
           out == Arrays(string)!Placed(block, from, xs)
           k == IF n < m THEN m ELSE n
<1>1. cap \in Nat /\ n \in Nat /\ n <= cap /\ from \in Nat /\ Len(xs) \in Nat /\ m \in Nat /\ m <= cap
  BY DEF Holds
<1>2. DOMAIN block = 0 .. Arrays(string)!Cells(cap) - 1 /\ Arrays(string)!Cells(cap) \in Nat
  BY <1>1, CellsAre DEF Holds
<1>3. /\ DOMAIN out = DOMAIN block
      /\ \A i \in DOMAIN block : out[i] = IF from <= i /\ i < m THEN xs[i - from + 1] ELSE block[i]
  BY DEF Arrays!Placed
<1> HIDE DEF out
<1>4. k \in 0 .. cap
  <2> HIDE DEF m
  <2> QED BY <1>1
<1>5. ASSUME NEW i \in DOMAIN block
      PROVE  IF i < k THEN out[i] \in Item ELSE string \/ out[i] = Raw
  <2>1. i \in Nat
    BY <1>2
  <2>2. CASE from <= i /\ i < m
    <3>1. i - from + 1 \in 1 .. Len(xs) /\ i < k
      BY <1>1, <2>1, <2>2
    <3>2. xs[i - from + 1] \in Item
      BY <3>1
    <3> QED BY <1>3, <2>2, <3>1, <3>2
  <2>3. CASE ~(from <= i /\ i < m)
    <3>1. out[i] = block[i] /\ (i < k <=> i < n)
      BY <1>1, <1>3, <2>1, <2>3
    <3> QED BY <3>1 DEF Holds
  <2> QED BY <2>2, <2>3
<1>6. Holds(string, out, k, cap)
  <2> HIDE DEF k
  <2> QED BY <1>1, <1>2, <1>3, <1>4, <1>5 DEF Holds
<1> QED BY <1>3, <1>6 DEF out

\* what is destroyed ends with the last item
LEMMA DestroyedHolds ==
  ASSUME NEW string \in BOOLEAN, NEW block, NEW n, NEW cap, Holds(string, block, n, cap),
         NEW from \in Nat, NEW to \in Nat, n = IF from < to THEN to ELSE from
  PROVE  LET out == Arrays(string)!destruct_items(block, from, to)
         IN  /\ Holds(string, out, from, cap)
             /\ \A i \in 0 .. from - 1 : out[i] = block[i]
<1> DEFINE out == Arrays(string)!destruct_items(block, from, to)
<1>1. cap \in Nat /\ n \in Nat /\ n <= cap /\ from <= n
      /\ DOMAIN block = 0 .. Arrays(string)!Cells(cap) - 1
  BY DEF Holds
<1>2. /\ DOMAIN out = DOMAIN block
      /\ \A i \in DOMAIN block :
           out[i] = IF ~string /\ from <= i /\ i < to THEN Raw ELSE block[i]
  BY DEF Arrays!destruct_items, Arrays!Raw, Raw
<1> HIDE DEF out
<1>3. ASSUME NEW i \in DOMAIN block
      PROVE  IF i < from THEN out[i] \in Item ELSE string \/ out[i] = Raw
  <2>1. i \in Nat /\ out[i] = IF ~string /\ from <= i /\ i < to THEN Raw ELSE block[i]
    BY <1>1, <1>2, CellsAre
  <2>2. IF i < n THEN block[i] \in Item ELSE string \/ block[i] = Raw
    BY DEF Holds
  <2>3. i < n <=> i < from \/ i < to
    BY <1>1, <2>1
  <2> QED BY <2>1, <2>2, <2>3
<1>4. \A i \in 0 .. from - 1 : i \in DOMAIN block /\ ~(from <= i)
  <2>1. from \in 0 .. cap /\ \A i \in 0 .. from - 1 : ~(from <= i)
    BY <1>1
  <2> QED BY <1>1, <2>1, CellsAre
<1>5. Holds(string, out, from, cap)
  BY <1>1, <1>2, <1>3 DEF Holds
<1> QED BY <1>2, <1>4, <1>5 DEF out

LEMMA GrownFits ==
  ASSUME NEW string \in BOOLEAN, size \in Nat, capacity \in Nat, size <= capacity, NEW to_fit \in Nat
  PROVE  Arrays(string)!Grown(to_fit) \in Nat /\ Arrays(string)!Grown(to_fit) >= to_fit
<1> DEFINE N == to_fit * 2 + 8
           D == 0 .. N
           Stop == {n \in D : ~(n < to_fit)}
           next == [n \in D |-> (n * 3) \div 2 + 8]
           Unfolded(v) == v = [n \in D |-> IF n < to_fit THEN v[(n * 3) \div 2 + 8] ELSE n]
           f == CHOOSE v : Unfolded(v)
           m == [n \in D |-> N - n]
           out == [n \in D |-> n]
           P == {p \in D \X Nat : p[2] >= to_fit}
           listed == FALSE
<1>1. Arrays(string)!Grown(to_fit) = IF capacity >= to_fit THEN capacity ELSE f[size]
  BY DEF Arrays!Grown
<1>2. CASE capacity >= to_fit
  BY <1>1, <1>2
<1>3. CASE ~(capacity >= to_fit)
  <2>1. ASSUME NEW n \in D \ Stop
        PROVE  next[n] \in D /\ m[next[n]] < m[n]
    <3>1. n \in Nat /\ n < to_fit /\ next[n] = (n * 3) \div 2 + 8
      OBVIOUS
    <3>2. (n * 3) \div 2 \in Nat /\ (n * 3) \div 2 <= n + n /\ (n * 3) \div 2 >= n
      <4> DEFINE q == (n * 3) \div 2
      <4>1. q \in Int /\ n * 3 >= 2 * q /\ n * 3 < 2 * q + 2
        BY <3>1
      <4> HIDE DEF q
      <4>2. q \in Nat /\ q <= n + n /\ q >= n
        BY <3>1, <4>1
      <4> QED BY <4>2 DEF q
    <3> DEFINE q == (n * 3) \div 2
    <3> HIDE DEF q
    <3>3. q + 8 \in D /\ q + 8 > n
      BY <3>1, <3>2 DEF q
    <3>4. m[q + 8] = N - (q + 8) /\ m[n] = N - n
      BY <3>3
    <3>5. N - (q + 8) < N - n
      BY <3>1, <3>2, <3>3 DEF q
    <3> QED BY <3>1, <3>3, <3>4, <3>5 DEF q
  <2>2. N \in Nat /\ m \in [D -> 0 .. N]
    OBVIOUS
  <2>3. Descends(D, Stop, next, m, N)
    <3> HIDE DEF N, D, m, next, Stop
    <3> QED BY <2>1, <2>2 DEF Descends
  <2>4. \A v : Unfolded(v) <=> IsWalk(D, Stop, out, next, listed, out, v)
    <3> SUFFICES ASSUME NEW v
                 PROVE  [n \in D |-> IF n < to_fit THEN v[(n * 3) \div 2 + 8] ELSE n]
                        = [n \in D |-> IF n \in Stop THEN out[n] ELSE Passing(listed, out, n, v[next[n]])]
      BY DEF IsWalk
    <3>1. \A n \in D : (n < to_fit <=> n \notin Stop) /\ out[n] = n /\ next[n] = (n * 3) \div 2 + 8
      OBVIOUS
    <3>2. \A n : Passing(listed, out, n, v[next[n]]) = v[next[n]]
      BY DEF Passing
    <3> HIDE DEF D, out, next, Stop, listed
    <3> QED BY <3>1, <3>2
  <2>5. \E v : Unfolded(v)
    <3> HIDE DEF D, Stop, out, next, m, N, Unfolded, listed
    <3> QED BY <2>3, <2>4, WalkExists
  <2>6. IsWalk(D, Stop, out, next, listed, out, f)
    <3> HIDE DEF Unfolded
    <3>1. Unfolded(f)
      BY <2>5
    <3> QED BY <2>4, <3>1
  <2>7. StepsKeep(D, Stop, out, next, listed, out, P)
    <3>1. \A n \in D \cap Stop : <<n, out[n]>> \in P
      OBVIOUS
    <3>2. \A n \in D \ Stop : \A v : <<next[n], v>> \in P => <<n, v>> \in P
      OBVIOUS
    <3>3. \A n, v : Passing(listed, out, n, v) = v
      BY DEF Passing
    <3> HIDE DEF D, Stop, out, next, P, listed
    <3> QED BY <3>1, <3>2, <3>3 DEF StepsKeep
  <2>8. \A n \in D : <<n, f[n]>> \in P
    <3> HIDE DEF D, Stop, out, next, m, N, f, P, listed
    <3> QED BY <2>3, <2>6, <2>7, WalkKeeps
  <2>10. size \in D
    BY <1>3
  <2>11. <<size, f[size]>> \in P
    <3> HIDE DEF D, f, P
    <3> QED BY <2>8, <2>10
  <2> HIDE DEF f
  <2>12. f[size] \in Nat /\ f[size] >= to_fit
    BY <2>11
  <2> QED BY <1>1, <1>3, <2>12
<1> QED BY <1>2, <1>3

LEMMA HeldItems ==
  ASSUME NEW string \in BOOLEAN, NEW block, NEW n, NEW cap, Holds(string, block, n, cap)
  PROVE  /\ n \in Nat /\ n <= cap /\ cap \in Nat
         /\ \A i \in 0 .. n - 1 : i \in DOMAIN block /\ block[i] \in Item
         /\ ListOf(n, block) \in Seq(Item) /\ Len(ListOf(n, block)) = n
         /\ \A i \in 1 .. n : ListOf(n, block)[i] = block[i - 1]
<1>1. n \in Nat /\ n <= cap /\ cap \in Nat
  BY DEF Holds
<1>2. \A i \in 0 .. n - 1 : i \in DOMAIN block /\ i < n
  BY <1>1, CellsAre DEF Holds
<1>3. \A i \in 0 .. n - 1 : block[i] \in Item
  BY <1>2 DEF Holds
<1>4. ListOf(n, block) \in Seq(Item) /\ Len(ListOf(n, block)) = n
  BY <1>1, <1>3, ListOfIs
<1>5. \A i \in 1 .. n : ListOf(n, block)[i] = block[i - 1]
  BY DEF ListOf
<1> QED BY <1>1, <1>2, <1>3, <1>4, <1>5

\* what an operation leaves when it leaves n items in these cells
LEMMA LeftItems ==
  ASSUME NEW string \in BOOLEAN, NEW cap, NEW block, NEW n,
         Holds(string, block, n, cap), Arrays(string)!Leave(cap, block, n)
  PROVE  /\ ArrayInv(string)'
         /\ Items' \in Seq(Item) /\ Len(Items') = n
         /\ \A i \in 1 .. n : Items'[i] = block[i - 1]
<1>1. ArrayInv(string)' /\ size' = n /\ \A i \in 0 .. n - 1 : data'[i] = block[i]
  BY LeftHolds
<1>2. n \in Nat
  BY DEF Holds
<1>3. \A i \in 1 .. n : data'[i - 1] = block[i - 1]
  BY <1>1, <1>2
<1>4. Items' = ListOf(n, block)
  BY <1>1, <1>3 DEF Items, ListOf
<1> QED BY <1>1, <1>4, HeldItems

LEMMA PresentItems ==
  ASSUME NEW string \in BOOLEAN, ArrayInv(string)
  PROVE  /\ size \in Nat /\ capacity \in Nat /\ size <= capacity
         /\ \A i \in 0 .. size - 1 : i \in DOMAIN data /\ data[i] \in Item
         /\ Items \in Seq(Item) /\ Len(Items) = size
         /\ \A i \in 1 .. size : Items[i] = data[i - 1]
BY HeldItems DEF ArrayInv, Items

LEMMA ItemsAre ==
  ASSUME NEW string \in BOOLEAN
  PROVE  Arrays(string)!items = Items /\ Arrays(string)!items' = Items'
BY DEF Arrays!items, Items, ListOf

\* the block that an operation works on when it needs room for this many items
LEMMA RoomForMore ==
  ASSUME NEW string \in BOOLEAN, ArrayInv(string), NEW to_fit \in Nat, to_fit >= size
  PROVE  LET grown == Arrays(string)!Grown(to_fit)
             reserved == Arrays(string)!Reserved(to_fit)
         IN  /\ grown \in Nat /\ grown >= to_fit /\ grown >= size
             /\ Holds(string, Arrays(string)!Block(grown), size, grown)
             /\ \A i \in 0 .. size - 1 : Arrays(string)!Block(grown)[i] = data[i]
             /\ reserved \in Nat /\ reserved >= to_fit /\ reserved >= size
             /\ Holds(string, Arrays(string)!Block(reserved), size, reserved)
             /\ \A i \in 0 .. size - 1 : Arrays(string)!Block(reserved)[i] = data[i]
<1> DEFINE grown == Arrays(string)!Grown(to_fit)
           reserved == Arrays(string)!Reserved(to_fit)
<1>1. size \in Nat /\ capacity \in Nat /\ size <= capacity
  BY PresentItems
<1>2. grown \in Nat /\ grown >= to_fit
  BY <1>1, GrownFits
<1>3. reserved = IF capacity >= to_fit THEN capacity ELSE to_fit
  BY DEF Arrays!Reserved
<1> HIDE DEF grown, reserved
<1>4. grown >= size /\ reserved \in Nat /\ reserved >= to_fit /\ reserved >= size
  BY <1>1, <1>2, <1>3
<1>5. /\ Holds(string, Arrays(string)!Block(grown), size, grown)
      /\ \A i \in 0 .. size - 1 : Arrays(string)!Block(grown)[i] = data[i]
  BY <1>2, <1>4, BlockHolds
<1>6. /\ Holds(string, Arrays(string)!Block(reserved), size, reserved)
      /\ \A i \in 0 .. size - 1 : Arrays(string)!Block(reserved)[i] = data[i]
  BY <1>4, BlockHolds
<1> QED BY <1>2, <1>4, <1>5, <1>6 DEF grown, reserved

\* the block holds the items of the array and xs behind them
IsPutBehind(string, out, xs, cap) ==
  /\ Holds(string, out, size + Len(xs), cap)
  /\ \A i \in 0 .. size - 1 : out[i] = data[i]
  /\ \A i \in 0 .. Len(xs) - 1 : out[size + i] = xs[i + 1]

\* items put behind those there are
LEMMA PutBehind ==
  ASSUME NEW string \in BOOLEAN, ArrayInv(string), NEW cap \in Nat, NEW block,
         Holds(string, block, size, cap), \A i \in 0 .. size - 1 : block[i] = data[i],
         NEW xs \in Seq(Item), size + Len(xs) <= cap
  PROVE  IsPutBehind(string, Arrays(string)!Placed(block, size, xs), xs, cap)
<1> DEFINE out == Arrays(string)!Placed(block, size, xs)
           n == Len(xs)
<1>1. size \in Nat /\ n \in Nat
  BY PresentItems
<1>2. (IF size < size + n THEN size + n ELSE size) = size + n /\ size \in 0 .. size
  BY <1>1
<1>3. /\ Holds(string, out, size + n, cap)
      /\ \A i \in DOMAIN block : out[i] = IF size <= i /\ i < size + n THEN xs[i - size + 1] ELSE block[i]
  <2>1. size + Len(xs) <= cap
    OBVIOUS
  <2> HIDE DEF out
  <2> QED BY <1>2, <2>1, PlacedHolds DEF out
<1>4. DOMAIN out = DOMAIN block
  BY DEF Arrays!Placed
<1> HIDE DEF out, n
<1>5. \A i \in 0 .. size + n - 1 : i \in DOMAIN block
  <2> DEFINE k == size + n
  <2> HIDE DEF k
  <2>1. Holds(string, out, k, cap)
    BY <1>3 DEF k
  <2>2. \A i \in 0 .. k - 1 : i \in DOMAIN out
    BY <2>1, HeldItems
  <2>3. \A i \in 0 .. k - 1 : i \in DOMAIN block
    BY <1>4, <2>2
  <2>4. 0 .. size + n - 1 = 0 .. k - 1
    BY <1>1 DEF k
  <2> QED BY <2>3, <2>4
<1>6. ASSUME NEW i \in 0 .. size - 1 PROVE out[i] = data[i]
  <2>1. i \in 0 .. size + n - 1 /\ ~(size <= i)
    BY <1>1
  <2> QED BY <1>3, <1>5, <2>1
<1>7. ASSUME NEW i \in 0 .. n - 1 PROVE out[size + i] = xs[i + 1]
  <2> DEFINE k == size + i
  <2>1. k \in 0 .. size + n - 1 /\ size <= k /\ k < size + n /\ k - size + 1 = i + 1
    BY <1>1
  <2> HIDE DEF k
  <2>2. out[k] = xs[k - size + 1]
    BY <1>3, <1>5, <2>1
  <2> QED BY <2>1, <2>2 DEF k
<1> QED BY <1>3, <1>6, <1>7 DEF out, n, IsPutBehind

LEMMA PushKeeps ==
  ASSUME NEW string \in BOOLEAN, ArrayInv(string), NEW x \in Item, Arrays(string)!push(x)
  PROVE  ArrayInv(string)' /\ Items' = Append(Items, x)
<1> DEFINE cap == Arrays(string)!Grown(size + 1)
           block == Arrays(string)!Block(cap)
           xs == <<x>>
           out == Arrays(string)!Placed(block, size, xs)
<1>1. Arrays(string)!Leave(cap, out, size + 1)
  BY DEF Arrays!push
<1>2. size \in Nat /\ size + 1 \in Nat /\ size + 1 >= size /\ Items \in Seq(Item) /\ Len(Items) = size
      /\ \A i \in 1 .. size : Items[i] = data[i - 1]
  BY PresentItems
<1>3. /\ cap \in Nat /\ cap >= size + 1 /\ Holds(string, block, size, cap)
      /\ \A i \in 0 .. size - 1 : block[i] = data[i]
  <2> DEFINE to_fit == size + 1
  <2> HIDE DEF to_fit
  <2>1. to_fit \in Nat /\ to_fit >= size
    BY <1>2 DEF to_fit
  <2>2. /\ Arrays(string)!Grown(to_fit) \in Nat /\ Arrays(string)!Grown(to_fit) >= to_fit
        /\ Holds(string, Arrays(string)!Block(Arrays(string)!Grown(to_fit)), size, Arrays(string)!Grown(to_fit))
        /\ \A i \in 0 .. size - 1 : Arrays(string)!Block(Arrays(string)!Grown(to_fit))[i] = data[i]
    BY <2>1, RoomForMore
  <2> QED BY <2>2 DEF to_fit
<1>4. xs \in Seq(Item) /\ Len(xs) = 1 /\ xs[1] = x /\ size + Len(xs) <= cap
  BY <1>3
<1> HIDE DEF cap, block, xs
<1>5. /\ Holds(string, out, size + Len(xs), cap)
      /\ \A i \in 0 .. size - 1 : out[i] = data[i]
      /\ \A i \in 0 .. Len(xs) - 1 : out[size + i] = xs[i + 1]
  <2>1. IsPutBehind(string, out, xs, cap)
    BY <1>3, <1>4, PutBehind
  <2> QED BY <2>1 DEF IsPutBehind
<1> HIDE DEF out
<1>6. Holds(string, out, size + 1, cap) /\ out[size] = x
  <2>1. 0 \in 0 .. Len(xs) - 1 /\ size + 0 = size /\ 0 + 1 = 1
    BY <1>2, <1>4
  <2>2. out[size + 0] = xs[0 + 1]
    BY <1>5, <2>1
  <2> QED BY <1>4, <1>5, <2>1, <2>2
<1>7. ArrayInv(string)'
  BY <1>1, <1>6, LeftItems
<1>8. /\ Items' \in Seq(Item) /\ Len(Items') = size + 1
      /\ \A i \in 1 .. size + 1 : Items'[i] = out[i - 1]
  BY <1>1, <1>6, LeftItems
<1>9. Items' = Append(Items, Items'[size + 1])
  <2>1. \A i \in 1 .. size : i \in 1 .. size + 1 /\ i - 1 \in 0 .. size - 1
    BY <1>2
  <2>2. \A i \in 1 .. size : Items'[i] = Items[i]
    BY <1>2, <1>5, <1>8, <2>1
  <2> HIDE DEF Items
  <2> QED BY <1>2, <1>8, <2>2, AppendIs
<1>10. Items'[size + 1] = x
  <2> DEFINE k == size + 1
  <2>1. k \in 1 .. k /\ k - 1 = size
    BY <1>2
  <2>2. \A i \in 1 .. k : Items'[i] = out[i - 1]
    BY <1>8
  <2> HIDE DEF k
  <2>3. Items'[k] = out[k - 1]
    BY <2>1, <2>2
  <2> QED BY <1>6, <2>1, <2>3 DEF k
<1> QED BY <1>7, <1>9, <1>10

LEMMA PushMultipleKeeps ==
  ASSUME NEW string \in BOOLEAN, ArrayInv(string), NEW xs \in Seq(Item), Arrays(string)!push_multiple(xs)
  PROVE  ArrayInv(string)' /\ Items' = Items \o xs
<1> DEFINE k == Len(xs)
           to_fit == size + k
           cap == Arrays(string)!Grown(to_fit)
           block == Arrays(string)!Block(cap)
           out == Arrays(string)!Placed(block, size, xs)
<1>1. Arrays(string)!Leave(cap, out, to_fit)
  BY DEF Arrays!push_multiple
<1>2. size \in Nat /\ k \in Nat /\ to_fit \in Nat /\ to_fit >= size
  BY PresentItems
<1>3. Items \in Seq(Item) /\ Len(Items) = size /\ \A i \in 1 .. size : Items[i] = data[i - 1]
  BY PresentItems
<1> HIDE DEF k
<1>4. /\ cap \in Nat /\ cap >= to_fit /\ Holds(string, block, size, cap)
      /\ \A i \in 0 .. size - 1 : block[i] = data[i]
  <2> HIDE DEF to_fit
  <2> QED BY <1>2, RoomForMore
<1> HIDE DEF cap, block
<1>5. /\ Holds(string, out, to_fit, cap)
      /\ \A i \in 0 .. size - 1 : out[i] = data[i]
      /\ \A i \in 0 .. k - 1 : out[size + i] = xs[i + 1]
  <2>1. size + Len(xs) <= cap
    BY <1>4 DEF k
  <2> HIDE DEF out
  <2>2. IsPutBehind(string, out, xs, cap)
    BY <1>4, <2>1, PutBehind DEF out
  <2> QED BY <1>4, <2>2 DEF IsPutBehind, k
<1> HIDE DEF out, to_fit
<1>6. /\ ArrayInv(string)' /\ Items' \in Seq(Item) /\ Len(Items') = to_fit
      /\ \A i \in 1 .. to_fit : Items'[i] = out[i - 1]
  BY <1>1, <1>5, LeftItems
<1>7. Items' = Items \o xs
  <2>1. \A i \in 1 .. size : i \in 1 .. to_fit /\ i - 1 \in 0 .. size - 1
    BY <1>2 DEF to_fit
  <2>2. \A i \in 1 .. Len(Items) : Items'[i] = Items[i]
    BY <1>3, <1>5, <1>6, <2>1
  <2>3. ASSUME NEW i \in 1 .. Len(xs) PROVE Items'[Len(Items) + i] = xs[i]
    <3> DEFINE m == size + i
               j == i - 1
    <3>1. m \in 1 .. to_fit /\ m - 1 = size + j /\ j \in 0 .. k - 1 /\ j + 1 = i
      BY <1>2 DEF to_fit, k
    <3> HIDE DEF m, j
    <3>2. Items'[m] = out[m - 1] /\ out[size + j] = xs[j + 1]
      BY <1>5, <1>6, <3>1
    <3>3. Items'[m] = xs[i]
      BY <3>1, <3>2
    <3> QED BY <1>3, <3>3 DEF m
  <2>4. Len(Items') = Len(Items) + Len(xs)
    BY <1>3, <1>6 DEF to_fit, k
  <2> HIDE DEF Items
  <2> QED BY <1>3, <1>6, <2>2, <2>3, <2>4, ConcatIs
<1> QED BY <1>6, <1>7

\* the items from `from` on are destroyed
LEMMA TakeOffKeeps ==
  ASSUME NEW string \in BOOLEAN, ArrayInv(string), NEW from \in 0 .. size,
         Arrays(string)!Leave(capacity, Arrays(string)!destruct_items(data, from, size), from)
  PROVE  ArrayInv(string)' /\ Items' = SubSeq(Items, 1, from)
<1> DEFINE out == Arrays(string)!destruct_items(data, from, size)
<1>1. /\ size \in Nat /\ Items \in Seq(Item) /\ Len(Items) = size
      /\ \A i \in 1 .. size : Items[i] = data[i - 1]
  BY PresentItems
<1>2. from \in Nat /\ size = (IF from < size THEN size ELSE from)
  BY <1>1
<1>3. Holds(string, out, from, capacity) /\ \A i \in 0 .. from - 1 : out[i] = data[i]
  <2> HIDE DEF out
  <2>1. Holds(string, data, size, capacity)
    BY DEF ArrayInv
  <2> QED BY <1>1, <1>2, <2>1, DestroyedHolds DEF out
<1>4. /\ ArrayInv(string)' /\ Items' \in Seq(Item) /\ Len(Items') = from
      /\ \A i \in 1 .. from : Items'[i] = out[i - 1]
  <2> HIDE DEF out
  <2> QED BY <1>3, LeftItems DEF out
<1> HIDE DEF out
<1>5. Items' = SubSeq(Items, 1, Len(Items'))
  <2>1. \A i \in 1 .. from : i \in 1 .. size /\ i - 1 \in 0 .. from - 1
    BY <1>1, <1>2
  <2>2. \A i \in 1 .. Len(Items') : Items'[i] = Items[i]
    BY <1>1, <1>3, <1>4, <2>1
  <2>3. Len(Items') <= Len(Items)
    BY <1>1, <1>2, <1>4
  <2> HIDE DEF Items
  <2> QED BY <1>1, <1>4, <2>2, <2>3, TruncatedIs
<1> QED BY <1>4, <1>5

LEMMA WholeIs ==
  ASSUME NEW S, NEW s \in Seq(S)
  PROVE  SubSeq(s, 1, Len(s)) = s
BY SubSeqFull

LEMMA PopKeeps ==
  ASSUME NEW string \in BOOLEAN, ArrayInv(string), NEW n \in 0 .. size,
         Arrays(string)!pop_multiple(n) \/ (n = 1 /\ Arrays(string)!pop)
  PROVE  ArrayInv(string)' /\ Items' = SubSeq(Items, 1, size - n)
<1>1. size \in Nat
  BY PresentItems
<1> DEFINE from == size - n
<1>2. from \in 0 .. size
  BY <1>1
<1>3. Arrays(string)!Leave(capacity, Arrays(string)!destruct_items(data, from, size), from)
  BY DEF Arrays!pop_multiple, Arrays!pop
<1> HIDE DEF from
<1>4. ArrayInv(string)' /\ Items' = SubSeq(Items, 1, from)
  BY <1>2, <1>3, TakeOffKeeps
<1> QED BY <1>4 DEF from

LEMMA SetCapacityKeeps ==
  ASSUME NEW string \in BOOLEAN, ArrayInv(string), NEW cap \in Nat, Arrays(string)!set_capacity(cap)
  PROVE  /\ ArrayInv(string)'
         /\ Items' = SubSeq(Items, 1, IF size < cap THEN size ELSE cap)
<1> DEFINE n == IF size < cap THEN size ELSE cap
<1>1. /\ data' = Arrays(string)!SetTo(cap) /\ size' = Arrays(string)!Smaller(size, cap)
      /\ capacity' = cap
  BY DEF Arrays!set_capacity
<1>2. /\ Arrays(string)!Smaller(size, cap) = n
      /\ Holds(string, Arrays(string)!SetTo(cap), n, cap)
      /\ string /\ cap > 0 => Arrays(string)!SetTo(cap)[n] = Zero
      /\ \A i \in 0 .. n - 1 : Arrays(string)!SetTo(cap)[i] = data[i]
  BY SetToHolds
<1>3. ArrayInv(string)' /\ size' = n
  <2> HIDE DEF n
  <2> QED BY <1>1, <1>2 DEF ArrayInv
<1>4. /\ size \in Nat /\ Items \in Seq(Item) /\ Len(Items) = size
      /\ \A i \in 1 .. size : Items[i] = data[i - 1]
  BY PresentItems
<1>5. n \in Nat /\ n <= size
  BY <1>4
<1> HIDE DEF n
<1>6. Items' = ListOf(n, Arrays(string)!SetTo(cap))
  BY <1>1, <1>3 DEF Items
<1>7. /\ Items' \in Seq(Item) /\ Len(Items') = n
      /\ \A i \in 1 .. n : Items'[i] = Arrays(string)!SetTo(cap)[i - 1]
  BY <1>2, <1>6, HeldItems
<1>8. Items' = SubSeq(Items, 1, Len(Items'))
  <2>1. \A i \in 1 .. n : i \in 1 .. size /\ i - 1 \in 0 .. n - 1
    BY <1>4, <1>5
  <2>2. \A i \in 1 .. Len(Items') : Items'[i] = Items[i]
    BY <1>2, <1>4, <1>7, <2>1
  <2>3. Len(Items') <= Len(Items)
    BY <1>4, <1>5, <1>7
  <2> HIDE DEF Items
  <2> QED BY <1>4, <1>7, <2>2, <2>3, TruncatedIs
<1> QED BY <1>3, <1>7, <1>8 DEF n

LEMMA FilledIs ==
  ASSUME NEW x \in Item, NEW n \in Int
  PROVE  LET xs == [i \in 1 .. n |-> x]
             m == IF n > 0 THEN n ELSE 0
         IN  xs \in Seq(Item) /\ Len(xs) = m /\ \A i \in 1 .. m : xs[i] = x
<1> DEFINE m == IF n > 0 THEN n ELSE 0
           xs == [i \in 1 .. m |-> x]
<1>1. m \in Nat /\ 1 .. n = 1 .. m
  OBVIOUS
<1> HIDE DEF m
<1>2. xs \in [1 .. m -> Item]
  OBVIOUS
<1>3. xs \in Seq(Item)
  BY <1>1, <1>2
<1>4. Len(xs) = m
  BY <1>1, <1>2, <1>3
<1>5. \A i \in 1 .. m : xs[i] = x
  OBVIOUS
<1>6. [i \in 1 .. n |-> x] = xs
  BY <1>1
<1> HIDE DEF xs
<1> QED BY <1>3, <1>4, <1>5, <1>6 DEF m

LEMMA ResizeKeeps ==
  ASSUME NEW string \in BOOLEAN, ArrayInv(string), NEW to \in Nat, NEW x \in Item,
         Arrays(string)!resize(to, x)
  PROVE  /\ ArrayInv(string)'
         /\ to >= size => Items' = [i \in 1 .. to |-> IF i <= size THEN Items[i] ELSE x]
         /\ to < size => Items' = SubSeq(Items, 1, to)
<1> DEFINE more == to - size
           xs == [i \in 1 .. more |-> x]
           cap == Arrays(string)!Reserved(to)
           block == Arrays(string)!Block(cap)
           filled == Arrays(string)!Placed(block, size, xs)
           out == Arrays(string)!destruct_items(filled, to, size)
           most == IF to < size THEN size ELSE to
<1>1. Arrays(string)!Leave(cap, out, to)
  BY DEF Arrays!resize
<1>2. /\ size \in Nat /\ capacity \in Nat /\ size <= capacity /\ Items \in Seq(Item) /\ Len(Items) = size
      /\ \A i \in 1 .. size : Items[i] = data[i - 1]
  BY PresentItems
<1>3. xs \in Seq(Item) /\ size + Len(xs) = most /\ \A i \in 1 .. Len(xs) : xs[i] = x
  <2> DEFINE m == IF more > 0 THEN more ELSE 0
  <2>1. more \in Int
    BY <1>2
  <2>2. size + m = most
    BY <1>2
  <2> HIDE DEF more
  <2>3. xs \in Seq(Item) /\ Len(xs) = m /\ \A i \in 1 .. m : xs[i] = x
    BY <2>1, FilledIs
  <2> HIDE DEF xs, m
  <2> QED BY <2>2, <2>3
<1>4. cap \in Nat /\ cap >= size /\ cap >= to
  <2>1. cap = IF capacity >= to THEN capacity ELSE to
    BY DEF Arrays!Reserved
  <2> HIDE DEF cap
  <2> QED BY <1>2, <2>1
<1>5. Holds(string, block, size, cap) /\ \A i \in 0 .. size - 1 : block[i] = data[i]
  <2> HIDE DEF cap
  <2> QED BY <1>4, BlockHolds
<1> HIDE DEF cap, block, xs
<1>6. /\ Holds(string, filled, size + Len(xs), cap)
      /\ \A i \in 0 .. size - 1 : filled[i] = data[i]
      /\ \A i \in 0 .. Len(xs) - 1 : filled[size + i] = xs[i + 1]
  <2>1. size + Len(xs) <= cap
    BY <1>2, <1>3, <1>4
  <2> HIDE DEF filled
  <2>2. IsPutBehind(string, filled, xs, cap)
    BY <1>3, <1>4, <1>5, <2>1, PutBehind DEF filled
  <2> QED BY <2>2 DEF IsPutBehind
<1> HIDE DEF filled
<1>7. Holds(string, filled, most, cap)
  BY <1>3, <1>6
<1>8. Holds(string, out, to, cap) /\ \A i \in 0 .. to - 1 : out[i] = filled[i]
  <2>1. most = IF to < size THEN size ELSE to
    OBVIOUS
  <2> HIDE DEF out, most
  <2> QED BY <1>2, <1>7, <2>1, DestroyedHolds DEF out
<1> HIDE DEF out
<1>9. /\ ArrayInv(string)' /\ Items' \in Seq(Item) /\ Len(Items') = to
      /\ \A i \in 1 .. to : Items'[i] = out[i - 1]
  BY <1>1, <1>8, LeftItems
<1>10. ASSUME NEW i \in 1 .. to PROVE Items'[i] = IF i <= size THEN Items[i] ELSE x
  <2> DEFINE k == i - 1
  <2>1. k \in 0 .. to - 1 /\ i \in Nat
    OBVIOUS
  <2>2. Items'[i] = filled[k]
    BY <1>8, <1>9, <2>1
  <2>3. CASE i <= size
    <3>1. k \in 0 .. size - 1 /\ i \in 1 .. size
      BY <1>2, <2>3
    <3> HIDE DEF k
    <3>2. filled[k] = data[k]
      BY <1>6, <3>1
    <3> QED BY <1>2, <2>2, <2>3, <3>1, <3>2 DEF k
  <2>4. CASE ~(i <= size)
    <3> DEFINE j == k - size
    <3>1. j \in 0 .. Len(xs) - 1 /\ size + j = k /\ j + 1 \in 1 .. Len(xs)
      BY <1>2, <1>3, <2>4
    <3> HIDE DEF j, k
    <3>2. filled[size + j] = xs[j + 1] /\ xs[j + 1] = x
      BY <1>3, <1>6, <3>1
    <3> QED BY <2>2, <2>4, <3>1, <3>2
  <2> QED BY <2>3, <2>4
<1>11. ASSUME to >= size PROVE Items' = [i \in 1 .. to |-> IF i <= size THEN Items[i] ELSE x]
  <2>1. Items' \in [1 .. to -> Item]
    BY <1>9
  <2>2. Items' = [i \in 1 .. to |-> Items'[i]]
    BY <2>1
  <2> HIDE DEF Items
  <2> QED BY <1>10, <2>2
<1>12. ASSUME to < size PROVE Items' = SubSeq(Items, 1, to)
  <2>1. \A i \in 1 .. Len(Items') : Items'[i] = Items[i]
    <3> SUFFICES ASSUME NEW i \in 1 .. to PROVE Items'[i] = Items[i]
      BY <1>9
    <3>1. i <= size
      BY <1>2, <1>12
    <3> QED BY <1>10, <3>1
  <2>2. Len(Items') <= Len(Items)
    BY <1>2, <1>9, <1>12
  <2> HIDE DEF Items
  <2>3. Items' = SubSeq(Items, 1, Len(Items'))
    BY <1>2, <1>9, <2>1, <2>2, TruncatedIs
  <2> QED BY <1>9, <2>3
<1> QED BY <1>9, <1>11, <1>12

LEMMA OverwriteKeeps ==
  ASSUME NEW string \in BOOLEAN, ArrayInv(string), NEW to \in 0 .. size,
         Arrays(string)!resize_for_overwrite(to)
  PROVE  ArrayInv(string)' /\ Items' = SubSeq(Items, 1, to)
<1> DEFINE cap == Arrays(string)!Reserved(to)
           out == Arrays(string)!Block(cap)
<1>1. string /\ Arrays(string)!Leave(cap, out, to)
  BY DEF Arrays!resize_for_overwrite
<1>2. /\ size \in Nat /\ capacity \in Nat /\ size <= capacity /\ Items \in Seq(Item) /\ Len(Items) = size
      /\ \A i \in 1 .. size : Items[i] = data[i - 1]
  BY PresentItems
<1>3. cap = capacity
  BY <1>2 DEF Arrays!Reserved
<1>4. Holds(string, out, size, cap) /\ \A i \in 0 .. size - 1 : out[i] = data[i]
  <2> HIDE DEF cap
  <2> QED BY <1>2, <1>3, BlockHolds
<1> HIDE DEF cap, out
<1>5. Holds(string, out, to, cap)
  <2>1. to \in 0 .. cap /\ \A i \in 0 .. to - 1 : i \in 0 .. size - 1
    BY <1>2, <1>3
  <2>2. /\ cap \in Nat /\ DOMAIN out = 0 .. Arrays(string)!Cells(cap) - 1
        /\ \A i \in DOMAIN out : i < size => out[i] \in Item
    BY <1>4 DEF Holds
  <2>3. Arrays(string)!Cells(cap) \in Nat
    BY <2>2, CellsAre
  <2>4. \A i \in DOMAIN out : i < to => i < size
    BY <1>2, <2>2, <2>3
  <2>5. \A i \in DOMAIN out : IF i < to THEN out[i] \in Item ELSE string \/ out[i] = Raw
    BY <1>1, <2>2, <2>4
  <2> QED BY <2>1, <2>2, <2>5 DEF Holds
<1>6. /\ ArrayInv(string)' /\ Items' \in Seq(Item) /\ Len(Items') = to
      /\ \A i \in 1 .. to : Items'[i] = out[i - 1]
  <2>1. Arrays(string)!Leave(cap, out, to)
    BY <1>1
  <2> QED BY <1>5, <2>1, LeftItems
<1>7. Items' = SubSeq(Items, 1, Len(Items'))
  <2>1. \A i \in 1 .. to : i \in 1 .. size /\ i - 1 \in 0 .. size - 1
    BY <1>2
  <2>2. \A i \in 1 .. Len(Items') : Items'[i] = Items[i]
    BY <1>2, <1>4, <1>6, <2>1
  <2>3. Len(Items') <= Len(Items)
    BY <1>2, <1>6
  <2> HIDE DEF Items
  <2> QED BY <1>2, <1>6, <2>2, <2>3, TruncatedIs
<1> QED BY <1>6, <1>7

LEMMA CopyKeeps ==
  ASSUME NEW string \in BOOLEAN, ArrayInv(string), NEW xs \in Seq(Item), Arrays(string)!copy(xs)
  PROVE  ArrayInv(string)' /\ Items' = xs
<1> DEFINE k == Len(xs)
           cap == Arrays(string)!Reserved(k)
           block == Arrays(string)!Block(cap)
           placed == Arrays(string)!Placed(block, 0, xs)
           out == Arrays(string)!destruct_items(placed, k, size)
           most == IF k < size THEN size ELSE k
<1>1. Arrays(string)!Leave(cap, out, k)
  BY DEF Arrays!copy
<1>2. size \in Nat /\ capacity \in Nat /\ size <= capacity /\ k \in Nat
  BY PresentItems
<1>3. cap \in Nat /\ cap >= size /\ cap >= k
  <2>1. cap = IF capacity >= k THEN capacity ELSE k
    BY DEF Arrays!Reserved
  <2> HIDE DEF cap, k
  <2> QED BY <1>2, <2>1
<1>4. Holds(string, block, size, cap)
  <2> HIDE DEF cap
  <2> QED BY <1>3, BlockHolds
<1> HIDE DEF cap, block
<1>5. /\ Holds(string, placed, IF size < 0 + Len(xs) THEN 0 + Len(xs) ELSE size, cap)
      /\ \A i \in DOMAIN block : placed[i] = IF 0 <= i /\ i < 0 + Len(xs) THEN xs[i - 0 + 1] ELSE block[i]
  <2>1. 0 \in 0 .. size /\ 0 + Len(xs) <= cap
    BY <1>2, <1>3
  <2> HIDE DEF placed
  <2> QED BY <1>4, <2>1, PlacedHolds DEF placed
<1>6. DOMAIN placed = DOMAIN block
  BY DEF Arrays!Placed
<1> HIDE DEF placed
<1>7. (IF size < 0 + Len(xs) THEN 0 + Len(xs) ELSE size) = most
  BY <1>2
<1>8. Holds(string, placed, most, cap)
  <2> HIDE DEF most
  <2> QED BY <1>5, <1>7
<1>9. Holds(string, out, k, cap) /\ \A i \in 0 .. k - 1 : out[i] = placed[i]
  <2>1. most = IF k < size THEN size ELSE k
    OBVIOUS
  <2> HIDE DEF out, most, k
  <2> QED BY <1>2, <1>8, <2>1, DestroyedHolds DEF out
<1> HIDE DEF out, most
<1>10. /\ ArrayInv(string)' /\ Items' \in Seq(Item) /\ Len(Items') = k
       /\ \A i \in 1 .. k : Items'[i] = out[i - 1]
  <2> HIDE DEF k
  <2> QED BY <1>1, <1>9, LeftItems
<1>11. ASSUME NEW i \in 1 .. k PROVE Items'[i] = xs[i]
  <2> DEFINE j == i - 1
  <2>1. j \in 0 .. k - 1 /\ 0 <= j /\ j < 0 + Len(xs) /\ j - 0 + 1 = i
    BY <1>2
  <2> HIDE DEF j
  <2>2. j \in DOMAIN block
    <3>1. k <= cap /\ k \in Nat
      BY <1>2, <1>3
    <3>2. j \in DOMAIN placed
      <4>1. most \in Nat /\ k <= most
        BY <1>2 DEF most
      <4>2. j \in 0 .. most - 1
        BY <1>2, <2>1, <4>1
      <4> QED BY <1>8, <4>2, HeldItems
    <3> QED BY <1>6, <3>2
  <2>3. placed[j] = xs[j - 0 + 1]
    BY <1>5, <2>1, <2>2
  <2>4. Items'[i] = out[j] /\ out[j] = placed[j]
    BY <1>9, <1>10, <2>1 DEF j
  <2> QED BY <2>1, <2>3, <2>4
<1>12. Items' = xs
  <2> HIDE DEF Items
  <2> QED BY <1>10, <1>11, SameItems
<1> QED BY <1>10, <1>12

\* inserting in front of the last item: it moves one cell up
LEMMA InsertKeeps ==
  ASSUME NEW string \in BOOLEAN, ArrayInv(string), NEW at \in Arrays(string)!InsertPlaces,
         NEW x \in Item, Arrays(string)!insert(at, x)
  PROVE  /\ ArrayInv(string)'
         /\ at \in 0 .. size
         /\ Items' = SubSeq(Items, 1, at) \o <<x>> \o SubSeq(Items, at + 1, Len(Items))
<1> DEFINE to_fit == size + 1
           cap == Arrays(string)!Grown(to_fit)
           block == Arrays(string)!Block(cap)
           out == [Arrays(string)!Shifted(block, at) EXCEPT ![at] = x]
<1>1. /\ size \in Nat /\ Items \in Seq(Item) /\ Len(Items) = size
      /\ \A i \in 1 .. size : Items[i] = data[i - 1]
      /\ \A i \in 0 .. size - 1 : data[i] \in Item
  BY PresentItems
<1>2. at \in Nat /\ (at = size \/ (at = size - 1 /\ size > 0))
  BY <1>1 DEF Arrays!InsertPlaces
<1>3. CASE at = size
  <2>1. Arrays(string)!push(x)
    BY <1>1, <1>2, <1>3 DEF Arrays!insert
  <2>2. ArrayInv(string)' /\ Items' = Append(Items, x)
    BY <2>1, PushKeeps
  <2>3. SubSeq(Items, 1, at) = Items
    BY <1>1, <1>3, WholeIs
  <2>4. SubSeq(Items, at + 1, Len(Items)) = <<>>
    <3>1. at + 1 \in Int /\ Len(Items) \in Int /\ at + 1 > Len(Items)
      BY <1>1, <1>3
    <3> HIDE DEF Items
    <3> QED BY <1>1, <3>1, SubSeqEmpty
  <2>5. (Items \o <<x>>) \o <<>> = Items \o <<x>> /\ Append(Items, x) = Items \o <<x>>
    <3>1. <<x>> \in Seq(Item)
      OBVIOUS
    <3> HIDE DEF Items
    <3>2. Items \o <<x>> \in Seq(Item)
      BY <1>1, <3>1, ConcatProperties
    <3> QED BY <1>1, <3>2, AppendIsConcat, ConcatEmptySeq
  <2>6. at \in 0 .. size
    BY <1>1, <1>3
  <2> QED BY <2>2, <2>3, <2>4, <2>5, <2>6
<1>4. CASE at = size - 1 /\ size > 0
  <2>1. Arrays(string)!Leave(cap, out, to_fit)
    BY <1>1, <1>4 DEF Arrays!insert
  <2>2. /\ cap \in Nat /\ cap >= to_fit /\ Holds(string, block, size, cap)
        /\ \A i \in 0 .. size - 1 : block[i] = data[i]
    <3>1. to_fit \in Nat /\ to_fit >= size
      BY <1>1
    <3> HIDE DEF to_fit
    <3> QED BY <3>1, RoomForMore
  <2> HIDE DEF cap, block
  <2>3. /\ DOMAIN out = DOMAIN block /\ size \in DOMAIN block /\ at \in DOMAIN block
        /\ DOMAIN block = 0 .. Arrays(string)!Cells(cap) - 1 /\ Arrays(string)!Cells(cap) \in Nat
    <3>1. Arrays(string)!Cells(cap) \in Nat /\ Arrays(string)!Cells(cap) >= cap
      BY <2>2, CellsAre
    <3>2. DOMAIN block = 0 .. Arrays(string)!Cells(cap) - 1
      BY <2>2 DEF Holds
    <3>3. DOMAIN Arrays(string)!Shifted(block, at) = DOMAIN block
      BY DEF Arrays!Shifted
    <3> DEFINE c == Arrays(string)!Cells(cap)
    <3> HIDE DEF c
    <3>4. size \in 0 .. c - 1 /\ at \in 0 .. c - 1
      BY <1>1, <1>4, <2>2, <3>1 DEF c
    <3> QED BY <3>1, <3>2, <3>3, <3>4 DEF c
  <2>4. ASSUME NEW i \in DOMAIN block
        PROVE  out[i] = IF i = at THEN x ELSE IF i = size THEN data[at] ELSE block[i]
    <3> DEFINE created == [block EXCEPT ![size] = block[size - 1], ![size - 1] = "moved"]
    <3>1. \A j \in DOMAIN block :
            Arrays(string)!Shifted(block, at)[j]
              = IF at + 1 <= j /\ j <= size - 2 THEN created[j - 1] ELSE created[j]
      BY DEF Arrays!Shifted, Arrays!Moved
    <3>2. DOMAIN Arrays(string)!Shifted(block, at) = DOMAIN block
      BY DEF Arrays!Shifted
    <3>3. i \in Nat /\ ~(at + 1 <= i /\ i <= size - 2)
      BY <1>1, <1>4, <2>3
    <3>4. out[i] = IF i = at THEN x ELSE Arrays(string)!Shifted(block, at)[i]
      BY <2>3, <3>2
    <3>5. size - 1 = at /\ size - 1 \in DOMAIN block /\ size # at
      BY <1>1, <1>4, <2>3
    <3>6. created[i] = IF i = at THEN "moved" ELSE IF i = size THEN block[at] ELSE block[i]
      BY <2>3, <3>5
    <3>7. block[at] = data[at]
      <4>1. at \in 0 .. size - 1
        BY <1>1, <1>4
      <4> QED BY <2>2, <4>1
    <3> HIDE DEF created, out
    <3> QED BY <3>1, <3>3, <3>4, <3>6, <3>7
  <2> HIDE DEF out
  <2>5. data[at] \in Item
    <3>1. at \in 0 .. size - 1
      BY <1>1, <1>4
    <3> QED BY <1>1, <3>1
  <2>6. Holds(string, out, to_fit, cap)
    <3>1. to_fit \in 0 .. cap
      BY <1>1, <2>2
    <3>2. \A i \in DOMAIN out : IF i < to_fit THEN out[i] \in Item ELSE string \/ out[i] = Raw
      <4> SUFFICES ASSUME NEW i \in DOMAIN block
                   PROVE  IF i < to_fit THEN out[i] \in Item ELSE string \/ out[i] = Raw
        BY <2>3
      <4>1. i \in Nat
        BY <2>3
      <4>2. IF i < size THEN block[i] \in Item ELSE string \/ block[i] = Raw
        BY <2>2 DEF Holds
      <4>3. i < to_fit <=> i < size \/ i = size
        BY <1>1, <4>1
      <4>4. i = at => i < size
        BY <1>1, <1>4
      <4> HIDE DEF to_fit
      <4> QED BY <2>4, <2>5, <4>2, <4>3, <4>4
    <3> QED BY <2>2, <2>3, <3>1, <3>2 DEF Holds
  <2>7. /\ ArrayInv(string)' /\ Items' \in Seq(Item) /\ Len(Items') = to_fit
        /\ \A i \in 1 .. to_fit : Items'[i] = out[i - 1]
    <3> HIDE DEF to_fit
    <3> QED BY <2>1, <2>6, LeftItems
  <2>8. ASSUME NEW i \in 1 .. to_fit
        PROVE  Items'[i] = IF i = size THEN x ELSE IF i = size + 1 THEN Items[size] ELSE Items[i]
    <3> DEFINE k == i - 1
    <3>1. k \in 0 .. size /\ (k = at <=> i = size) /\ (k = size <=> i = size + 1)
      BY <1>1, <1>4
    <3>2. k \in DOMAIN block
      BY <1>1, <2>3, <3>1
    <3>3. Items'[i] = out[k]
      BY <2>7
    <3> HIDE DEF k
    <3>4. out[k] = IF k = at THEN x ELSE IF k = size THEN data[at] ELSE block[k]
      BY <2>4, <3>2
    <3>5. Items[size] = data[at]
      <4>1. size \in 1 .. size /\ size - 1 = at
        BY <1>1, <1>4
      <4> QED BY <1>1, <4>1
    <3>6. k # size /\ k # at => block[k] = Items[i]
      <4> SUFFICES ASSUME k # size, k # at PROVE block[k] = Items[i]
        OBVIOUS
      <4>1. k \in 0 .. size - 1 /\ i \in 1 .. size /\ i - 1 = k
        BY <1>1, <3>1 DEF k
      <4> QED BY <1>1, <2>2, <4>1
    <3> QED BY <3>1, <3>3, <3>4, <3>5, <3>6
  <2>9. Items' = SubSeq(Items, 1, at) \o <<x>> \o SubSeq(Items, at + 1, Len(Items))
    <3> DEFINE s == Items
               t == Items'
    <3>1. at \in 0 .. Len(s) /\ Len(t) = Len(s) + 1
      BY <1>1, <1>4, <2>7
    <3>2. \A i \in 1 .. at : t[i] = s[i]
      BY <1>1, <1>4, <2>8
    <3>3. t[at + 1] = x
      <4>1. at + 1 = size /\ size \in 1 .. to_fit
        BY <1>1, <1>4
      <4>2. Items'[size] = x
        BY <2>8, <4>1
      <4> QED BY <4>1, <4>2
    <3>4. \A i \in at + 1 .. Len(s) : t[i + 1] = s[i]
      <4> SUFFICES ASSUME NEW i \in at + 1 .. Len(s) PROVE Items'[i + 1] = Items[i]
        OBVIOUS
      <4>1. i = size /\ size + 1 \in 1 .. to_fit /\ size + 1 # size
        BY <1>1, <1>4
      <4>2. Items'[size + 1] = Items[size]
        BY <2>8, <4>1
      <4> QED BY <4>1, <4>2
    <3>5. s \in Seq(Item) /\ t \in Seq(Item)
      BY <1>1, <2>7
    <3> HIDE DEF Items, s, t
    <3>6. IsInserted(Item, s, x, t, at)
      BY <3>1, <3>2, <3>3, <3>4, <3>5 DEF IsInserted
    <3> QED BY <3>6, InsertedIs DEF s, t
  <2>10. at \in 0 .. size
    BY <1>1, <1>4
  <2> QED BY <2>7, <2>9, <2>10
<1> QED BY <1>2, <1>3, <1>4

LEMMA RemoveKeeps ==
  ASSUME NEW string \in BOOLEAN, ArrayInv(string), NEW at \in 0 .. size - 1, Arrays(string)!remove(at)
  PROVE  /\ ArrayInv(string)'
         /\ Items' = SubSeq(Items, 1, at) \o SubSeq(Items, at + 1 + 1, Len(Items))
<1> DEFINE closed == [i \in DOMAIN data |-> IF at <= i /\ i < size - 1 THEN data[i + 1] ELSE data[i]]
           last == size - 1
           out == Arrays(string)!destruct_items(closed, last, size)
<1>1. Arrays(string)!Leave(capacity, out, last)
  BY DEF Arrays!remove
<1>2. /\ size \in Nat /\ Items \in Seq(Item) /\ Len(Items) = size
      /\ \A i \in 1 .. size : Items[i] = data[i - 1]
      /\ \A i \in 0 .. size - 1 : i \in DOMAIN data /\ data[i] \in Item
  BY PresentItems
<1>3. last \in Nat /\ size = last + 1 /\ at \in Nat /\ at <= last /\ size = IF last < size THEN size ELSE last
  BY <1>2
<1>4. Holds(string, data, size, capacity)
  BY DEF ArrayInv
<1>5. /\ DOMAIN closed = DOMAIN data
      /\ \A i \in DOMAIN data : closed[i] = IF at <= i /\ i < last THEN data[i + 1] ELSE data[i]
  OBVIOUS
<1> HIDE DEF closed, last
<1>6. Holds(string, closed, size, capacity)
  <2>1. ASSUME NEW i \in DOMAIN data
        PROVE  IF i < size THEN closed[i] \in Item ELSE string \/ closed[i] = Raw
    <3>1. IF i < size THEN data[i] \in Item ELSE string \/ data[i] = Raw
      BY <1>4 DEF Holds
    <3>2. i \in Nat
      <4>1. DOMAIN data = 0 .. Arrays(string)!Cells(capacity) - 1 /\ capacity \in Nat
        BY <1>4 DEF Holds
      <4>2. Arrays(string)!Cells(capacity) \in Nat
        BY <4>1, CellsAre
      <4> QED BY <4>1, <4>2
    <3>3. CASE at <= i /\ i < last
      <4> DEFINE k == i + 1
      <4>1. k \in 0 .. size - 1 /\ i < size
        BY <1>3, <3>2, <3>3
      <4> HIDE DEF k
      <4>2. data[k] \in Item
        BY <1>2, <4>1
      <4> QED BY <1>5, <3>3, <4>1, <4>2 DEF k
    <3>4. CASE ~(at <= i /\ i < last)
      BY <1>5, <3>1, <3>4
    <3> QED BY <3>3, <3>4
  <2> QED BY <1>4, <1>5, <2>1 DEF Holds
<1>7. Holds(string, out, last, capacity) /\ \A i \in 0 .. last - 1 : out[i] = closed[i]
  <2>1. size \in Nat /\ last \in 0 .. size
    BY <1>2, <1>3
  <2> HIDE DEF out
  <2> QED BY <1>6, <2>1, DestroyedHolds DEF out
<1> HIDE DEF out
<1>8. /\ ArrayInv(string)' /\ Items' \in Seq(Item) /\ Len(Items') = last
      /\ \A i \in 1 .. last : Items'[i] = out[i - 1]
  BY <1>1, <1>7, LeftItems
<1>9. ASSUME NEW i \in 1 .. last PROVE Items'[i] = IF i <= at THEN Items[i] ELSE Items[i + 1]
  <2> DEFINE k == i - 1
             j == i + 1
  <2>1. k \in 0 .. last - 1 /\ k \in 0 .. size - 1 /\ (i <= at <=> ~(at <= k)) /\ k < last
        /\ i \in 1 .. size /\ j \in 1 .. size /\ j - 1 = k + 1
    BY <1>3
  <2>2. Items'[i] = out[k]
    BY <1>8
  <2>3. Items[i] = data[k]
    BY <1>2, <2>1
  <2> HIDE DEF k, j
  <2>4. Items[j] = data[j - 1]
    BY <1>2, <2>1
  <2>5. out[k] = closed[k] /\ closed[k] = IF at <= k /\ k < last THEN data[k + 1] ELSE data[k]
    BY <1>2, <1>5, <1>7, <2>1
  <2> QED BY <2>1, <2>2, <2>3, <2>4, <2>5 DEF j
<1>10. IsTakenOut(Item, Items, Items', at)
  <2>1. /\ at \in 0 .. Len(Items) - 1 /\ Len(Items') = Len(Items) - 1
        /\ \A i \in 1 .. at : Items'[i] = Items[i]
    BY <1>2, <1>3, <1>8, <1>9
  <2>2. \A i \in at + 1 .. Len(Items) - 1 : Items'[i] = Items[i + 1]
    BY <1>2, <1>3, <1>9
  <2> HIDE DEF Items
  <2> QED BY <1>2, <1>8, <2>1, <2>2 DEF IsTakenOut
<1> QED BY <1>8, <1>10, TakenOutIs

LEMMA UnorderedRemoveKeeps ==
  ASSUME NEW string \in BOOLEAN, ArrayInv(string), NEW at \in 0 .. size - 1,
         Arrays(string)!unordered_remove(at)
  PROVE  /\ ArrayInv(string)'
         /\ Items' = SubSeq([Items EXCEPT ![at + 1] = Items[Len(Items)]], 1, Len(Items) - 1)
<1> DEFINE last == size - 1
           swapped == [data EXCEPT ![at] = data[last], ![last] = data[at]]
           out == Arrays(string)!destruct_items(swapped, last, size)
           u == [Items EXCEPT ![at + 1] = Items[size]]
<1>1. Arrays(string)!Leave(capacity, out, last)
  BY DEF Arrays!unordered_remove
<1>2. /\ size \in Nat /\ Items \in Seq(Item) /\ Len(Items) = size
      /\ \A i \in 1 .. size : Items[i] = data[i - 1]
      /\ \A i \in 0 .. size - 1 : i \in DOMAIN data /\ data[i] \in Item
  BY PresentItems
<1>3. last \in Nat /\ size = last + 1 /\ at \in Nat /\ at <= last /\ size = (IF last < size THEN size ELSE last)
      /\ last \in 0 .. size - 1
  BY <1>2
<1>4. Holds(string, data, size, capacity) /\ data[at] \in Item /\ data[last] \in Item
      /\ at \in DOMAIN data /\ last \in DOMAIN data
  BY <1>2, <1>3 DEF ArrayInv
<1>5. /\ DOMAIN swapped = DOMAIN data
      /\ \A i \in DOMAIN data :
           swapped[i] = IF i = last THEN data[at] ELSE IF i = at THEN data[last] ELSE data[i]
  BY <1>4
<1> HIDE DEF swapped, last
<1>6. Holds(string, swapped, size, capacity)
  <2>1. at < size /\ last < size
    BY <1>2, <1>3
  <2>2. \A i \in DOMAIN swapped : IF i < size THEN swapped[i] \in Item ELSE string \/ swapped[i] = Raw
    BY <1>4, <1>5, <2>1 DEF Holds
  <2> QED BY <1>4, <1>5, <2>2 DEF Holds
<1>7. Holds(string, out, last, capacity) /\ \A i \in 0 .. last - 1 : out[i] = swapped[i]
  <2>1. size \in Nat /\ last \in 0 .. size
    BY <1>2, <1>3
  <2> HIDE DEF out
  <2> QED BY <1>6, <2>1, DestroyedHolds DEF out
<1> HIDE DEF out
<1>8. /\ ArrayInv(string)' /\ Items' \in Seq(Item) /\ Len(Items') = last
      /\ \A i \in 1 .. last : Items'[i] = out[i - 1]
  BY <1>1, <1>7, LeftItems
<1>9. u \in Seq(Item) /\ Len(u) = size
      /\ \A i \in 1 .. size : u[i] = IF i = at + 1 THEN Items[size] ELSE Items[i]
  <2> DEFINE k == at + 1
  <2>1. k \in 1 .. Len(Items) /\ size \in 1 .. size
    BY <1>2, <1>3
  <2> HIDE DEF k, Items
  <2>2. Items[size] \in Item
    BY <1>2, <2>1
  <2>3. /\ [Items EXCEPT ![k] = Items[size]] \in Seq(Item)
        /\ Len([Items EXCEPT ![k] = Items[size]]) = Len(Items)
        /\ \A i \in 1 .. Len(Items) : [Items EXCEPT ![k] = Items[size]][i] = IF i = k THEN Items[size] ELSE Items[i]
    BY <1>2, <2>1, <2>2, ExceptSeq
  <2> QED BY <1>2, <2>3 DEF k
<1>10. ASSUME NEW i \in 1 .. last PROVE Items'[i] = IF i = at + 1 THEN Items[size] ELSE Items[i]
  <2> DEFINE k == i - 1
  <2>1. k \in 0 .. last - 1 /\ k \in 0 .. size - 1 /\ (i = at + 1 <=> k = at) /\ k # last
        /\ i \in 1 .. size /\ size \in 1 .. size /\ size - 1 = last
    BY <1>3
  <2>2. Items'[i] = out[k] /\ Items[i] = data[k] /\ Items[size] = data[last]
    BY <1>2, <1>8, <2>1
  <2> HIDE DEF k
  <2>3. out[k] = swapped[k] /\ k \in DOMAIN data
    BY <1>2, <1>7, <2>1
  <2>4. swapped[k] = IF k = at THEN data[last] ELSE data[k]
    BY <1>5, <2>1, <2>3
  <2> QED BY <2>1, <2>2, <2>3, <2>4
<1>11. \A i \in 1 .. last : i \in 1 .. size
  BY <1>3
<1> HIDE DEF u
<1>12. Items' = SubSeq(u, 1, Len(Items'))
  <2>1. Len(Items') <= Len(u)
    BY <1>3, <1>8, <1>9
  <2>2. \A i \in 1 .. Len(Items') : Items'[i] = u[i]
    BY <1>8, <1>9, <1>10, <1>11
  <2> HIDE DEF Items
  <2> QED BY <1>8, <1>9, <2>1, <2>2, TruncatedIs
<1>13. Items' = SubSeq(u, 1, Len(Items) - 1)
  BY <1>2, <1>3, <1>8, <1>12 DEF last
<1> QED BY <1>2, <1>8, <1>13 DEF u

LEMMA UnorderedInsertKeeps ==
  ASSUME NEW string \in BOOLEAN, ArrayInv(string), NEW at \in 0 .. size, NEW x \in Item,
         Arrays(string)!unordered_insert(at, x)
  PROVE  /\ ArrayInv(string)'
         /\ Items' = IF at = Len(Items) THEN Append(Items, x)
                     ELSE Append([Items EXCEPT ![at + 1] = x], Items[at + 1])
<1> DEFINE to_fit == size + 1
           cap == Arrays(string)!Grown(to_fit)
           block == Arrays(string)!Block(cap)
           xs == <<x>>
           placed == Arrays(string)!Placed(block, size, xs)
           out == [placed EXCEPT ![at] = x, ![size] = placed[at]]
           y == IF at = size THEN x ELSE Items[at + 1]
           u == IF at = size THEN Items ELSE [Items EXCEPT ![at + 1] = x]
<1>1. Arrays(string)!Leave(cap, out, to_fit)
  BY DEF Arrays!unordered_insert
<1>2. /\ size \in Nat /\ Items \in Seq(Item) /\ Len(Items) = size
      /\ \A i \in 1 .. size : Items[i] = data[i - 1]
      /\ \A i \in 0 .. size - 1 : data[i] \in Item
  BY PresentItems
<1>3. /\ cap \in Nat /\ cap >= to_fit /\ Holds(string, block, size, cap)
      /\ \A i \in 0 .. size - 1 : block[i] = data[i]
  <2>1. to_fit \in Nat /\ to_fit >= size
    BY <1>2
  <2> HIDE DEF to_fit
  <2> QED BY <2>1, RoomForMore
<1>4. xs \in Seq(Item) /\ Len(xs) = 1 /\ xs[1] = x /\ size + Len(xs) = to_fit
  OBVIOUS
<1> HIDE DEF cap, block, xs, to_fit
<1>5. /\ Holds(string, placed, to_fit, cap)
      /\ \A i \in 0 .. size - 1 : placed[i] = data[i]
      /\ placed[size] = x
  <2>1. size + Len(xs) <= cap
    BY <1>3, <1>4
  <2> HIDE DEF placed
  <2>2. /\ Holds(string, placed, size + Len(xs), cap)
        /\ \A i \in 0 .. size - 1 : placed[i] = data[i]
        /\ \A i \in 0 .. Len(xs) - 1 : placed[size + i] = xs[i + 1]
    <3>1. IsPutBehind(string, placed, xs, cap)
      BY <1>3, <1>4, <2>1, PutBehind DEF placed
    <3> QED BY <3>1 DEF IsPutBehind
  <2>3. 0 \in 0 .. Len(xs) - 1 /\ size + 0 = size /\ 0 + 1 = 1
    BY <1>2, <1>4
  <2>4. placed[size + 0] = xs[0 + 1]
    BY <2>2, <2>3
  <2> QED BY <1>4, <2>2, <2>3, <2>4
<1> HIDE DEF placed
<1>6. /\ to_fit = size + 1 /\ at \in DOMAIN placed /\ size \in DOMAIN placed
      /\ at < to_fit /\ size < to_fit
      /\ placed[at] \in Item
  <2>1. to_fit = size + 1 /\ at < to_fit /\ size < to_fit /\ at \in 0 .. to_fit - 1 /\ size \in 0 .. to_fit - 1
    BY <1>2 DEF to_fit
  <2> QED BY <1>5, <2>1, HeldItems
<1>7. placed[at] = y
  <2>1. CASE at = size
    BY <1>5, <2>1
  <2>2. CASE at # size
    <3> DEFINE k == at + 1
    <3>1. k \in 1 .. size /\ k - 1 = at /\ at \in 0 .. size - 1
      BY <1>2, <2>2
    <3> HIDE DEF k
    <3>2. Items[k] = data[k - 1] /\ placed[at] = data[at]
      BY <1>2, <1>5, <3>1
    <3> QED BY <2>2, <3>1, <3>2 DEF k
  <2> QED BY <2>1, <2>2
<1>8. /\ DOMAIN out = DOMAIN placed
      /\ \A i \in DOMAIN placed :
           out[i] = IF i = size THEN y ELSE IF i = at THEN x ELSE placed[i]
  <2> HIDE DEF y
  <2> QED BY <1>6, <1>7
<1> HIDE DEF out
<1>9. Holds(string, out, to_fit, cap)
  <2>1. y \in Item
    BY <1>6, <1>7
  <2> HIDE DEF y
  <2>2. \A i \in DOMAIN out : IF i < to_fit THEN out[i] \in Item ELSE string \/ out[i] = Raw
    BY <1>5, <1>6, <1>8, <2>1 DEF Holds
  <2> QED BY <1>5, <1>8, <2>2 DEF Holds
<1>10. /\ ArrayInv(string)' /\ Items' \in Seq(Item) /\ Len(Items') = to_fit
       /\ \A i \in 1 .. to_fit : Items'[i] = out[i - 1]
  BY <1>1, <1>9, LeftItems
<1>11. u \in Seq(Item) /\ Len(u) = size
       /\ \A i \in 1 .. size : u[i] = IF i = at + 1 THEN x ELSE Items[i]
  <2>1. CASE at = size
    <3>1. \A i \in 1 .. size : i # at + 1
      BY <1>2, <2>1
    <3> QED BY <1>2, <2>1, <3>1
  <2>2. CASE at # size
    <3> DEFINE k == at + 1
    <3>1. k \in 1 .. Len(Items)
      BY <1>2, <2>2
    <3> HIDE DEF k, Items
    <3>2. /\ [Items EXCEPT ![k] = x] \in Seq(Item)
          /\ Len([Items EXCEPT ![k] = x]) = Len(Items)
          /\ \A i \in 1 .. Len(Items) : [Items EXCEPT ![k] = x][i] = IF i = k THEN x ELSE Items[i]
      BY <1>2, <3>1, ExceptSeq
    <3> QED BY <1>2, <2>2, <3>2 DEF k
  <2> QED BY <2>1, <2>2
<1>12. ASSUME NEW i \in 1 .. to_fit
       PROVE  Items'[i] = IF i = size + 1 THEN y ELSE IF i = at + 1 THEN x ELSE Items[i]
  <2> DEFINE k == i - 1
  <2>1. k \in 0 .. to_fit - 1 /\ (k = size <=> i = size + 1) /\ (k = at <=> i = at + 1)
        /\ (i # size + 1 => k \in 0 .. size - 1 /\ i \in 1 .. size)
    BY <1>2, <1>6
  <2>2. Items'[i] = out[k] /\ (i # size + 1 => Items[i] = data[k])
    BY <1>2, <1>10, <2>1
  <2> HIDE DEF k, y
  <2>3. k \in DOMAIN placed /\ (i # size + 1 => placed[k] = data[k])
    BY <1>5, <2>1, HeldItems
  <2>4. out[k] = IF k = size THEN y ELSE IF k = at THEN x ELSE placed[k]
    BY <1>8, <2>3
  <2> QED BY <2>1, <2>2, <2>3, <2>4
<1> HIDE DEF u, y
<1>13. Items' = Append(u, Items'[Len(u) + 1])
  <2>1. \A i \in 1 .. size : i \in 1 .. to_fit /\ i # size + 1
    BY <1>2, <1>6
  <2>2. \A i \in 1 .. Len(u) : Items'[i] = u[i]
    BY <1>11, <1>12, <2>1
  <2>3. Len(Items') = Len(u) + 1
    BY <1>2, <1>6, <1>10, <1>11
  <2> HIDE DEF Items
  <2> QED BY <1>10, <1>11, <2>2, <2>3, AppendIs
<1>14. Items'[Len(u) + 1] = y
  <2> DEFINE k == size + 1
  <2>1. k \in 1 .. to_fit /\ Len(u) + 1 = k
    BY <1>2, <1>6, <1>11
  <2> HIDE DEF k
  <2>2. Items'[k] = IF k = size + 1 THEN y ELSE IF k = at + 1 THEN x ELSE Items[k]
    BY <1>12, <2>1
  <2>3. Items'[k] = y
    BY <2>2 DEF k
  <2> QED BY <2>1, <2>3
<1>15. Items' = Append(u, y)
  BY <1>13, <1>14
<1> QED BY <1>2, <1>10, <1>15 DEF u, y

\* Each operation makes of the items what ItemSequence says of it.

LEMMA ArrayFollows ==
  ASSUME NEW string \in BOOLEAN, ArrayInv(string)
  PROVE  Arrays(string)!Follows
<1>1. size \in Nat /\ Items \in Seq(Item) /\ Len(Items) = size
  BY PresentItems
<1>2. Arrays(string)!items = Items /\ Arrays(string)!items' = Items'
  BY ItemsAre
<1>3. ASSUME NEW n, Items' = SubSeq(Items, 1, n) PROVE Arrays(string)!Abstract!Truncate(n)
  BY <1>2, <1>3 DEF Arrays!Abstract!Truncate, Arrays!Abstract!UpTo
<1>4. ASSUME NEW cap \in Capacities, Arrays(string)!set_capacity(cap)
      PROVE  Arrays(string)!Abstract!Truncate(Arrays(string)!Smaller(size, cap))
  <2>1. cap \in Nat
    BY ArrayAssumption
  <2>2. Items' = SubSeq(Items, 1, IF size < cap THEN size ELSE cap)
    BY <1>4, <2>1, SetCapacityKeeps
  <2>3. Arrays(string)!Smaller(size, cap) = IF size < cap THEN size ELSE cap
    BY DEF Arrays!Smaller
  <2> QED BY <1>3, <2>2, <2>3
<1>5. ASSUME NEW cap \in Capacities,
             Arrays(string)!set_capacity_failing(cap) \/ Arrays(string)!OutOfMemory(cap)
      PROVE  UNCHANGED Arrays(string)!items
  <2>1. UNCHANGED <<data, size, capacity>>
    BY <1>5 DEF Arrays!set_capacity_failing, Arrays!OutOfMemory, Arrays!vars
  <2>2. Items' = Items
    BY <2>1 DEF Items, ListOf
  <2> QED BY <1>2, <2>2
<1>6. ASSUME NEW x \in Item, Arrays(string)!push(x) PROVE Arrays(string)!Abstract!Push(x)
  <2>1. Items' = Append(Items, x)
    BY <1>6, PushKeeps
  <2> QED BY <1>2, <2>1 DEF Arrays!Abstract!Push
<1>7. ASSUME NEW x \in Item, NEW at \in Arrays(string)!InsertPlaces, Arrays(string)!insert(at, x)
      PROVE  Arrays(string)!Abstract!Insert(at, x)
  <2>1. Items' = SubSeq(Items, 1, at) \o <<x>> \o SubSeq(Items, at + 1, Len(Items))
    BY <1>7, InsertKeeps
  <2> QED BY <1>2, <2>1 DEF Arrays!Abstract!Insert, Arrays!Abstract!UpTo, Arrays!Abstract!From
<1>8. ASSUME NEW x \in Item, NEW at \in 0 .. size, Arrays(string)!unordered_insert(at, x)
      PROVE  Arrays(string)!Abstract!UnorderedInsert(at, x)
  <2>1. Items' = IF at = Len(Items) THEN Append(Items, x)
                 ELSE Append([Items EXCEPT ![at + 1] = x], Items[at + 1])
    BY <1>8, UnorderedInsertKeeps
  <2> QED BY <1>2, <2>1 DEF Arrays!Abstract!UnorderedInsert
<1>9. ASSUME NEW xs \in Given, Arrays(string)!push_multiple(xs)
      PROVE  Arrays(string)!Abstract!PushMultiple(xs)
  <2>1. Items' = Items \o xs
    BY <1>9, ArrayAssumption, PushMultipleKeeps
  <2> QED BY <1>2, <2>1 DEF Arrays!Abstract!PushMultiple
<1>10. ASSUME NEW xs \in Given, Arrays(string)!copy(xs) PROVE Arrays(string)!Abstract!Copy(xs)
  <2>1. Items' = xs
    BY <1>10, ArrayAssumption, CopyKeeps
  <2> QED BY <1>2, <2>1 DEF Arrays!Abstract!Copy
<1>11. ASSUME NEW n \in 0 .. size, Arrays(string)!pop_multiple(n) \/ (n = 1 /\ Arrays(string)!pop)
       PROVE  Arrays(string)!Abstract!Truncate(size - n)
  BY <1>3, <1>11, PopKeeps
<1>12. ASSUME Arrays(string)!pop PROVE Arrays(string)!Abstract!Truncate(size - 1)
  <2>1. 1 \in 0 .. size
    BY <1>1, <1>12 DEF Arrays!pop
  <2> QED BY <1>11, <1>12, <2>1
<1>13. ASSUME NEW n \in 0 .. MaxItems, NEW x \in Item, Arrays(string)!resize(n, x)
       PROVE  Arrays(string)!Abstract!Fill(n, x)
  <2> DEFINE filled == [i \in 1 .. n |-> IF i <= Len(Items) THEN Items[i] ELSE x]
  <2>1. n \in Nat
    OBVIOUS
  <2>2. /\ n >= size => Items' = [i \in 1 .. n |-> IF i <= size THEN Items[i] ELSE x]
        /\ n < size => Items' = SubSeq(Items, 1, n)
    BY <1>13, <2>1, ResizeKeeps
  <2>3. ASSUME n >= size PROVE Items' = filled
    BY <1>1, <2>2, <2>3
  <2>4. ASSUME n < size PROVE Items' = filled
    <3>1. n \in 0 .. Len(Items)
      BY <1>1, <2>1, <2>4
    <3>2. SubSeq(Items, 1, n) = [i \in 1 .. n |-> Items[i]]
      BY <1>1, <3>1
    <3>3. \A i \in 1 .. n : i <= Len(Items)
      BY <1>1, <2>1, <2>4
    <3>4. filled = [i \in 1 .. n |-> Items[i]]
      BY <3>3
    <3> HIDE DEF filled
    <3> QED BY <2>2, <2>4, <3>2, <3>4
  <2>5. n >= size \/ n < size
    BY <1>1, <2>1
  <2>6. Items' = filled
    BY <2>3, <2>4, <2>5
  <2> QED BY <1>2, <2>6 DEF Arrays!Abstract!Fill
<1>14. ASSUME NEW n \in 0 .. size, Arrays(string)!resize_for_overwrite(n)
       PROVE  Arrays(string)!Abstract!Truncate(n)
  BY <1>3, <1>14, OverwriteKeeps
<1>15. ASSUME NEW at \in 0 .. size - 1, Arrays(string)!remove(at)
       PROVE  Arrays(string)!Abstract!TakeOut(at)
  <2>1. Items' = SubSeq(Items, 1, at) \o SubSeq(Items, at + 1 + 1, Len(Items))
    BY <1>15, RemoveKeeps
  <2> QED BY <1>2, <2>1 DEF Arrays!Abstract!TakeOut, Arrays!Abstract!UpTo, Arrays!Abstract!From
<1>16. ASSUME NEW at \in 0 .. size - 1, Arrays(string)!unordered_remove(at)
       PROVE  Arrays(string)!Abstract!UnorderedRemove(at)
  <2>1. Items' = SubSeq([Items EXCEPT ![at + 1] = Items[Len(Items)]], 1, Len(Items) - 1)
    BY <1>16, UnorderedRemoveKeeps
  <2> QED BY <1>2, <2>1 DEF Arrays!Abstract!UnorderedRemove
<1> QED
  BY <1>4, <1>5, <1>6, <1>7, <1>8, <1>9, <1>10, <1>11, <1>12, <1>13, <1>14, <1>15, <1>16
  DEF Arrays!Follows

LEMMA ArrayStep ==
  ASSUME NEW string \in BOOLEAN, ArrayInv(string), Arrays(string)!Next
  PROVE  ArrayInv(string)'
<1>1. size \in Nat
  BY PresentItems
<1>2. ASSUME UNCHANGED <<data, size, capacity>> PROVE ArrayInv(string)'
  BY <1>2 DEF ArrayInv, Holds
<1>3. ASSUME NEW cap \in Capacities,
             \/ Arrays(string)!set_capacity(cap)
             \/ Arrays(string)!set_capacity_failing(cap) \/ Arrays(string)!OutOfMemory(cap)
      PROVE  ArrayInv(string)'
  <2>1. CASE Arrays(string)!set_capacity(cap)
    BY <2>1, ArrayAssumption, SetCapacityKeeps
  <2>2. CASE Arrays(string)!set_capacity_failing(cap) \/ Arrays(string)!OutOfMemory(cap)
    <3>1. UNCHANGED <<data, size, capacity>>
      BY <2>2 DEF Arrays!set_capacity_failing, Arrays!OutOfMemory, Arrays!vars
    <3> QED BY <1>2, <3>1
  <2> QED BY <1>3, <2>1, <2>2
<1>4. ASSUME NEW x \in Item, Arrays(string)!push(x) PROVE ArrayInv(string)'
  BY <1>4, PushKeeps
<1>5. ASSUME NEW x \in Item, NEW at \in Arrays(string)!InsertPlaces, Arrays(string)!insert(at, x)
      PROVE  ArrayInv(string)'
  BY <1>5, InsertKeeps
<1>6. ASSUME NEW x \in Item, NEW at \in 0 .. size, Arrays(string)!unordered_insert(at, x)
      PROVE  ArrayInv(string)'
  BY <1>6, UnorderedInsertKeeps
<1>7. ASSUME NEW xs \in Given, Arrays(string)!push_multiple(xs) PROVE ArrayInv(string)'
  BY <1>7, ArrayAssumption, PushMultipleKeeps
<1>8. ASSUME NEW xs \in Given, Arrays(string)!copy(xs) PROVE ArrayInv(string)'
  BY <1>8, ArrayAssumption, CopyKeeps
<1>9. ASSUME NEW n \in 0 .. size, Arrays(string)!pop_multiple(n) \/ (n = 1 /\ Arrays(string)!pop)
      PROVE  ArrayInv(string)'
  BY <1>9, PopKeeps
<1>10. ASSUME Arrays(string)!pop PROVE ArrayInv(string)'
  <2>1. 1 \in 0 .. size
    BY <1>1, <1>10 DEF Arrays!pop
  <2> QED BY <1>9, <1>10, <2>1
<1>11. ASSUME NEW n \in 0 .. MaxItems, NEW x \in Item, Arrays(string)!resize(n, x)
       PROVE  ArrayInv(string)'
  <2>1. n \in Nat
    OBVIOUS
  <2> QED BY <1>11, <2>1, ResizeKeeps
<1>12. ASSUME NEW n \in 0 .. size, Arrays(string)!resize_for_overwrite(n) PROVE ArrayInv(string)'
  BY <1>12, OverwriteKeeps
<1>13. ASSUME NEW at \in 0 .. size - 1, Arrays(string)!remove(at) PROVE ArrayInv(string)'
  BY <1>13, RemoveKeeps
<1>14. ASSUME NEW at \in 0 .. size - 1, Arrays(string)!unordered_remove(at) PROVE ArrayInv(string)'
  BY <1>14, UnorderedRemoveKeeps
<1>15. \/ \E cap \in Capacities : \/ Arrays(string)!set_capacity(cap)
                                  \/ Arrays(string)!set_capacity_failing(cap) \/ Arrays(string)!OutOfMemory(cap)
       \/ \E x \in Item : Arrays(string)!push(x)
       \/ \E x \in Item, at \in Arrays(string)!InsertPlaces : Arrays(string)!insert(at, x)
       \/ \E x \in Item, at \in 0 .. size : Arrays(string)!unordered_insert(at, x)
       \/ \E xs \in Given : Arrays(string)!push_multiple(xs)
       \/ \E xs \in Given : Arrays(string)!copy(xs)
       \/ Arrays(string)!pop
       \/ \E n \in 0 .. size : Arrays(string)!pop_multiple(n)
       \/ \E n \in 0 .. MaxItems, x \in Item : Arrays(string)!resize(n, x)
       \/ \E n \in 0 .. size : Arrays(string)!resize_for_overwrite(n)
       \/ \E at \in 0 .. size - 1 : Arrays(string)!remove(at) \/ Arrays(string)!unordered_remove(at)
  BY DEF Arrays!Next
<1> QED
  BY <1>3, <1>4, <1>5, <1>6, <1>7, <1>8, <1>9, <1>10, <1>11, <1>12, <1>13, <1>14, <1>15

-----------------------------------------------------------------------------
(* Owners of arrays *)

Block == [from : Allocator, bytes : Nat, cells : Seq(Item \cup {Owners!Raw})]
ArrayOf == [data : Int, size : Nat, capacity : Nat, allocator : Allocator]

\* an array and its block
Owns(a, h) ==
  /\ a \in ArrayOf /\ a.size <= a.capacity /\ (a.capacity = 0 <=> a.data = -1)
  /\ a.data # -1 =>
       /\ a.data \in DOMAIN h /\ h[a.data] \in Block
       /\ h[a.data].from = a.allocator /\ h[a.data].bytes = Owners!Bytes(a.capacity)
       /\ Len(h[a.data].cells) = a.capacity
       /\ \A i \in 1 .. a.size : h[a.data].cells[i] \in Item

\* every block is of one array
Owned(as, h) ==
  /\ DOMAIN as \subseteq Var /\ DOMAIN h \subseteq Nat
  /\ \A v \in DOMAIN as : Owns(as[v], h)
  /\ \A v, w \in DOMAIN as : as[v].data = as[w].data /\ as[v].data # -1 => v = w
  /\ \A b \in DOMAIN h : \E v \in DOMAIN as : as[v].data = b

\* the allocators to put back
Swapped ==
  /\ default \in Allocator /\ swaps \in Seq(Allocator)
  /\ IF swaps = <<>> THEN default = Malloc ELSE swaps[1] = Malloc

OwnersInv == Owned(arrays, heap) /\ wrong = FALSE /\ Swapped

ItemsIn(a, h) == IF a.data = -1 THEN <<>> ELSE SubSeq(h[a.data].cells, 1, a.size)

LEMMA OwnersInit == Owners!Init => OwnersInv
<1> SUFFICES ASSUME Owners!Init PROVE OwnersInv
  OBVIOUS
<1>1. DOMAIN arrays = {} /\ DOMAIN heap = {}
  BY DEF Owners!Init
<1>2. Owned(arrays, heap)
  BY <1>1 DEF Owned
<1> QED BY <1>2, OwnersAssumption DEF Owners!Init, OwnersInv, Swapped

\* an array and the sequence it stands for
LEMMA OwnedItems ==
  ASSUME NEW a, NEW h, Owns(a, h)
  PROVE  ItemsIn(a, h) \in Seq(Item) /\ Len(ItemsIn(a, h)) = a.size
<1>1. a.size \in Nat /\ a.capacity \in Nat /\ a.size <= a.capacity
  BY DEF Owns, ArrayOf
<1>2. CASE a.data = -1
  <2>1. a.size = 0
    BY <1>1, <1>2 DEF Owns
  <2> QED BY <1>2, <2>1 DEF ItemsIn
<1>3. CASE a.data # -1
  <2> DEFINE c == h[a.data].cells
             n == a.size
             xs == SubSeq(c, 1, n)
             S == Item \cup {Owners!Raw}
  <2>1. c \in Seq(S) /\ Len(c) = a.capacity /\ \A i \in 1 .. n : c[i] \in Item
    BY <1>3 DEF Owns, Block
  <2> HIDE DEF c, n, S
  <2>2. n \in 0 .. Len(c) /\ n \in Nat
    BY <1>1, <2>1 DEF n
  <2>3. xs \in Seq(S) /\ Len(xs) = n /\ \A i \in 1 .. n : xs[i] = c[i]
    BY <2>1, <2>2, FirstItems
  <2> HIDE DEF xs
  <2>4. \A i \in 1 .. n : xs[i] \in Item
    BY <2>1, <2>3
  <2>5. xs \in [1 .. n -> S]
    BY <2>3, <2>2
  <2>6. xs \in [1 .. n -> Item]
    BY <2>4, <2>5
  <2>7. xs \in Seq(Item)
    BY <2>2, <2>6
  <2> QED BY <1>3, <2>3, <2>7 DEF ItemsIn, xs, n, c
<1> QED BY <1>2, <1>3

LEMMA EmptyOwns ==
  ASSUME NEW al \in Allocator, NEW h
  PROVE  Owns(Owners!Empty(al), h) /\ Owners!Empty(al).data = -1 /\ ItemsIn(Owners!Empty(al), h) = <<>>
         /\ Owners!Empty(al).capacity = 0 /\ Owners!Empty(al).allocator = al
BY DEF Owns, ArrayOf, ItemsIn, Owners!Empty, Owners!None

\* g is f with e at x
SetAt(f, x, e, g) ==
  /\ DOMAIN g = DOMAIN f \cup {x} /\ g[x] = e
  /\ \A y \in DOMAIN f : y # x => g[y] = f[y]

LEMMA WithSets ==
  ASSUME NEW f, NEW x, NEW e
  PROVE  SetAt(f, x, e, Owners!With(f, x, e))
BY DEF SetAt, Owners!With

\* Array a becomes c, which keeps the block, has none or has a new one.
LEMMA OneChanges ==
  ASSUME NEW as, NEW h, Owned(as, h), NEW v \in Var, NEW a, Owns(a, h),
         v \in DOMAIN as => as[v] = a, v \notin DOMAIN as => a.data = -1,
         NEW c, NEW g, Owns(c, g), c.data \in DOMAIN h => c.data = a.data,
         NEW bs, SetAt(as, v, c, bs), DOMAIN g \subseteq Nat,
         \A b : b \in DOMAIN g <=> (b \in DOMAIN h /\ b # a.data) \/ (b = c.data /\ b # -1),
         \A b \in DOMAIN h : b # a.data => g[b] = h[b]
  PROVE  /\ Owned(bs, g)
         /\ \A w \in DOMAIN as : w # v => ItemsIn(bs[w], g) = ItemsIn(as[w], h)
<1>1. /\ DOMAIN bs = DOMAIN as \cup {v} /\ bs[v] = c
      /\ \A w \in DOMAIN as : w # v => bs[w] = as[w]
  BY DEF SetAt
<1>2. /\ DOMAIN as \subseteq Var /\ DOMAIN h \subseteq Nat
      /\ \A w \in DOMAIN as : Owns(as[w], h)
      /\ \A u, w \in DOMAIN as : as[u].data = as[w].data /\ as[u].data # -1 => u = w
      /\ \A b \in DOMAIN h : \E w \in DOMAIN as : as[w].data = b
  BY DEF Owned
<1>3. ASSUME NEW w \in DOMAIN as, w # v, as[w].data # -1
      PROVE  as[w].data # a.data /\ as[w].data \in DOMAIN h /\ g[as[w].data] = h[as[w].data]
             /\ as[w].data \in DOMAIN g
  <2>1. as[w].data \in DOMAIN h
    BY <1>2, <1>3 DEF Owns
  <2>2. as[w].data # a.data
    BY <1>2, <1>3
  <2> QED BY <2>1, <2>2
<1>4. ASSUME NEW w \in DOMAIN as, w # v PROVE Owns(bs[w], g) /\ ItemsIn(bs[w], g) = ItemsIn(as[w], h)
  <2> DEFINE d == as[w]
  <2>1. bs[w] = d /\ Owns(d, h)
    BY <1>1, <1>2, <1>4
  <2>2. d.data # -1 => d.data \in DOMAIN g /\ g[d.data] = h[d.data]
    BY <1>3, <1>4
  <2> HIDE DEF d
  <2>3. Owns(d, g) /\ ItemsIn(d, g) = ItemsIn(d, h)
    BY <2>1, <2>2 DEF Owns, ItemsIn
  <2> QED BY <2>1, <2>3 DEF d
<1>5. \A w \in DOMAIN bs : Owns(bs[w], g)
  BY <1>1, <1>4
<1>6. ASSUME NEW u \in DOMAIN bs, NEW w \in DOMAIN bs, bs[u].data = bs[w].data, bs[u].data # -1
      PROVE  u = w
  <2>1. CASE u # v /\ w # v
    BY <1>1, <1>2, <1>6, <2>1
  <2>2. CASE u = v /\ w # v
    <3>1. as[w].data = c.data /\ w \in DOMAIN as /\ as[w].data # -1
      BY <1>1, <1>6, <2>2
    <3> QED BY <1>3, <2>2, <3>1
  <2>3. CASE u # v /\ w = v
    <3>1. as[u].data = c.data /\ u \in DOMAIN as /\ as[u].data # -1
      BY <1>1, <1>6, <2>3
    <3> QED BY <1>3, <2>3, <3>1
  <2> QED BY <2>1, <2>2, <2>3
<1>7. ASSUME NEW b \in DOMAIN g PROVE \E w \in DOMAIN bs : bs[w].data = b
  <2>1. CASE b = c.data
    BY <1>1, <2>1
  <2>2. CASE b # c.data
    <3>1. b \in DOMAIN h /\ b # a.data
      BY <1>7, <2>2
    <3>2. PICK w \in DOMAIN as : as[w].data = b
      BY <1>2, <3>1
    <3>3. w # v
      BY <3>1, <3>2
    <3> QED BY <1>1, <3>2, <3>3
  <2> QED BY <2>1, <2>2
<1>8. DOMAIN bs \subseteq Var
  BY <1>1, <1>2
<1> QED BY <1>4, <1>5, <1>6, <1>7, <1>8 DEF Owned

LEMMA SameCardinality ==
  ASSUME NEW S
  PROVE  Owners!Cardinality(S) = Cardinality(S)
BY DEF Owners!Cardinality, Cardinality

\* There is a number for a new block: a block each is all that the arrays have.
LEMMA FreshIs ==
  ASSUME Owned(arrays, heap)
  PROVE  Owners!Fresh \in Nat /\ Owners!Fresh \notin DOMAIN heap
<1> DEFINE n == Cardinality(Var)
           S == 0 .. n
           f == [b \in S |-> CHOOSE v \in DOMAIN arrays : arrays[v].data = b]
<1>1. n \in Nat /\ IsFiniteSet(S) /\ Cardinality(S) = n + 1 /\ IsFiniteSet(Var)
  <2>1. n \in Nat
    BY OwnersAssumption, FS_CardinalityType
  <2> HIDE DEF n
  <2>2. IsFiniteSet(0 .. n) /\ Cardinality(0 .. n) = IF 0 > n THEN 0 ELSE n - 0 + 1
    BY <2>1, FS_Interval
  <2> QED BY <2>1, <2>2, OwnersAssumption
<1>2. \E b \in S : b \notin DOMAIN heap
  <2> SUFFICES ASSUME \A b \in S : b \in DOMAIN heap PROVE FALSE
    OBVIOUS
  <2>1. ASSUME NEW b \in S PROVE f[b] \in DOMAIN arrays /\ arrays[f[b]].data = b
    <3>1. \E v \in DOMAIN arrays : arrays[v].data = b
      BY DEF Owned
    <3> QED BY <3>1
  <2>2. f \in [S -> Var]
    BY <2>1 DEF Owned
  <2> HIDE DEF S, f
  <2>3. Cardinality(Var) < Cardinality(S)
    BY <1>1
  <2>4. PICK x \in S, y \in S : x # y /\ f[x] = f[y]
    BY <1>1, <2>2, <2>3, FS_PigeonHole
  <2> QED BY <2>1, <2>4
<1> HIDE DEF f
<1>3. Owners!Fresh \in S /\ Owners!Fresh \notin DOMAIN heap
  <2>1. Owners!Fresh = CHOOSE b \in S : b \notin DOMAIN heap
    BY SameCardinality DEF Owners!Fresh
  <2> HIDE DEF S
  <2> QED BY <1>2, <2>1
<1> QED BY <1>1, <1>3

\* an owned block is freed where it came from
LEMMA NotFreedWrongly ==
  ASSUME NEW a, Owns(a, heap)
  PROVE  ~Owners!FreedWrongly(a)
BY DEF Owns, Owners!FreedWrongly

LEMMA CellsFilled ==
  ASSUME NEW xs \in Seq(Item), NEW cap \in Nat, Len(xs) <= cap
  PROVE  /\ Owners!Filled(xs, cap) \in Seq(Item \cup {Owners!Raw}) /\ Len(Owners!Filled(xs, cap)) = cap
         /\ \A i \in 1 .. Len(xs) : Owners!Filled(xs, cap)[i] = xs[i] /\ xs[i] \in Item
<1> DEFINE g == Owners!Filled(xs, cap)
           S == Item \cup {Owners!Raw}
           n == Len(xs)
<1>1. n \in Nat /\ \A i \in 1 .. n : xs[i] \in Item
  OBVIOUS
<1>2. \A i \in 1 .. cap : IF i <= n THEN xs[i] \in Item ELSE TRUE
  BY <1>1
<1>3. g = [i \in 1 .. cap |-> IF i <= n THEN xs[i] ELSE Owners!Raw]
  BY DEF Owners!Filled
<1> HIDE DEF n, g
<1>4. g \in [1 .. cap -> S] /\ \A i \in 1 .. cap : i <= n => g[i] = xs[i]
  BY <1>2, <1>3
<1>5. \A i \in 1 .. n : i \in 1 .. cap /\ i <= n
  BY <1>1 DEF n
<1> HIDE DEF S
<1>6. g \in Seq(S) /\ Len(g) = cap
  BY <1>4
<1> QED BY <1>1, <1>4, <1>5, <1>6 DEF n, g, S

\* What Store leaves of an array and its block
StoredBlock(a, b, cap, xs, g) ==
  /\ b \in DOMAIN g
  /\ g[b] = [from |-> a.allocator, bytes |-> Owners!Bytes(cap), cells |-> Owners!Filled(xs, cap)]

StoredArray(a, b, cap, xs) == [a EXCEPT !.data = b, !.size = Len(xs), !.capacity = cap]

LEMMA StoredOwns ==
  ASSUME NEW a \in ArrayOf, NEW b \in Int, NEW cap \in Nat, NEW xs \in Seq(Item), Len(xs) <= cap,
         cap = 0 <=> b = -1, NEW c, NEW g,
         c = StoredArray(a, b, cap, xs), b # -1 => StoredBlock(a, b, cap, xs, g)
  PROVE  Owns(c, g) /\ ItemsIn(c, g) = xs /\ c.data = b
<1> DEFINE n == Len(xs)
           d == Owners!Filled(xs, cap)
           S == Item \cup {Owners!Raw}
<1>1. n \in Nat /\ n <= cap
  OBVIOUS
<1>2. c \in ArrayOf /\ c.data = b /\ c.size = n /\ c.capacity = cap /\ c.allocator = a.allocator
  BY <1>1 DEF ArrayOf, StoredArray
<1>3. d \in Seq(S) /\ Len(d) = cap /\ \A i \in 1 .. n : d[i] = xs[i] /\ xs[i] \in Item
  BY CellsFilled
<1>4. Owners!Bytes(cap) \in Nat
  BY DEF Owners!Bytes
<1>5. CASE b = -1
  <2>1. xs = <<>>
    BY <1>1, <1>5
  <2> HIDE DEF n, d, S
  <2>2. c.data = -1 /\ c.capacity = 0 /\ c.size <= 0
    BY <1>1, <1>2, <1>5
  <2> QED BY <1>2, <2>1, <2>2 DEF Owns, ItemsIn
<1>6. CASE b # -1
  <2> DEFINE r == g[b]
  <2> HIDE DEF n, d, S
  <2>1. b \in DOMAIN g /\ r = [from |-> a.allocator, bytes |-> Owners!Bytes(cap), cells |-> d]
    BY <1>6 DEF d, StoredBlock
  <2> HIDE DEF r
  <2>2. r \in Block /\ r.from = a.allocator /\ r.bytes = Owners!Bytes(cap) /\ r.cells = d
    BY <1>2, <1>3, <1>4, <2>1 DEF Block, ArrayOf, S
  <2>3. \A i \in 1 .. n : d[i] \in Item
    BY <1>3
  <2>4. Owns(c, g)
    <3>1. c.size <= c.capacity /\ (c.capacity = 0 <=> c.data = -1)
      BY <1>1, <1>2
    <3> QED BY <1>2, <1>3, <1>6, <2>1, <2>2, <2>3, <3>1 DEF Owns, r
  <2>5. ItemsIn(c, g) = xs
    <3> DEFINE ys == SubSeq(d, 1, n)
    <3>1. n \in 0 .. Len(d)
      BY <1>1, <1>3
    <3>2. ys \in Seq(S) /\ Len(ys) = n /\ \A i \in 1 .. n : ys[i] = d[i]
      BY <1>3, <3>1, FirstItems
    <3>3. xs \in Seq(S) /\ Len(xs) = n
      BY DEF S, n
    <3> HIDE DEF ys
    <3>4. \A i \in 1 .. Len(ys) : ys[i] = xs[i]
      BY <1>3, <3>2
    <3>5. ys = xs
      BY <3>2, <3>3, <3>4, SeqEqual
    <3> QED BY <1>2, <1>6, <2>2, <3>5 DEF ItemsIn, ys, r
  <2> QED BY <1>2, <2>4, <2>5
<1> QED BY <1>5, <1>6

\* the values after one of them is set
LEMMA ValuesSet ==
  ASSUME NEW v, NEW xs, DOMAIN arrays' = DOMAIN arrays \cup {v}, ItemsIn(arrays[v], heap)' = xs,
         \A w \in DOMAIN arrays : w # v => ItemsIn(arrays[w], heap)' = ItemsIn(arrays[w], heap)
  PROVE  Owners!values' = Owners!With(Owners!values, v, xs)
<1>1. Owners!values' = [w \in DOMAIN arrays' |-> ItemsIn(arrays[w], heap)']
  BY DEF Owners!values, Owners!Items, Owners!None, ItemsIn
<1>2. Owners!values = [w \in DOMAIN arrays |-> ItemsIn(arrays[w], heap)]
  BY DEF Owners!values, Owners!Items, Owners!None, ItemsIn
<1>3. Owners!With(Owners!values, v, xs)
        = [w \in DOMAIN arrays \cup {v} |-> IF w = v THEN xs ELSE Owners!values[w]]
  BY <1>2 DEF Owners!With
<1>4. \A w \in DOMAIN arrays \cup {v} :
        ItemsIn(arrays[w], heap)' = IF w = v THEN xs ELSE Owners!values[w]
  BY <1>2
<1> QED BY <1>1, <1>3, <1>4

\* an array may be stored
Stores(v, a) ==
  /\ v \in Var /\ Owns(a, heap)
  /\ (v \in DOMAIN arrays => arrays[v] = a)
  /\ (v \notin DOMAIN arrays => a.data = -1)

LEMMA StoreKeeps ==
  ASSUME OwnersInv, NEW v, NEW a, Stores(v, a), NEW cap \in Nat, NEW xs \in Seq(Item), Len(xs) <= cap,
         Owners!Store(v, a, xs, cap)
  PROVE  OwnersInv' /\ Owners!values' = Owners!With(Owners!values, v, xs)
<1> DEFINE at == IF cap = a.capacity THEN {a.data}
                 ELSE IF cap = 0 THEN {-1}
                 ELSE IF a.capacity = 0 THEN {Owners!Fresh} ELSE {a.data, Owners!Fresh}
           kept == IF cap = a.capacity THEN heap ELSE Owners!Without(heap, a.data)
           r == [from |-> a.allocator, bytes |-> Owners!Bytes(cap), cells |-> Owners!Filled(xs, cap)]
<1>1. PICK b \in at :
        /\ arrays' = Owners!With(arrays, v, [a EXCEPT !.data = b, !.size = Len(xs), !.capacity = cap])
        /\ heap' = IF b = -1 THEN kept ELSE Owners!With(kept, b, r)
        /\ wrong' = (wrong \/ (cap # a.capacity /\ Owners!FreedWrongly(a)))
        /\ UNCHANGED <<default, swaps>>
  BY DEF Owners!Store, Owners!None
<1>2. /\ Owned(arrays, heap) /\ v \in Var /\ Owns(a, heap)
      /\ (v \in DOMAIN arrays => arrays[v] = a)
      /\ (v \notin DOMAIN arrays => a.data = -1)
  BY DEF OwnersInv, Stores
<1>3. Owners!Fresh \in Nat /\ Owners!Fresh \notin DOMAIN heap
  BY <1>2, FreshIs
<1>4. a \in ArrayOf /\ (a.capacity = 0 <=> a.data = -1) /\ (a.data # -1 => a.data \in DOMAIN heap)
      /\ a.data \in Int /\ DOMAIN heap \subseteq Nat
  BY <1>2 DEF Owns, Owned, ArrayOf
<1>5. /\ b \in Int /\ (cap = 0 <=> b = -1)
      /\ b \in DOMAIN heap => b = a.data
      /\ b # -1 => b \in Nat
      /\ cap = a.capacity => b = a.data
  BY <1>1, <1>3, <1>4
<1> DEFINE c == [a EXCEPT !.data = b, !.size = Len(xs), !.capacity = cap]
<1>6. DOMAIN kept = IF cap = a.capacity THEN DOMAIN heap ELSE DOMAIN heap \ {a.data}
  BY DEF Owners!Without
<1>7. \A d \in DOMAIN heap : d # a.data => kept[d] = heap[d]
  BY DEF Owners!Without
<1> HIDE DEF kept, at
<1>8. b # -1 => DOMAIN heap' = DOMAIN kept \cup {b} /\ heap'[b] = r
                /\ \A d \in DOMAIN kept : d # b => heap'[d] = kept[d]
  BY <1>1 DEF Owners!With
<1>9. b = -1 => heap' = kept
  BY <1>1
<1>10. \A d : d \in DOMAIN heap' <=> (d \in DOMAIN heap /\ d # a.data) \/ (d = b /\ d # -1)
  <2>1. CASE b = -1
    <3>1. -1 \notin DOMAIN heap
      BY <1>4
    <3>2. cap = a.capacity => a.data = -1
      BY <1>5, <2>1
    <3> QED BY <1>6, <1>9, <2>1, <3>1, <3>2
  <2>2. CASE b # -1
    <3>1. cap = a.capacity => a.data = b
      BY <1>5
    <3> QED BY <1>6, <1>8, <2>2, <3>1
  <2> QED BY <2>1, <2>2
<1>11. \A d \in DOMAIN heap : d # a.data => heap'[d] = heap[d]
  <2> SUFFICES ASSUME NEW d \in DOMAIN heap, d # a.data PROVE heap'[d] = heap[d]
    OBVIOUS
  <2>1. kept[d] = heap[d] /\ d \in DOMAIN kept
    BY <1>6, <1>7
  <2>2. d # b
    BY <1>5
  <2> QED BY <1>8, <1>9, <2>1, <2>2
<1>12. b # -1 => b \in DOMAIN heap' /\ heap'[b] = r
  BY <1>8
<1> HIDE DEF c
<1>13. Owns(c, heap') /\ ItemsIn(c, heap') = xs /\ c.data = b
  <2>1. c = StoredArray(a, b, cap, xs)
    BY DEF c, StoredArray
  <2> DEFINE g == heap'
  <2>2. b # -1 => StoredBlock(a, b, cap, xs, g)
    BY <1>12 DEF StoredBlock
  <2> HIDE DEF g, r
  <2>3. Owns(c, g) /\ ItemsIn(c, g) = xs /\ c.data = b
    BY <1>4, <1>5, <2>1, <2>2, StoredOwns
  <2> QED BY <2>3 DEF g
<1>14. SetAt(arrays, v, c, arrays')
  BY <1>1, WithSets DEF c
<1>15. DOMAIN heap' \subseteq Nat
  BY <1>4, <1>5, <1>10
<1>16. /\ Owned(arrays', heap')
       /\ \A w \in DOMAIN arrays : w # v => ItemsIn(arrays'[w], heap') = ItemsIn(arrays[w], heap)
  <2>1. c.data \in DOMAIN heap => c.data = a.data
    BY <1>5, <1>13
  <2>2. \A d : d \in DOMAIN heap' <=> (d \in DOMAIN heap /\ d # a.data) \/ (d = c.data /\ d # -1)
    BY <1>10, <1>13
  <2> QED BY <1>2, <1>11, <1>13, <1>14, <1>15, <2>1, <2>2, OneChanges
<1>17. wrong' = FALSE
  BY <1>1, <1>2, NotFreedWrongly DEF OwnersInv
<1>18. Swapped'
  BY <1>1 DEF OwnersInv, Swapped
<1>19. OwnersInv'
  BY <1>16, <1>17, <1>18 DEF OwnersInv
<1>20. Owners!values' = Owners!With(Owners!values, v, xs)
  BY <1>13, <1>14, <1>16, ValuesSet DEF SetAt
<1> QED BY <1>19, <1>20

LEMMA ValuesAre ==
  /\ DOMAIN Owners!values = DOMAIN arrays
  /\ \A v \in DOMAIN arrays : Owners!values[v] = ItemsIn(arrays[v], heap)
  /\ \A a : Owners!Items(a) = ItemsIn(a, heap)
BY DEF Owners!values, Owners!Items, Owners!None, ItemsIn

LEMMA ArraysAre ==
  ASSUME OwnersInv, NEW v \in DOMAIN arrays
  PROVE  /\ v \in Var /\ Owns(arrays[v], heap) /\ arrays[v] \in ArrayOf /\ Stores(v, arrays[v])
         /\ Owners!Items(arrays[v]) \in Seq(Item) /\ Len(Owners!Items(arrays[v])) = arrays[v].size
         /\ Owners!values[v] = Owners!Items(arrays[v])
<1>1. v \in Var /\ Owns(arrays[v], heap)
  BY DEF OwnersInv, Owned
<1>2. arrays[v] \in ArrayOf
  BY <1>1 DEF Owns
<1>3. Stores(v, arrays[v])
  BY <1>1 DEF Stores
<1> QED BY <1>1, <1>2, <1>3, OwnedItems, ValuesAre

LEMMA CopyIntoKeeps ==
  ASSUME OwnersInv, NEW v, NEW a, Stores(v, a), NEW xs \in Seq(Item), Owners!copy(v, a, xs)
  PROVE  OwnersInv' /\ Owners!values' = Owners!With(Owners!values, v, xs)
<1> DEFINE cap == Owners!AtLeast(a.capacity, Len(xs))
<1>1. a.capacity \in Nat /\ Len(xs) \in Nat
  BY DEF Stores, Owns, ArrayOf
<1>2. cap \in Nat /\ Len(xs) <= cap
  BY <1>1 DEF Owners!AtLeast
<1>3. Owners!Store(v, a, xs, cap)
  BY DEF Owners!copy
<1> HIDE DEF cap
<1> QED BY <1>2, <1>3, StoreKeeps

LEMMA NewStores ==
  ASSUME NEW v \in Var, v \notin DOMAIN arrays, NEW al \in Allocator
  PROVE  Stores(v, Owners!Empty(al))
BY EmptyOwns DEF Stores

LEMMA ConstructKeeps ==
  ASSUME OwnersInv, NEW v \in Var, NEW al \in Allocator, Owners!construct(v, al)
  PROVE  OwnersInv' /\ Owners!values' = Owners!With(Owners!values, v, <<>>)
<1> DEFINE c == Owners!Empty(al)
<1>1. v \notin DOMAIN arrays /\ arrays' = Owners!With(arrays, v, c) /\ UNCHANGED <<heap, default, swaps, wrong>>
  BY DEF Owners!construct
<1>2. Owns(c, heap) /\ c.data = -1 /\ ItemsIn(c, heap) = <<>>
  BY EmptyOwns
<1> HIDE DEF c
<1>3. Owned(arrays, heap) /\ DOMAIN heap \subseteq Nat
  BY DEF OwnersInv, Owned
<1>4. SetAt(arrays, v, c, arrays')
  BY <1>1, WithSets
<1>5. /\ Owned(arrays', heap)
      /\ \A w \in DOMAIN arrays : w # v => ItemsIn(arrays'[w], heap) = ItemsIn(arrays[w], heap)
  <2>1. -1 \notin DOMAIN heap
    BY <1>3
  <2>2. c.data \in DOMAIN heap => c.data = c.data
    OBVIOUS
  <2>3. \A b : b \in DOMAIN heap <=> (b \in DOMAIN heap /\ b # c.data) \/ (b = c.data /\ b # -1)
    BY <1>2, <2>1
  <2>4. \A b \in DOMAIN heap : b # c.data => heap[b] = heap[b]
    OBVIOUS
  <2> QED BY <1>1, <1>2, <1>3, <1>4, <2>2, <2>3, <2>4, OneChanges
<1>6. OwnersInv'
  BY <1>1, <1>5 DEF OwnersInv, Swapped
<1>7. Owners!values' = Owners!With(Owners!values, v, <<>>)
  BY <1>1, <1>2, <1>4, <1>5, ValuesSet DEF SetAt
<1> QED BY <1>6, <1>7

LEMMA OwnKeeps ==
  ASSUME OwnersInv, NEW v \in Var, NEW al \in Allocator, NEW xs \in Given, Owners!own(v, xs, al)
  PROVE  OwnersInv' /\ Owners!values' = Owners!With(Owners!values, v, xs)
<1>1. Stores(v, Owners!Empty(al)) /\ Owners!copy(v, Owners!Empty(al), xs)
  BY NewStores DEF Owners!own
<1>2. xs \in Seq(Item)
  BY ArrayAssumption
<1> QED BY <1>1, <1>2, CopyIntoKeeps

LEMMA CopyOtherKeeps ==
  ASSUME OwnersInv, NEW v \in Var, NEW other \in DOMAIN arrays,
         Owners!copy_construct(v, other) \/ Owners!copy_assign(v, other)
  PROVE  OwnersInv' /\ Owners!values' = Owners!With(Owners!values, v, Owners!values[other])
<1> DEFINE xs == Owners!Items(arrays[other])
<1>1. xs \in Seq(Item) /\ xs = Owners!values[other]
  BY ArraysAre
<1>2. default \in Allocator
  BY DEF OwnersInv, Swapped
<1>3. \E a : Stores(v, a) /\ Owners!copy(v, a, xs)
  <2>1. CASE Owners!copy_construct(v, other)
    <3>1. v \notin DOMAIN arrays /\ Owners!copy(v, Owners!Empty(default), xs)
      BY <2>1 DEF Owners!copy_construct
    <3> QED BY <1>2, <3>1, NewStores
  <2>2. CASE Owners!copy_assign(v, other)
    <3>1. v \in DOMAIN arrays /\ Owners!copy(v, arrays[v], xs)
      BY <2>2 DEF Owners!copy_assign
    <3> QED BY <3>1, ArraysAre
  <2> QED BY <2>1, <2>2
<1> HIDE DEF xs
<1> QED BY <1>1, <1>3, CopyIntoKeeps

LEMMA SetOwnCapacityKeeps ==
  ASSUME OwnersInv, NEW v \in DOMAIN arrays, NEW cap \in OwnedCapacities, Owners!set_capacity(v, cap)
  PROVE  /\ OwnersInv'
         /\ Owners!values' = Owners!With(Owners!values, v, SubSeq(Owners!values[v], 1, IF cap < Len(Owners!values[v]) THEN cap ELSE Len(Owners!values[v])))
<1> DEFINE a == arrays[v]
           n == IF cap < a.size THEN cap ELSE a.size
           ys == Owners!Items(a)
           xs == SubSeq(ys, 1, n)
<1>1. /\ Stores(v, a) /\ v \in Var /\ ys \in Seq(Item) /\ Len(ys) = a.size /\ a.size \in Nat
      /\ Owners!values[v] = ys
  BY ArraysAre DEF ArrayOf
<1>2. cap \in Nat
  BY OwnersAssumption
<1>3. Owners!Store(v, a, xs, cap)
  BY DEF Owners!set_capacity
<1>4. n \in 0 .. Len(ys) /\ n <= cap
  BY <1>1, <1>2
<1> HIDE DEF a, n, ys
<1>5. xs \in Seq(Item) /\ Len(xs) = n
  BY <1>1, <1>4, FirstItems
<1>6. xs = SubSeq(Owners!values[v], 1, n) /\ n = IF cap < Len(Owners!values[v]) THEN cap ELSE Len(Owners!values[v])
  BY <1>1 DEF n, a
<1> HIDE DEF xs
<1>7. OwnersInv' /\ Owners!values' = Owners!With(Owners!values, v, xs)
  BY <1>1, <1>2, <1>3, <1>4, <1>5, StoreKeeps
<1> QED BY <1>6, <1>7

LEMMA DestructKeeps ==
  ASSUME OwnersInv, NEW v \in DOMAIN arrays, Owners!destruct(v)
  PROVE  OwnersInv' /\ Owners!values' = Owners!Without(Owners!values, v)
<1> DEFINE a == arrays[v]
<1>1. /\ arrays' = Owners!Without(arrays, v)
      /\ heap' = IF a.capacity # 0 THEN Owners!Without(heap, a.data) ELSE heap
      /\ wrong' = (wrong \/ Owners!FreedWrongly(a))
      /\ UNCHANGED <<default, swaps>>
  BY DEF Owners!destruct
<1>2. v \in Var /\ Owns(a, heap) /\ a.data \in Int /\ (a.capacity = 0 <=> a.data = -1)
  BY ArraysAre DEF Owns, ArrayOf
<1>3. /\ DOMAIN arrays \subseteq Var /\ DOMAIN heap \subseteq Nat
      /\ \A w \in DOMAIN arrays : Owns(arrays[w], heap)
      /\ \A u, w \in DOMAIN arrays : arrays[u].data = arrays[w].data /\ arrays[u].data # -1 => u = w
      /\ \A b \in DOMAIN heap : \E w \in DOMAIN arrays : arrays[w].data = b
  BY DEF OwnersInv, Owned
<1>4. /\ DOMAIN arrays' = DOMAIN arrays \ {v}
      /\ \A w \in DOMAIN arrays : w # v => arrays'[w] = arrays[w]
  BY <1>1 DEF Owners!Without
<1>5. /\ \A b : b \in DOMAIN heap' <=> b \in DOMAIN heap /\ b # a.data
      /\ \A b \in DOMAIN heap' : heap'[b] = heap[b]
  <2>1. CASE a.capacity # 0
    BY <1>1, <2>1 DEF Owners!Without
  <2>2. CASE a.capacity = 0
    BY <1>1, <1>2, <1>3, <2>2
  <2> QED BY <2>1, <2>2
<1>6. ASSUME NEW w \in DOMAIN arrays'
      PROVE  Owns(arrays'[w], heap') /\ ItemsIn(arrays'[w], heap') = ItemsIn(arrays[w], heap)
  <2> DEFINE d == arrays[w]
  <2>1. arrays'[w] = d /\ Owns(d, heap) /\ w \in DOMAIN arrays /\ w # v
    BY <1>3, <1>4
  <2>2. d.data # -1 => d.data \in DOMAIN heap /\ d.data # a.data
    BY <1>3, <2>1 DEF Owns
  <2>3. d.data # -1 => d.data \in DOMAIN heap' /\ heap'[d.data] = heap[d.data]
    BY <1>5, <2>2
  <2> HIDE DEF d
  <2>4. Owns(d, heap') /\ ItemsIn(d, heap') = ItemsIn(d, heap)
    BY <2>1, <2>3 DEF Owns, ItemsIn
  <2> QED BY <2>1, <2>4 DEF d
<1>7. ASSUME NEW b \in DOMAIN heap' PROVE \E w \in DOMAIN arrays' : arrays'[w].data = b
  <2>1. b \in DOMAIN heap /\ b # a.data
    BY <1>5
  <2>2. PICK w \in DOMAIN arrays : arrays[w].data = b
    BY <1>3, <2>1
  <2> QED BY <1>4, <2>1, <2>2
<1>8. Owned(arrays', heap')
  <2>1. DOMAIN arrays' \subseteq Var /\ DOMAIN heap' \subseteq Nat
    BY <1>3, <1>4, <1>5
  <2>2. \A u, w \in DOMAIN arrays' : arrays'[u].data = arrays'[w].data /\ arrays'[u].data # -1 => u = w
    BY <1>3, <1>4
  <2> QED BY <1>6, <1>7, <2>1, <2>2 DEF Owned
<1>9. wrong' = FALSE
  BY <1>1, <1>2, NotFreedWrongly DEF OwnersInv
<1>10. Swapped'
  BY <1>1 DEF OwnersInv, Swapped
<1>11. Owners!values' = Owners!Without(Owners!values, v)
  <2>1. Owners!values' = [w \in DOMAIN arrays' |-> ItemsIn(arrays'[w], heap')]
    BY DEF Owners!values, Owners!Items, Owners!None, ItemsIn
  <2>2. Owners!Without(Owners!values, v) = [w \in DOMAIN arrays \ {v} |-> Owners!values[w]]
    BY ValuesAre DEF Owners!Without
  <2>3. \A w \in DOMAIN arrays' : ItemsIn(arrays'[w], heap') = Owners!values[w]
    BY <1>4, <1>6, ValuesAre
  <2> QED BY <1>4, <2>1, <2>2, <2>3
<1> QED BY <1>8, <1>9, <1>10, <1>11 DEF OwnersInv

LEMMA SwapKeeps ==
  ASSUME OwnersInv, NEW v \in Var, NEW other \in DOMAIN arrays, NEW target, Owners!swap(v, target, other),
         v \in DOMAIN arrays => target = arrays[v],
         v \notin DOMAIN arrays => target = Owners!Empty(default)
  PROVE  /\ OwnersInv'
         /\ LET old == IF v \in DOMAIN arrays THEN Owners!values[v] ELSE <<>>
            IN  Owners!values' = Owners!With(Owners!With(Owners!values, other, old), v, Owners!values[other])
<1> DEFINE e == arrays[other]
<1>1. /\ arrays' = Owners!With(Owners!With(arrays, other, target), v, e)
      /\ UNCHANGED <<heap, default, swaps, wrong>>
  BY DEF Owners!swap
<1>2. /\ DOMAIN arrays \subseteq Var /\ DOMAIN heap \subseteq Nat
      /\ \A w \in DOMAIN arrays : Owns(arrays[w], heap)
      /\ \A u, w \in DOMAIN arrays : arrays[u].data = arrays[w].data /\ arrays[u].data # -1 => u = w
      /\ \A b \in DOMAIN heap : \E w \in DOMAIN arrays : arrays[w].data = b
  BY DEF OwnersInv, Owned
<1>3. default \in Allocator
  BY DEF OwnersInv, Swapped
<1>4. Owns(target, heap) /\ Owns(e, heap)
  BY <1>2, <1>3, EmptyOwns
<1>5. v \notin DOMAIN arrays => target.data = -1 /\ ItemsIn(target, heap) = <<>>
  BY <1>3, EmptyOwns
<1>6. /\ DOMAIN arrays' = DOMAIN arrays \cup {v}
      /\ arrays'[v] = e /\ (other # v => arrays'[other] = target)
      /\ \A w \in DOMAIN arrays : w # v /\ w # other => arrays'[w] = arrays[w]
  BY <1>1 DEF Owners!With
<1> HIDE DEF e
<1>7. \A w \in DOMAIN arrays' : Owns(arrays'[w], heap)
  BY <1>2, <1>4, <1>6
<1> DEFINE from == [w \in DOMAIN arrays' |-> IF w = v THEN other ELSE IF w = other THEN v ELSE w]
<1>8. \A w \in DOMAIN arrays' :
        /\ arrays'[w].data # -1 => from[w] \in DOMAIN arrays
        /\ from[w] \in DOMAIN arrays => arrays'[w] = arrays[from[w]]
  BY <1>5, <1>6 DEF e
<1>9. ASSUME NEW u \in DOMAIN arrays', NEW w \in DOMAIN arrays', from[u] = from[w] PROVE u = w
  BY <1>9
<1>10. ASSUME NEW u \in DOMAIN arrays', NEW w \in DOMAIN arrays',
              arrays'[u].data = arrays'[w].data, arrays'[u].data # -1
       PROVE  u = w
  <2> HIDE DEF from
  <2>1. from[u] \in DOMAIN arrays /\ from[w] \in DOMAIN arrays
        /\ arrays'[u] = arrays[from[u]] /\ arrays'[w] = arrays[from[w]]
    BY <1>8, <1>10
  <2>2. from[u] = from[w]
    BY <1>2, <1>10, <2>1
  <2> QED BY <1>9, <2>2
<1>11. ASSUME NEW b \in DOMAIN heap PROVE \E w \in DOMAIN arrays' : arrays'[w].data = b
  <2>1. PICK w \in DOMAIN arrays : arrays[w].data = b
    BY <1>2
  <2>2. CASE w = other
    BY <1>6, <2>1, <2>2 DEF e
  <2>3. CASE w = v /\ w # other
    BY <1>6, <2>1, <2>3
  <2>4. CASE w # v /\ w # other
    BY <1>6, <2>1, <2>4
  <2> QED BY <2>2, <2>3, <2>4
<1>12. Owned(arrays', heap)
  BY <1>2, <1>6, <1>7, <1>10, <1>11 DEF Owned
<1>13. OwnersInv'
  BY <1>1, <1>12 DEF OwnersInv, Swapped
<1> DEFINE old == IF v \in DOMAIN arrays THEN Owners!values[v] ELSE <<>>
<1>14. Owners!values' = Owners!With(Owners!With(Owners!values, other, old), v, Owners!values[other])
  <2>1. old = ItemsIn(target, heap)
    BY <1>5, ValuesAre
  <2> HIDE DEF old
  <2>2. Owners!values' = [w \in DOMAIN arrays' |-> ItemsIn(arrays'[w], heap)]
    BY <1>1 DEF Owners!values, Owners!Items, Owners!None, ItemsIn
  <2>3. Owners!With(Owners!With(Owners!values, other, old), v, Owners!values[other])
          = [w \in DOMAIN arrays' |-> IF w = v THEN Owners!values[other]
                                      ELSE IF w = other THEN old ELSE Owners!values[w]]
    <3>1. DOMAIN arrays' = (DOMAIN Owners!values \cup {other}) \cup {v}
      BY <1>6, ValuesAre
    <3> QED BY <3>1 DEF Owners!With
  <2>4. \A w \in DOMAIN arrays' :
          ItemsIn(arrays'[w], heap) = IF w = v THEN Owners!values[other]
                                      ELSE IF w = other THEN old ELSE Owners!values[w]
    BY <1>6, <2>1, ValuesAre DEF e
  <2> QED BY <2>2, <2>3, <2>4
<1> QED BY <1>13, <1>14

LEMMA MoveKeeps ==
  ASSUME OwnersInv, NEW v \in Var, NEW other \in DOMAIN arrays
  PROVE  /\ Owners!move_construct(v, other) =>
              OwnersInv' /\ Owners!values' = Owners!With(Owners!With(Owners!values, other, <<>>), v, Owners!values[other])
         /\ Owners!move_assign(v, other) =>
              OwnersInv' /\ Owners!values' = Owners!With(Owners!With(Owners!values, other, Owners!values[v]), v, Owners!values[other])
<1>1. ASSUME Owners!move_construct(v, other)
      PROVE  OwnersInv' /\ Owners!values' = Owners!With(Owners!With(Owners!values, other, <<>>), v, Owners!values[other])
  <2>1. v \notin DOMAIN arrays /\ Owners!swap(v, Owners!Empty(default), other)
    BY <1>1 DEF Owners!move_construct
  <2> QED BY <2>1, SwapKeeps
<1>2. ASSUME Owners!move_assign(v, other)
      PROVE  OwnersInv' /\ Owners!values' = Owners!With(Owners!With(Owners!values, other, Owners!values[v]), v, Owners!values[other])
  <2>1. v \in DOMAIN arrays /\ Owners!swap(v, arrays[v], other)
    BY <1>2 DEF Owners!move_assign
  <2> QED BY <2>1, SwapKeeps
<1> QED BY <1>1, <1>2

LEMMA SameValues ==
  ASSUME OwnersInv, UNCHANGED <<arrays, heap, wrong>>
  PROVE  Owned(arrays, heap)' /\ wrong' = FALSE /\ UNCHANGED Owners!values
<1>1. Owned(arrays, heap)' /\ wrong' = FALSE
  BY DEF OwnersInv
<1>2. UNCHANGED Owners!values
  BY DEF Owners!values, Owners!Items
<1> QED BY <1>1, <1>2

LEMMA SwapsKeep ==
  ASSUME OwnersInv, Owners!Restore \/ \E al \in Allocator : Owners!Exchange(al)
  PROVE  Swapped' /\ UNCHANGED <<arrays, heap, wrong>>
<1> DEFINE n == Len(swaps)
<1>1. default \in Allocator /\ swaps \in Seq(Allocator) /\ IF swaps = <<>> THEN default = Malloc ELSE swaps[1] = Malloc
  BY DEF OwnersInv, Swapped
<1>2. n \in Nat /\ (swaps = <<>> <=> n = 0)
  BY <1>1
<1>3. ASSUME NEW al \in Allocator, Owners!Exchange(al) PROVE Swapped' /\ UNCHANGED <<arrays, heap, wrong>>
  <2>1. default' = al /\ swaps' = Append(swaps, default) /\ UNCHANGED <<arrays, heap, wrong>>
    BY <1>3 DEF Owners!Exchange
  <2>2. /\ swaps' \in Seq(Allocator) /\ Len(swaps') = n + 1
        /\ \A i \in 1 .. n : swaps'[i] = swaps[i]
        /\ swaps'[n + 1] = default
    BY <1>1, <2>1, AppendProperties
  <2> HIDE DEF n
  <2>3. swaps' # <<>>
    BY <1>2, <2>2
  <2>4. swaps'[1] = Malloc
    <3>1. CASE n = 0
      BY <1>1, <1>2, <2>2, <3>1
    <3>2. CASE n # 0
      BY <1>1, <1>2, <2>2, <3>2
    <3> QED BY <3>1, <3>2
  <2> QED BY <2>1, <2>2, <2>3, <2>4 DEF Swapped
<1>4. CASE Owners!Restore
  <2>1. /\ swaps # <<>> /\ default' = swaps[n] /\ swaps' = SubSeq(swaps, 1, n - 1)
        /\ UNCHANGED <<arrays, heap, wrong>>
    BY <1>4 DEF Owners!Restore
  <2>2. n \in 1 .. n /\ n - 1 \in 0 .. n
    BY <1>2, <2>1
  <2>3. default' \in Allocator
    BY <1>1, <2>1, <2>2
  <2> DEFINE m == n - 1
  <2>4. swaps' \in Seq(Allocator) /\ Len(swaps') = m /\ \A i \in 1 .. m : swaps'[i] = swaps[i]
    <3>1. m \in 0 .. Len(swaps) /\ swaps' = SubSeq(swaps, 1, m)
      BY <2>1, <2>2
    <3> HIDE DEF m
    <3> QED BY <1>1, <3>1, FirstItems
  <2>5. IF swaps' = <<>> THEN default' = Malloc ELSE swaps'[1] = Malloc
    <3>1. m \in Nat /\ (m = 0 => n = 1)
      BY <1>2, <2>2
    <3> HIDE DEF m, n
    <3>2. CASE m = 0
      <4>1. swaps' = <<>>
        BY <2>4, <3>2
      <4> QED BY <1>1, <2>1, <3>1, <3>2, <4>1
    <3>3. CASE m # 0
      <4>1. 1 \in 1 .. m
        BY <3>1, <3>3
      <4>2. swaps' # <<>> /\ swaps'[1] = swaps[1]
        BY <2>4, <4>1
      <4> QED BY <1>1, <2>1, <4>2
    <3> QED BY <3>2, <3>3
  <2> QED BY <2>1, <2>3, <2>4, <2>5 DEF Swapped
<1> QED BY <1>3, <1>4

\* Each operation on arrays that own their blocks sets one value or exchanges two.
LEMMA OwnersFollow == OwnersInv => Owners!ValueStep
<1> SUFFICES ASSUME OwnersInv PROVE Owners!ValueStep
  OBVIOUS
<1>1. \A v \in Var, al \in Allocator :
        Owners!construct(v, al) => Owners!values' = Owners!With(Owners!values, v, <<>>)
  BY ConstructKeeps
<1>2. \A v \in Var, al \in Allocator : \A xs \in Given :
        Owners!own(v, xs, al) => Owners!values' = Owners!With(Owners!values, v, xs)
  BY OwnKeeps
<1>3. \A v \in Var, other \in DOMAIN arrays :
        Owners!copy_construct(v, other) \/ Owners!copy_assign(v, other) =>
          Owners!values' = Owners!With(Owners!values, v, Owners!values[other])
  BY CopyOtherKeeps
<1>4. \A v \in Var, other \in DOMAIN arrays :
        Owners!move_construct(v, other) =>
          Owners!values' = Owners!With(Owners!With(Owners!values, other, <<>>), v, Owners!values[other])
  BY MoveKeeps
<1>5. \A v \in Var, other \in DOMAIN arrays :
        Owners!move_assign(v, other) =>
          Owners!values' = Owners!With(Owners!With(Owners!values, other, Owners!values[v]), v, Owners!values[other])
  BY MoveKeeps
<1>6. \A v \in DOMAIN arrays : Owners!destruct(v) => Owners!values' = Owners!Without(Owners!values, v)
  BY DestructKeeps
<1>7. \A v \in DOMAIN arrays : \A cap \in OwnedCapacities :
        Owners!set_capacity(v, cap) =>
          Owners!values' = Owners!With(Owners!values, v, SubSeq(Owners!values[v], 1, IF cap < Len(Owners!values[v]) THEN cap ELSE Len(Owners!values[v])))
  BY SetOwnCapacityKeeps
<1>8. (\E al \in Allocator : Owners!Exchange(al)) \/ Owners!Restore => UNCHANGED Owners!values
  BY SwapsKeep, SameValues
<1> QED BY ONLY <1>1, <1>2, <1>3, <1>4, <1>5, <1>6, <1>7, <1>8 DEF Owners!ValueStep

\* Every operation leaves the blocks owned.
LEMMA OwnersStep == OwnersInv /\ Owners!Next => OwnersInv'
<1> SUFFICES ASSUME OwnersInv, Owners!Next PROVE OwnersInv'
  OBVIOUS
<1>1. CASE \E v \in Var, al \in Allocator : Owners!construct(v, al)
  BY <1>1, ConstructKeeps
<1>2. CASE \E v \in Var, al \in Allocator : \E xs \in Given : Owners!own(v, xs, al)
  BY <1>2, OwnKeeps
<1>3. CASE \E v \in Var, other \in DOMAIN arrays :
             Owners!copy_construct(v, other) \/ Owners!copy_assign(v, other)
  BY <1>3, CopyOtherKeeps
<1>4. CASE \E v \in Var, other \in DOMAIN arrays :
             Owners!move_construct(v, other) \/ Owners!move_assign(v, other)
  BY <1>4, MoveKeeps
<1>5. CASE \E v \in DOMAIN arrays : Owners!destruct(v)
  BY <1>5, DestructKeeps
<1>6. CASE \E v \in DOMAIN arrays : \E cap \in OwnedCapacities : Owners!set_capacity(v, cap)
  BY <1>6, SetOwnCapacityKeeps
<1>7. CASE Owners!Restore \/ \E al \in Allocator : Owners!Exchange(al)
  <2>1. Swapped' /\ UNCHANGED <<arrays, heap, wrong>>
    BY <1>7, SwapsKeep
  <2> QED BY <2>1, SameValues DEF OwnersInv
<1> QED BY <1>1, <1>2, <1>3, <1>4, <1>5, <1>6, <1>7 DEF Owners!Next

LEMMA OwnersSound == OwnersInv => Owners!BlocksOwned /\ Owners!DefaultRestored
<1> SUFFICES ASSUME OwnersInv PROVE Owners!BlocksOwned /\ Owners!DefaultRestored
  OBVIOUS
<1>1. /\ \A v \in DOMAIN arrays : Owns(arrays[v], heap)
      /\ \A u, w \in DOMAIN arrays : arrays[u].data = arrays[w].data /\ arrays[u].data # -1 => u = w
      /\ \A b \in DOMAIN heap : b \in Nat /\ \E w \in DOMAIN arrays : arrays[w].data = b
  BY DEF OwnersInv, Owned
<1>2. ASSUME NEW b \in DOMAIN heap PROVE Owners!Cardinality({v \in DOMAIN arrays : arrays[v].data = b}) = 1
  <2>1. PICK w \in DOMAIN arrays : arrays[w].data = b
    BY <1>1
  <2>2. b # -1
    BY <1>1
  <2>3. {v \in DOMAIN arrays : arrays[v].data = b} = {w}
    BY <1>1, <2>1, <2>2
  <2> QED BY <2>3, SameCardinality, FS_Singleton
<1>3. ASSUME NEW v \in DOMAIN arrays
      PROVE  /\ (arrays[v].capacity = 0) = (arrays[v].data = -1)
             /\ arrays[v].data # -1 => arrays[v].data \in DOMAIN heap /\ ~Owners!FreedWrongly(arrays[v])
  BY <1>1, NotFreedWrongly DEF Owns
<1>4. Owners!BlocksOwned
  BY <1>2, <1>3 DEF Owners!BlocksOwned, Owners!None, OwnersInv
<1>5. Owners!DefaultRestored
  BY DEF OwnersInv, Swapped, Owners!DefaultRestored
<1> QED BY <1>4, <1>5

-----------------------------------------------------------------------------
(* Lists *)

\* the item at this place, counted from 1, or none
At(s, i) == IF i \in 1 .. Len(s) THEN s[i] ELSE Null

Distinct(s) == \A i, j \in 1 .. Len(s) : s[i] = s[j] => i = j

Links == [Node -> Node \cup {Null}]

\* each node of s leads to the one after it, other nodes lead nowhere
NextOf(next, s) ==
  /\ next \in Links
  /\ \A i \in 1 .. Len(s) : next[s[i]] = At(s, i + 1)
  /\ \A n \in Node : (\A i \in 1 .. Len(s) : s[i] # n) => next[n] = Null

PrevOf(prev, s) ==
  /\ prev \in Links
  /\ \A i \in 1 .. Len(s) : prev[s[i]] = At(s, i - 1)
  /\ \A n \in Node : (\A i \in 1 .. Len(s) : s[i] # n) => prev[n] = Null

Link(field, n, to) == IF n = Null THEN field ELSE [field EXCEPT ![n] = to]

LEMMA AtIs ==
  ASSUME NEW s \in Seq(Node)
  PROVE  /\ Len(s) \in Nat
         /\ \A i \in 1 .. Len(s) : At(s, i) = s[i] /\ s[i] \in Node /\ s[i] # Null
         /\ At(s, 0) = Null /\ At(s, Len(s) + 1) = Null
         /\ \A i : At(s, i) \in Node \cup {Null}
         /\ \A i : At(s, i) # Null => i \in 1 .. Len(s)
<1>1. Len(s) \in Nat /\ \A i \in 1 .. Len(s) : s[i] \in Node
  OBVIOUS
<1>2. \A i \in 1 .. Len(s) : s[i] # Null
  BY <1>1, ListAssumption
<1> QED BY <1>1, <1>2 DEF At

LEMMA LinkIs ==
  ASSUME NEW f \in Links, NEW n \in Node \cup {Null}, NEW to \in Node \cup {Null}
  PROVE  /\ Link(f, n, to) \in Links
         /\ \A x \in Node : Link(f, n, to)[x] = IF x = n THEN to ELSE f[x]
BY ListAssumption DEF Link, Links

\* t with x inserted at `at`
LEMMA InsertedAt ==
  ASSUME NEW s, NEW t, NEW x, NEW at, IsInserted(Node, s, x, t, at)
  PROVE  /\ s \in Seq(Node) /\ t \in Seq(Node) /\ x \in Node
         /\ Len(s) \in Nat /\ Len(t) = Len(s) + 1 /\ at \in 0 .. Len(s)
         /\ \A i \in 0 .. at : At(t, i) = At(s, i)
         /\ At(t, at + 1) = x
         /\ \A i \in at + 2 .. Len(s) + 2 : At(t, i) = At(s, i - 1)
<1> DEFINE n == Len(s)
           l == Len(t)
<1>1. /\ s \in Seq(Node) /\ t \in Seq(Node) /\ x \in Node /\ n \in Nat /\ l = n + 1 /\ at \in 0 .. n
      /\ \A i \in 1 .. at : t[i] = s[i]
      /\ t[at + 1] = x
      /\ \A i \in at + 1 .. n : t[i + 1] = s[i]
  BY DEF IsInserted
<1>2. /\ \A i : At(s, i) = IF i \in 1 .. n THEN s[i] ELSE Null
      /\ \A i : At(t, i) = IF i \in 1 .. l THEN t[i] ELSE Null
  BY DEF At
<1> HIDE DEF n, l
<1>3. ASSUME NEW i \in 0 .. at PROVE At(t, i) = At(s, i)
  <2>1. (i \in 1 .. n <=> i \in 1 .. l) /\ (i \in 1 .. n => i \in 1 .. at)
    BY <1>1
  <2> QED BY <1>1, <1>2, <2>1
<1>4. At(t, at + 1) = x
  <2>1. at + 1 \in 1 .. l
    BY <1>1
  <2> QED BY <1>1, <1>2, <2>1
<1>5. ASSUME NEW i \in at + 2 .. n + 2 PROVE At(t, i) = At(s, i - 1)
  <2> DEFINE j == i - 1
  <2>1. j \in at + 1 .. n + 1 /\ i = j + 1 /\ (i \in 1 .. l <=> j \in 1 .. n) /\ (j \in 1 .. n => j \in at + 1 .. n)
    BY <1>1
  <2> HIDE DEF j
  <2>2. j \in 1 .. n => t[i] = s[j]
    BY <1>1, <2>1
  <2>3. At(t, i) = At(s, j)
    BY <1>2, <2>1, <2>2
  <2> QED BY <2>3 DEF j
<1> QED BY <1>1, <1>3, <1>4, <1>5 DEF n, l

LEMMA InsertedNext ==
  ASSUME NEW s, NEW t, NEW x, NEW at, IsInserted(Node, s, x, t, at), Distinct(s),
         \A i \in 1 .. Len(s) : s[i] # x, NEW f, NextOf(f, s)
  PROVE  NextOf(Link(Link(f, x, At(s, at + 1)), At(s, at), x), t)
<1> DEFINE after == At(s, at + 1)
           before == At(s, at)
           g == Link(Link(f, x, after), before, x)
           n == Len(s)
<1>1. /\ s \in Seq(Node) /\ t \in Seq(Node) /\ x \in Node
      /\ n \in Nat /\ Len(t) = n + 1 /\ at \in 0 .. n
      /\ \A i \in 0 .. at : At(t, i) = At(s, i)
      /\ At(t, at + 1) = x
      /\ \A i \in at + 2 .. n + 2 : At(t, i) = At(s, i - 1)
  BY InsertedAt
<1>2. /\ \A i \in 1 .. n : At(s, i) = s[i] /\ s[i] \in Node /\ s[i] # Null
      /\ \A i \in 1 .. n + 1 : At(t, i) = t[i] /\ t[i] \in Node
      /\ \A i : At(s, i) \in Node \cup {Null}
      /\ \A i : At(s, i) # Null => i \in 1 .. n
  BY <1>1, AtIs
<1>3. /\ f \in Links /\ \A i \in 1 .. n : f[s[i]] = At(s, i + 1)
      /\ \A y \in Node : (\A i \in 1 .. n : s[i] # y) => f[y] = Null
  BY DEF NextOf
<1>4. g \in Links /\ \A y \in Node : g[y] = IF y = before THEN x ELSE IF y = x THEN after ELSE f[y]
  <2>1. after \in Node \cup {Null} /\ before \in Node \cup {Null} /\ x \in Node \cup {Null}
    BY <1>1, <1>2
  <2> HIDE DEF after, before
  <2> DEFINE h == Link(f, x, after)
  <2>2. h \in Links /\ \A y \in Node : h[y] = IF y = x THEN after ELSE f[y]
    <3>1. f \in Links
      BY <1>3
    <3> HIDE DEF h, g, n
    <3>2. x \in Node \cup {Null} /\ after \in Node \cup {Null}
      BY <2>1
    <3>3. Link(f, x, after) \in Links /\ \A y \in Node : Link(f, x, after)[y] = IF y = x THEN after ELSE f[y]
      BY <3>1, <3>2, ListAssumption DEF Link, Links
    <3> QED BY <3>3 DEF h
  <2> HIDE DEF h
  <2>3. Link(h, before, x) \in Links /\ \A y \in Node : Link(h, before, x)[y] = IF y = before THEN x ELSE h[y]
    BY <2>1, <2>2, LinkIs
  <2> QED BY <2>2, <2>3 DEF h
<1> HIDE DEF g, n
<1>5. ASSUME NEW i \in 1 .. n, i # at PROVE g[s[i]] = At(s, i + 1)
  <2>1. s[i] # before
    <3>1. CASE before = Null
      BY <1>2, <3>1
    <3>2. CASE before # Null
      <4>1. at \in 1 .. n /\ before = s[at]
        BY <1>2, <3>2
      <4> QED BY <1>5, <4>1 DEF Distinct, n
    <3> QED BY <3>1, <3>2
  <2>2. s[i] # x /\ s[i] \in Node
    BY <1>2 DEF n
  <2> QED BY <1>3, <1>4, <2>1, <2>2
<1>6. ASSUME NEW i \in 1 .. n + 1 PROVE g[t[i]] = At(t, i + 1)
  <2>1. CASE i < at
    <3>1. i \in 1 .. n /\ i # at /\ i \in 0 .. at /\ i + 1 \in 0 .. at
      BY <1>1, <2>1
    <3>2. t[i] = s[i]
      BY <1>1, <1>2, <3>1
    <3>3. At(t, i + 1) = At(s, i + 1)
      BY <1>1, <3>1
    <3> QED BY <1>5, <3>1, <3>2, <3>3
  <2>2. CASE i = at
    <3>1. at \in 1 .. n /\ at \in 0 .. at
      BY <1>1, <2>2
    <3>2. t[i] = s[at] /\ before = s[at] /\ s[at] \in Node
      BY <1>1, <1>2, <2>2, <3>1
    <3>3. g[t[i]] = x
      BY <1>4, <3>2
    <3> QED BY <1>1, <2>2, <3>3
  <2>3. CASE i = at + 1
    <3>1. t[i] = x /\ x \in Node
      BY <1>1, <1>2, <2>3
    <3>2. x # before
      <4>1. CASE before = Null
        BY <1>1, <4>1, ListAssumption
      <4>2. CASE before # Null
        BY <1>2, <4>2 DEF n
      <4> QED BY <4>1, <4>2
    <3>3. g[t[i]] = after
      BY <1>4, <3>1, <3>2
    <3> DEFINE k == i + 1
    <3>4. k \in at + 2 .. n + 2 /\ k - 1 = at + 1
      BY <1>1, <2>3
    <3> HIDE DEF k
    <3>5. At(t, k) = At(s, at + 1)
      BY <1>1, <3>4
    <3> QED BY <3>3, <3>5 DEF k
  <2>4. CASE i > at + 1
    <3> DEFINE j == i - 1
               k == i + 1
    <3>1. j \in 1 .. n /\ j # at /\ i \in at + 2 .. n + 2 /\ k \in at + 2 .. n + 2 /\ k - 1 = j + 1
      BY <1>1, <2>4
    <3>2. t[i] = At(s, j)
      BY <1>1, <1>2, <3>1
    <3> HIDE DEF j, k
    <3>3. t[i] = s[j]
      BY <1>2, <3>1, <3>2
    <3>4. At(t, k) = At(s, j + 1)
      BY <1>1, <3>1
    <3>5. g[s[j]] = At(s, j + 1)
      BY <1>5, <3>1
    <3> QED BY <3>3, <3>4, <3>5 DEF k
  <2> QED BY <1>1, <2>1, <2>2, <2>3, <2>4
<1>7. ASSUME NEW y \in Node, \A i \in 1 .. n + 1 : t[i] # y PROVE g[y] = Null
  <2>1. y # x
    <3>1. at + 1 \in 1 .. n + 1
      BY <1>1
    <3> QED BY <1>1, <1>2, <1>7, <3>1
  <2>2. ASSUME NEW i \in 1 .. n PROVE s[i] # y
    <3>1. CASE i <= at
      <4>1. i \in 0 .. at /\ i \in 1 .. n + 1
        BY <1>1, <3>1
      <4> QED BY <1>1, <1>2, <1>7, <4>1
    <3>2. CASE i > at
      <4> DEFINE k == i + 1
      <4>1. k \in at + 2 .. n + 2 /\ k \in 1 .. n + 1 /\ k - 1 = i
        BY <1>1, <3>2
      <4> HIDE DEF k
      <4>2. At(t, k) = At(s, i)
        BY <1>1, <4>1
      <4>3. t[k] # y /\ At(t, k) = t[k] /\ At(s, i) = s[i]
        BY <1>2, <1>7, <4>1
      <4> QED BY <4>2, <4>3
    <3> QED BY <1>1, <3>1, <3>2
  <2>3. y # before
    <3>1. CASE before = Null
      BY <3>1, ListAssumption
    <3>2. CASE before # Null
      BY <1>2, <2>2, <3>2
    <3> QED BY <3>1, <3>2
  <2> QED BY <1>3, <1>4, <2>1, <2>2, <2>3
<1>8. NextOf(g, t)
  BY <1>1, <1>4, <1>6, <1>7 DEF NextOf
<1> QED BY <1>8 DEF g

\* t without the item at `at`
LEMMA TakenAt ==
  ASSUME NEW s, NEW t, NEW at, IsTakenOut(Node, s, t, at)
  PROVE  /\ s \in Seq(Node) /\ t \in Seq(Node) /\ at \in Nat
         /\ Len(s) \in Nat /\ at + 1 \in 1 .. Len(s) /\ Len(t) = Len(s) - 1 /\ Len(t) \in Nat
         /\ \A i \in 0 .. at : At(t, i) = At(s, i)
         /\ \A i \in at + 1 .. Len(s) : At(t, i) = At(s, i + 1)
<1> DEFINE n == Len(s)
           l == Len(t)
<1>1. /\ s \in Seq(Node) /\ t \in Seq(Node) /\ n \in Nat /\ l = n - 1 /\ at \in 0 .. n - 1
      /\ \A i \in 1 .. at : t[i] = s[i]
      /\ \A i \in at + 1 .. n - 1 : t[i] = s[i + 1]
  BY DEF IsTakenOut
<1>2. /\ \A i : At(s, i) = IF i \in 1 .. n THEN s[i] ELSE Null
      /\ \A i : At(t, i) = IF i \in 1 .. l THEN t[i] ELSE Null
  BY DEF At
<1> HIDE DEF n, l
<1>3. ASSUME NEW i \in 0 .. at PROVE At(t, i) = At(s, i)
  <2>1. (i \in 1 .. n <=> i \in 1 .. l) /\ (i \in 1 .. n => i \in 1 .. at)
    BY <1>1
  <2> QED BY <1>1, <1>2, <2>1
<1>4. ASSUME NEW i \in at + 1 .. n PROVE At(t, i) = At(s, i + 1)
  <2> DEFINE j == i + 1
  <2>1. (i \in 1 .. l <=> j \in 1 .. n) /\ (i \in 1 .. l => i \in at + 1 .. n - 1)
    BY <1>1
  <2>2. i \in 1 .. l => t[i] = s[j]
    BY <1>1, <2>1
  <2> HIDE DEF j
  <2>3. At(t, i) = At(s, j)
    BY <1>2, <2>1, <2>2
  <2> QED BY <2>3 DEF j
<1>5. at \in Nat /\ at + 1 \in 1 .. n /\ l \in Nat
  BY <1>1
<1> QED BY <1>1, <1>3, <1>4, <1>5 DEF n, l

LEMMA TakenNext ==
  ASSUME NEW s, NEW t, NEW at, IsTakenOut(Node, s, t, at), Distinct(s), NEW f, NextOf(f, s)
  PROVE  NextOf(Link(Link(f, s[at + 1], Null), At(s, at), At(s, at + 2)), t)
<1> DEFINE n == Len(s)
           p == at + 1
           x == s[p]
           before == At(s, at)
           after == At(s, at + 2)
           g == Link(Link(f, x, Null), before, after)
<1>1. /\ s \in Seq(Node) /\ t \in Seq(Node) /\ at \in Nat
      /\ n \in Nat /\ p \in 1 .. n /\ Len(t) = n - 1
      /\ \A i \in 0 .. at : At(t, i) = At(s, i)
      /\ \A i \in p .. n : At(t, i) = At(s, i + 1)
  BY TakenAt
<1>2. /\ \A i \in 1 .. n : At(s, i) = s[i] /\ s[i] \in Node /\ s[i] # Null
      /\ \A i \in 1 .. n - 1 : At(t, i) = t[i] /\ t[i] \in Node
      /\ \A i : At(s, i) \in Node \cup {Null}
      /\ \A i : At(s, i) # Null => i \in 1 .. n
  BY <1>1, AtIs
<1>3. /\ f \in Links /\ \A i \in 1 .. n : f[s[i]] = At(s, i + 1)
      /\ \A y \in Node : (\A i \in 1 .. n : s[i] # y) => f[y] = Null
  BY DEF NextOf
<1>4. \A i, j \in 1 .. n : s[i] = s[j] => i = j
  BY DEF Distinct
<1> HIDE DEF n
<1>5. g \in Links /\ \A y \in Node : g[y] = IF y = before THEN after ELSE IF y = x THEN Null ELSE f[y]
  <2>1. after \in Node \cup {Null} /\ before \in Node \cup {Null} /\ x \in Node
    BY <1>1, <1>2
  <2> HIDE DEF after, before, x
  <2> DEFINE h == Link(f, x, Null)
  <2>2. h \in Links /\ \A y \in Node : h[y] = IF y = x THEN Null ELSE f[y]
    BY <1>3, <2>1, ListAssumption DEF Link, Links
  <2> HIDE DEF h
  <2>3. Link(h, before, after) \in Links /\ \A y \in Node : Link(h, before, after)[y] = IF y = before THEN after ELSE h[y]
    BY <2>1, <2>2, ListAssumption DEF Link, Links
  <2> QED BY <2>2, <2>3 DEF h
<1> HIDE DEF g
<1>6. ASSUME NEW i \in 1 .. n, i # at, i # p PROVE g[s[i]] = At(s, i + 1)
  <2>1. s[i] # before
    <3>1. CASE before = Null
      BY <1>2, <3>1
    <3>2. CASE before # Null
      <4>1. at \in 1 .. n /\ before = s[at]
        BY <1>2, <3>2
      <4> QED BY <1>4, <1>6, <4>1
    <3> QED BY <3>1, <3>2
  <2>2. s[i] # x /\ s[i] \in Node
    BY <1>1, <1>2, <1>4, <1>6
  <2> QED BY <1>3, <1>5, <2>1, <2>2
<1>7. ASSUME NEW i \in 1 .. n - 1 PROVE g[t[i]] = At(t, i + 1)
  <2> DEFINE k == i + 1
  <2>1. CASE i < at
    <3>1. i \in 1 .. n /\ i # at /\ i # p /\ i \in 0 .. at /\ k \in 0 .. at
      BY <1>1, <2>1
    <3> HIDE DEF k
    <3>2. t[i] = s[i]
      BY <1>1, <1>2, <3>1
    <3>3. At(t, k) = At(s, k)
      BY <1>1, <3>1
    <3> QED BY <1>6, <3>1, <3>2, <3>3 DEF k
  <2>2. CASE i = at
    <3>1. at \in 1 .. n /\ at \in 0 .. at
      BY <1>1, <2>2
    <3>2. t[i] = s[at] /\ before = s[at] /\ s[at] \in Node
      BY <1>1, <1>2, <2>2, <3>1
    <3>3. g[t[i]] = after
      BY <1>5, <3>2
    <3>4. k = p /\ p \in p .. n /\ p + 1 = at + 2
      BY <1>1, <2>2
    <3> HIDE DEF k, p
    <3>5. At(t, k) = At(s, p + 1)
      BY <1>1, <3>4
    <3> QED BY <3>3, <3>4, <3>5 DEF k
  <2>3. CASE i > at
    <3>1. i \in p .. n /\ k \in p .. n /\ k \in 1 .. n /\ k # at /\ k # p
      BY <1>1, <2>3
    <3>2. t[i] = At(s, k)
      BY <1>1, <1>2, <3>1
    <3> HIDE DEF k
    <3>3. t[i] = s[k]
      BY <1>2, <3>1, <3>2
    <3>4. At(t, k) = At(s, k + 1)
      BY <1>1, <3>1
    <3>5. g[s[k]] = At(s, k + 1)
      BY <1>6, <3>1
    <3> QED BY <3>3, <3>4, <3>5 DEF k
  <2> QED BY <1>1, <2>1, <2>2, <2>3
<1>8. ASSUME NEW y \in Node, \A i \in 1 .. n - 1 : t[i] # y PROVE g[y] = Null
  <2>1. ASSUME NEW i \in 1 .. n, i # p PROVE s[i] # y
    <3>1. CASE i <= at
      <4>1. i \in 0 .. at /\ i \in 1 .. n - 1
        BY <1>1, <3>1
      <4> QED BY <1>1, <1>2, <1>8, <4>1
    <3>2. CASE i > at
      <4> DEFINE k == i - 1
      <4>1. k \in p .. n /\ k \in 1 .. n - 1 /\ k + 1 = i
        BY <1>1, <2>1, <3>2
      <4> HIDE DEF k
      <4>2. At(t, k) = At(s, i)
        BY <1>1, <4>1
      <4>3. t[k] # y /\ At(t, k) = t[k] /\ At(s, i) = s[i]
        BY <1>2, <1>8, <4>1
      <4> QED BY <4>2, <4>3
    <3> QED BY <1>1, <3>1, <3>2
  <2>2. y # before
    <3>1. CASE before = Null
      BY <3>1, ListAssumption
    <3>2. CASE before # Null
      <4>1. at \in 1 .. n /\ before = s[at] /\ at # p
        BY <1>1, <1>2, <3>2
      <4> QED BY <2>1, <4>1
    <3> QED BY <3>1, <3>2
  <2>3. CASE y = x
    BY <1>5, <2>2, <2>3
  <2>4. CASE y # x
    <3>1. \A i \in 1 .. n : s[i] # y
      BY <2>1, <2>4
    <3> QED BY <1>3, <1>5, <2>2, <2>4, <3>1
  <2> QED BY <2>3, <2>4
<1>9. NextOf(g, t)
  BY <1>1, <1>5, <1>7, <1>8 DEF NextOf
<1> QED BY <1>9 DEF g

\* the other way round
Rev(s) == [i \in 1 .. Len(s) |-> s[Len(s) + 1 - i]]

LEMMA RevIs ==
  ASSUME NEW s \in Seq(Node)
  PROVE  /\ Rev(s) \in Seq(Node) /\ Len(Rev(s)) = Len(s) /\ Len(s) \in Nat
         /\ \A i \in 1 .. Len(s) : Rev(s)[i] = s[Len(s) + 1 - i] /\ Len(s) + 1 - i \in 1 .. Len(s)
         /\ \A i \in Int : At(Rev(s), i) = At(s, Len(s) + 1 - i)
<1> DEFINE n == Len(s)
           r == Rev(s)
<1>1. n \in Nat /\ \A i \in 1 .. n : s[i] \in Node
  OBVIOUS
<1>2. r = [i \in 1 .. n |-> s[n + 1 - i]]
  BY DEF Rev
<1> HIDE DEF n, r
<1>3. \A i \in 1 .. n : n + 1 - i \in 1 .. n
  BY <1>1
<1>4. r \in [1 .. n -> Node]
  BY <1>1, <1>2, <1>3
<1>5. r \in Seq(Node) /\ Len(r) = n /\ \A i \in 1 .. n : r[i] = s[n + 1 - i]
  BY <1>1, <1>2, <1>4
<1>6. ASSUME NEW i \in Int PROVE At(r, i) = At(s, n + 1 - i)
  <2> DEFINE j == n + 1 - i
  <2>1. i \in 1 .. n <=> j \in 1 .. n
    BY <1>1
  <2>2. i \in 1 .. n => r[i] = s[j]
    BY <1>5
  <2> HIDE DEF j
  <2>3. /\ At(s, j) = IF j \in 1 .. n THEN s[j] ELSE Null
        /\ At(r, i) = IF i \in 1 .. n THEN r[i] ELSE Null
    BY <1>5 DEF At, n
  <2>4. At(r, i) = At(s, j)
    BY <2>1, <2>2, <2>3
  <2> QED BY <2>4 DEF j
<1> QED BY <1>1, <1>3, <1>5, <1>6 DEF n, r

LEMMA RevDistinct ==
  ASSUME NEW s \in Seq(Node), Distinct(s)
  PROVE  Distinct(Rev(s))
<1> DEFINE n == Len(s)
           r == Rev(s)
<1>1. n \in Nat /\ Len(r) = n /\ \A i \in 1 .. n : r[i] = s[n + 1 - i] /\ n + 1 - i \in 1 .. n
  BY RevIs
<1>2. \A i, j \in 1 .. n : s[i] = s[j] => i = j
  BY DEF Distinct
<1> HIDE DEF n, r
<1>3. ASSUME NEW i \in 1 .. n, NEW j \in 1 .. n, r[i] = r[j] PROVE i = j
  <2> DEFINE k == n + 1 - i
             m == n + 1 - j
  <2>1. k \in 1 .. n /\ m \in 1 .. n /\ s[k] = s[m]
    BY <1>1, <1>3
  <2>2. k = m => i = j
    BY <1>1
  <2> HIDE DEF k, m
  <2> QED BY <1>2, <2>1, <2>2
<1> QED BY <1>1, <1>3 DEF Distinct, r

\* the links back are those of the list the other way round
LEMMA RevLinks ==
  ASSUME NEW s \in Seq(Node), NEW f
  PROVE  PrevOf(f, s) <=> NextOf(f, Rev(s))
<1> DEFINE n == Len(s)
           r == Rev(s)
<1>1. n \in Nat /\ Len(r) = n /\ (\A i \in 1 .. n : r[i] = s[n + 1 - i] /\ n + 1 - i \in 1 .. n)
      /\ \A i \in Int : At(r, i) = At(s, n + 1 - i)
  BY RevIs
<1> HIDE DEF n, r
<1>2. ASSUME NEW i \in 1 .. n
      PROVE  /\ n + 1 - i \in 1 .. n /\ s[i] = r[n + 1 - i] /\ At(s, i - 1) = At(r, n + 1 - i + 1)
  <2> DEFINE k == n + 1 - i
             m == k + 1
  <2>1. k \in 1 .. n /\ n + 1 - k = i /\ m \in Int /\ n + 1 - m = i - 1
    BY <1>1
  <2> HIDE DEF k, m
  <2>2. r[k] = s[i] /\ At(r, m) = At(s, i - 1)
    BY <1>1, <2>1
  <2> QED BY <2>1, <2>2 DEF k, m
<1>3. ASSUME NEW i \in 1 .. n
      PROVE  At(r, i + 1) = At(s, (n + 1 - i) - 1)
  <2> DEFINE m == i + 1
  <2>1. m \in Int /\ n + 1 - m = (n + 1 - i) - 1
    BY <1>1
  <2> HIDE DEF m
  <2>2. At(r, m) = At(s, n + 1 - m)
    BY <1>1, <2>1
  <2> QED BY <2>1, <2>2 DEF m
<1>4. (\A i \in 1 .. n : f[s[i]] = At(s, i - 1)) <=> (\A i \in 1 .. n : f[r[i]] = At(r, i + 1))
  <2>1. ASSUME \A i \in 1 .. n : f[s[i]] = At(s, i - 1), NEW i \in 1 .. n PROVE f[r[i]] = At(r, i + 1)
    <3> DEFINE k == n + 1 - i
    <3>1. k \in 1 .. n /\ r[i] = s[k] /\ At(r, i + 1) = At(s, k - 1)
      BY <1>1, <1>3
    <3> HIDE DEF k
    <3>2. f[s[k]] = At(s, k - 1)
      BY <2>1, <3>1
    <3> QED BY <3>1, <3>2
  <2>2. ASSUME \A i \in 1 .. n : f[r[i]] = At(r, i + 1), NEW i \in 1 .. n PROVE f[s[i]] = At(s, i - 1)
    <3> DEFINE k == n + 1 - i
    <3>1. k \in 1 .. n /\ s[i] = r[k] /\ At(s, i - 1) = At(r, k + 1)
      BY <1>2
    <3> HIDE DEF k
    <3>2. f[r[k]] = At(r, k + 1)
      BY <2>2, <3>1
    <3> QED BY <3>1, <3>2
  <2> QED BY <2>1, <2>2
<1>5. \A y : (\A i \in 1 .. n : s[i] # y) <=> (\A i \in 1 .. n : r[i] # y)
  <2>1. ASSUME NEW y, \A i \in 1 .. n : s[i] # y, NEW i \in 1 .. n PROVE r[i] # y
    BY <1>1, <2>1
  <2>2. ASSUME NEW y, \A i \in 1 .. n : r[i] # y, NEW i \in 1 .. n PROVE s[i] # y
    BY <1>2, <2>2
  <2> QED BY <2>1, <2>2
<1>6. PrevOf(f, s) <=> /\ f \in Links /\ (\A i \in 1 .. n : f[s[i]] = At(s, i - 1))
                       /\ \A y \in Node : (\A i \in 1 .. n : s[i] # y) => f[y] = Null
  BY DEF PrevOf, n
<1>7. NextOf(f, r) <=> /\ f \in Links /\ (\A i \in 1 .. n : f[r[i]] = At(r, i + 1))
                       /\ \A y \in Node : (\A i \in 1 .. n : r[i] # y) => f[y] = Null
  BY <1>1 DEF NextOf
<1>8. (\A y \in Node : (\A i \in 1 .. n : s[i] # y) => f[y] = Null)
        <=> (\A y \in Node : (\A i \in 1 .. n : r[i] # y) => f[y] = Null)
  BY <1>5
<1>9. PrevOf(f, s) <=> NextOf(f, r)
  BY <1>4, <1>6, <1>7, <1>8
<1> QED BY <1>9 DEF r

LEMMA RevInserted ==
  ASSUME NEW s, NEW t, NEW x, NEW at, IsInserted(Node, s, x, t, at)
  PROVE  IsInserted(Node, Rev(s), x, Rev(t), Len(s) - at)
<1> DEFINE n == Len(s)
           l == Len(t)
           q == n - at
           rs == Rev(s)
           rt == Rev(t)
<1>1. /\ s \in Seq(Node) /\ t \in Seq(Node) /\ x \in Node /\ n \in Nat /\ l = n + 1 /\ at \in 0 .. n
      /\ \A i \in 1 .. at : t[i] = s[i]
      /\ t[at + 1] = x
      /\ \A i \in at + 1 .. n : t[i + 1] = s[i]
  BY DEF IsInserted
<1>2. /\ rs \in Seq(Node) /\ Len(rs) = n /\ \A i \in 1 .. n : rs[i] = s[n + 1 - i]
      /\ rt \in Seq(Node) /\ Len(rt) = l /\ \A i \in 1 .. l : rt[i] = t[l + 1 - i]
  BY <1>1, RevIs
<1> HIDE DEF n, l, rs, rt
<1>3. q \in 0 .. n /\ q + 1 \in 1 .. l /\ l + 1 - (q + 1) = at + 1
  BY <1>1
<1> HIDE DEF q
<1>4. ASSUME NEW i \in 1 .. q PROVE rt[i] = rs[i]
  <2> DEFINE k == n + 1 - i
  <2>1. i \in 1 .. n /\ i \in 1 .. l /\ k \in at + 1 .. n /\ l + 1 - i = k + 1
    BY <1>1 DEF q
  <2> HIDE DEF k
  <2>2. rt[i] = t[k + 1]
    BY <1>2, <2>1
  <2>3. t[k + 1] = s[k]
    BY <1>1, <2>1
  <2>4. rs[i] = s[k]
    BY <1>2, <2>1 DEF k
  <2> QED BY <2>2, <2>3, <2>4
<1>5. rt[q + 1] = x
  <2> DEFINE k == q + 1
  <2>1. k \in 1 .. l /\ l + 1 - k = at + 1
    BY <1>3
  <2> HIDE DEF k
  <2>2. rt[k] = t[at + 1]
    BY <1>2, <2>1
  <2> QED BY <1>1, <2>2 DEF k
<1>6. ASSUME NEW i \in q + 1 .. n PROVE rt[i + 1] = rs[i]
  <2> DEFINE k == n + 1 - i
             j == i + 1
  <2>1. i \in 1 .. n /\ j \in 1 .. l /\ k \in 1 .. at /\ l + 1 - j = k
    BY <1>1 DEF q
  <2> HIDE DEF k, j
  <2>2. rt[j] = t[k]
    BY <1>2, <2>1
  <2>3. rs[i] = s[k]
    BY <1>2, <2>1 DEF k
  <2>4. t[k] = s[k]
    BY <1>1, <2>1
  <2> QED BY <2>2, <2>3, <2>4 DEF j
<1>7. IsInserted(Node, rs, x, rt, q)
  BY <1>1, <1>2, <1>3, <1>4, <1>5, <1>6 DEF IsInserted
<1> QED BY <1>7 DEF q, n, rs, rt

LEMMA RevTaken ==
  ASSUME NEW s, NEW t, NEW at, IsTakenOut(Node, s, t, at)
  PROVE  IsTakenOut(Node, Rev(s), Rev(t), Len(s) - 1 - at)
<1> DEFINE n == Len(s)
           l == Len(t)
           q == n - 1 - at
           rs == Rev(s)
           rt == Rev(t)
<1>1. /\ s \in Seq(Node) /\ t \in Seq(Node) /\ n \in Nat /\ l = n - 1 /\ at \in 0 .. n - 1
      /\ \A i \in 1 .. at : t[i] = s[i]
      /\ \A i \in at + 1 .. n - 1 : t[i] = s[i + 1]
  BY DEF IsTakenOut
<1>2. /\ rs \in Seq(Node) /\ Len(rs) = n /\ \A i \in 1 .. n : rs[i] = s[n + 1 - i]
      /\ rt \in Seq(Node) /\ Len(rt) = l /\ \A i \in 1 .. l : rt[i] = t[l + 1 - i]
  BY <1>1, RevIs
<1> HIDE DEF n, l, rs, rt
<1>3. q \in 0 .. n - 1
  BY <1>1
<1> HIDE DEF q
<1>4. ASSUME NEW i \in 1 .. q PROVE rt[i] = rs[i]
  <2> DEFINE k == n - i
  <2>1. i \in 1 .. n /\ i \in 1 .. l /\ k \in at + 1 .. n - 1 /\ l + 1 - i = k /\ n + 1 - i = k + 1
    BY <1>1 DEF q
  <2> HIDE DEF k
  <2>2. rt[i] = t[k]
    BY <1>2, <2>1
  <2>3. t[k] = s[k + 1]
    BY <1>1, <2>1
  <2>4. rs[i] = s[k + 1]
    BY <1>2, <2>1
  <2> QED BY <2>2, <2>3, <2>4
<1>5. ASSUME NEW i \in q + 1 .. n - 1 PROVE rt[i] = rs[i + 1]
  <2> DEFINE k == n - i
             j == i + 1
  <2>1. i \in 1 .. l /\ j \in 1 .. n /\ k \in 1 .. at /\ l + 1 - i = k /\ n + 1 - j = k
    BY <1>1 DEF q
  <2> HIDE DEF k, j
  <2>2. rt[i] = t[k]
    BY <1>2, <2>1
  <2>3. rs[j] = s[k]
    BY <1>2, <2>1
  <2>4. t[k] = s[k]
    BY <1>1, <2>1
  <2> QED BY <2>2, <2>3, <2>4 DEF j
<1>6. IsTakenOut(Node, rs, rt, q)
  BY <1>1, <1>2, <1>3, <1>4, <1>5 DEF IsTakenOut
<1> QED BY <1>6 DEF q, n, rs, rt

\* t is s with the items behind i up to j and those behind j up to k exchanged
IsSwapped(s, t, i, j, k) ==
  /\ s \in Seq(Node) /\ t \in Seq(Node) /\ Len(t) = Len(s)
  /\ i \in Nat /\ j \in Nat /\ k \in Nat /\ i < j /\ j < k /\ k <= Len(s)
  /\ \A m \in 1 .. i : t[m] = s[m]
  /\ \A m \in i + 1 .. i + (k - j) : t[m] = s[m + (j - i)]
  /\ \A m \in i + (k - j) + 1 .. k : t[m] = s[m - (k - j)]
  /\ \A m \in k + 1 .. Len(s) : t[m] = s[m]

\* where an item of t was, and where one of s is now
LEMMA SwappedPlaces ==
  ASSUME NEW s, NEW t, NEW i, NEW j, NEW k, IsSwapped(s, t, i, j, k)
  PROVE  /\ \A m \in 1 .. Len(s) : \E o \in 1 .. Len(s) : t[m] = s[o]
         /\ \A o \in 1 .. Len(s) : \E m \in 1 .. Len(s) : t[m] = s[o]
<1> DEFINE n == Len(s)
           c == k - j
           b == j - i
<1>1. /\ i \in Nat /\ j \in Nat /\ k \in Nat /\ i < j /\ j < k /\ k <= n /\ n \in Nat /\ c \in Nat /\ b \in Nat
      /\ c = k - j /\ b = j - i
      /\ \A m \in 1 .. i : t[m] = s[m]
      /\ \A m \in i + 1 .. i + c : t[m] = s[m + b]
      /\ \A m \in i + c + 1 .. k : t[m] = s[m - c]
      /\ \A m \in k + 1 .. n : t[m] = s[m]
  BY DEF IsSwapped
<1> HIDE DEF n, c, b
<1>2. ASSUME NEW m \in 1 .. n PROVE \E o \in 1 .. n : t[m] = s[o]
  <2>1. CASE m \in 1 .. i \/ m \in k + 1 .. n
    BY <1>1, <2>1
  <2>2. CASE m \in i + 1 .. i + c
    <3>1. m + b \in 1 .. n
      BY <1>1, <2>2
    <3> QED BY <1>1, <2>2, <3>1
  <2>3. CASE m \in i + c + 1 .. k
    <3>1. m - c \in 1 .. n
      BY <1>1, <2>3
    <3> QED BY <1>1, <2>3, <3>1
  <2>4. m \in 1 .. i \/ m \in i + 1 .. i + c \/ m \in i + c + 1 .. k \/ m \in k + 1 .. n
    BY <1>1
  <2> QED BY <2>1, <2>2, <2>3, <2>4
<1>3. ASSUME NEW o \in 1 .. n PROVE \E m \in 1 .. n : t[m] = s[o]
  <2>1. CASE o \in 1 .. i \/ o \in k + 1 .. n
    BY <1>1, <2>1
  <2>2. CASE o \in i + 1 .. j
    <3> DEFINE m == o + c
    <3>1. m \in 1 .. n /\ m \in i + c + 1 .. k /\ m - c = o
      BY <1>1, <2>2
    <3> HIDE DEF m
    <3>2. t[m] = s[o]
      BY <1>1, <3>1
    <3> QED BY <3>1, <3>2
  <2>3. CASE o \in j + 1 .. k
    <3> DEFINE m == o - b
    <3>1. m \in 1 .. n /\ m \in i + 1 .. i + c /\ m + b = o
      BY <1>1, <2>3
    <3> HIDE DEF m
    <3>2. t[m] = s[o]
      BY <1>1, <3>1
    <3> QED BY <3>1, <3>2
  <2>4. o \in 1 .. i \/ o \in i + 1 .. j \/ o \in j + 1 .. k \/ o \in k + 1 .. n
    BY <1>1
  <2> QED BY <2>1, <2>2, <2>3, <2>4
<1> QED BY <1>2, <1>3 DEF n

\* the links that the exchange changes
Relinked(f, g, s, i, j, k) ==
  /\ f \in Links /\ g \in Links
  /\ i > 0 => g[s[i]] = s[j + 1]
  /\ g[s[k]] = s[i + 1]
  /\ g[s[j]] = At(s, k + 1)
  /\ \A y \in Node : (i > 0 => y # s[i]) /\ y # s[k] /\ y # s[j] => g[y] = f[y]

LEMMA SwappedNext ==
  ASSUME NEW s, NEW t, NEW i, NEW j, NEW k, IsSwapped(s, t, i, j, k), Distinct(s),
         NEW f, NextOf(f, s), NEW g, Relinked(f, g, s, i, j, k)
  PROVE  NextOf(g, t)
<1> DEFINE n == Len(s)
           c == k - j
           b == j - i
<1>1. /\ i \in Nat /\ j \in Nat /\ k \in Nat /\ i < j /\ j < k /\ k <= n /\ n \in Nat /\ c \in Nat /\ b \in Nat
      /\ c = k - j /\ b = j - i /\ Len(t) = n
      /\ s \in Seq(Node) /\ t \in Seq(Node)
      /\ \A m \in 1 .. i : t[m] = s[m]
      /\ \A m \in i + 1 .. i + c : t[m] = s[m + b]
      /\ \A m \in i + c + 1 .. k : t[m] = s[m - c]
      /\ \A m \in k + 1 .. n : t[m] = s[m]
  BY DEF IsSwapped
<1>2. /\ f \in Links /\ \A m \in 1 .. n : f[s[m]] = At(s, m + 1)
      /\ \A y \in Node : (\A m \in 1 .. n : s[m] # y) => f[y] = Null
  BY DEF NextOf
<1>3. \A l, m \in 1 .. n : s[l] = s[m] => l = m
  BY DEF Distinct
<1>4. /\ \A m \in 1 .. n : s[m] \in Node
      /\ \A m : At(s, m) = IF m \in 1 .. n THEN s[m] ELSE Null
      /\ \A m : At(t, m) = IF m \in 1 .. n THEN t[m] ELSE Null
  BY <1>1 DEF At
<1> HIDE DEF n, c, b
<1>5. /\ g \in Links /\ (i > 0 => g[s[i]] = s[j + 1]) /\ g[s[k]] = s[i + 1] /\ g[s[j]] = At(s, k + 1)
  BY DEF Relinked
<1>6. ASSUME NEW m \in 1 .. n, m # i, m # j, m # k PROVE g[s[m]] = At(s, m + 1)
  <2>1. j \in 1 .. n /\ k \in 1 .. n /\ (i > 0 => i \in 1 .. n)
    BY <1>1
  <2>2. s[m] \in Node /\ (i > 0 => s[m] # s[i]) /\ s[m] # s[k] /\ s[m] # s[j]
    BY <1>3, <1>4, <1>6, <2>1
  <2>3. g[s[m]] = f[s[m]]
    BY <2>2 DEF Relinked
  <2> QED BY <1>2, <2>3
<1>7. ASSUME NEW m \in 1 .. n PROVE g[t[m]] = At(t, m + 1)
  <2> DEFINE p == m + 1
  <2>1. CASE m < i
    <3>1. m \in 1 .. i /\ p \in 1 .. i /\ p \in 1 .. n /\ m # i /\ m # j /\ m # k
      BY <1>1, <2>1
    <3> HIDE DEF p
    <3>2. t[m] = s[m] /\ At(t, p) = s[p] /\ At(s, p) = s[p]
      BY <1>1, <1>4, <3>1
    <3>3. g[s[m]] = At(s, p)
      BY <1>6, <3>1 DEF p
    <3> QED BY <3>2, <3>3 DEF p
  <2>2. CASE m = i
    <3>1. i > 0 /\ m \in 1 .. i /\ p \in i + 1 .. i + c /\ p \in 1 .. n /\ p + b = j + 1
      BY <1>1, <2>2
    <3> HIDE DEF p
    <3>2. t[m] = s[i] /\ At(t, p) = t[p]
      BY <1>1, <1>4, <2>2, <3>1
    <3>3. t[p] = s[j + 1]
      BY <1>1, <3>1
    <3> QED BY <1>5, <3>1, <3>2, <3>3 DEF p
  <2>3. CASE m > i /\ m < i + c
    <3> DEFINE o == m + b
    <3>1. m \in i + 1 .. i + c /\ p \in i + 1 .. i + c /\ p \in 1 .. n /\ p + b = o + 1
          /\ o \in 1 .. n /\ o + 1 \in 1 .. n /\ o # i /\ o # j /\ o # k
      BY <1>1, <2>3
    <3> HIDE DEF p
    <3>2. t[m] = s[o]
      BY <1>1, <3>1
    <3> HIDE DEF o
    <3>3. t[p] = s[o + 1]
      BY <1>1, <3>1
    <3>4. At(t, p) = t[p] /\ At(s, o + 1) = s[o + 1]
      BY <1>4, <3>1
    <3>5. g[s[o]] = At(s, o + 1)
      BY <1>6, <3>1
    <3> QED BY <3>2, <3>3, <3>4, <3>5 DEF p
  <2>4. CASE m = i + c
    <3>1. m \in i + 1 .. i + c /\ m + b = k /\ p \in i + c + 1 .. k /\ p \in 1 .. n /\ p - c = i + 1
      BY <1>1, <2>4
    <3> HIDE DEF p
    <3>2. t[m] = s[k]
      BY <1>1, <3>1
    <3>3. At(t, p) = t[p]
      BY <1>4, <3>1
    <3>4. t[p] = s[p - c]
      BY <1>1, <3>1
    <3> QED BY <1>5, <3>1, <3>2, <3>3, <3>4 DEF p
  <2>5. CASE m > i + c /\ m < k
    <3> DEFINE o == m - c
    <3>1. m \in i + c + 1 .. k /\ p \in i + c + 1 .. k /\ p \in 1 .. n /\ p - c = o + 1
          /\ o \in 1 .. n
      BY <1>1, <2>5
    <3>1a. o + 1 \in 1 .. n /\ o # i /\ o # j /\ o # k
      BY <1>1, <2>5
    <3> HIDE DEF p
    <3>2. t[m] = s[o]
      BY <1>1, <3>1
    <3> HIDE DEF o
    <3>3. t[p] = s[o + 1]
      BY <1>1, <3>1
    <3>4. At(t, p) = t[p] /\ At(s, o + 1) = s[o + 1]
      BY <1>4, <3>1, <3>1a
    <3>5. g[s[o]] = At(s, o + 1)
      BY <1>6, <3>1, <3>1a
    <3> QED BY <3>2, <3>3, <3>4, <3>5 DEF p
  <2>6. CASE m = k
    <3>1. m \in i + c + 1 .. k /\ m - c = j /\ (p \in 1 .. n => p \in k + 1 .. n)
      BY <1>1, <2>6
    <3>2. t[m] = s[j]
      BY <1>1, <3>1
    <3> HIDE DEF p
    <3>3. At(t, p) = At(s, p)
      BY <1>1, <1>4, <3>1
    <3> QED BY <1>5, <2>6, <3>2, <3>3 DEF p
  <2>7. CASE m > k
    <3>1. m \in k + 1 .. n /\ (p \in 1 .. n => p \in k + 1 .. n) /\ m # i /\ m # j /\ m # k
      BY <1>1, <2>7
    <3>2. t[m] = s[m] /\ g[s[m]] = At(s, p)
      BY <1>1, <1>6, <3>1
    <3> HIDE DEF p
    <3>3. At(t, p) = At(s, p)
      BY <1>1, <1>4, <3>1
    <3> QED BY <3>2, <3>3 DEF p
  <2>8. m < i \/ m = i \/ (m > i /\ m < i + c) \/ m = i + c \/ (m > i + c /\ m < k) \/ m = k \/ m > k
    <3>1. m \in Int /\ i \in Int /\ k \in Int /\ c \in Int
      BY <1>1
    <3> QED BY <3>1
  <2> HIDE DEF p
  <2> QED BY <2>1, <2>2, <2>3, <2>4, <2>5, <2>6, <2>7, <2>8
<1>8. ASSUME NEW y \in Node, \A m \in 1 .. n : t[m] # y PROVE g[y] = Null
  <2>1. \A o \in 1 .. n : s[o] # y
    <3>1. \A o \in 1 .. n : \E m \in 1 .. n : t[m] = s[o]
      BY SwappedPlaces DEF n
    <3> QED BY <1>8, <3>1
  <2>2. j \in 1 .. n /\ k \in 1 .. n /\ (i > 0 => i \in 1 .. n)
    BY <1>1
  <2>3. (i > 0 => y # s[i]) /\ y # s[k] /\ y # s[j]
    BY <2>1, <2>2
  <2>4. g[y] = f[y]
    BY <2>3 DEF Relinked
  <2> QED BY <1>2, <2>1, <2>4
<1> QED BY <1>1, <1>5, <1>7, <1>8 DEF NextOf

LEMMA RevSwapped ==
  ASSUME NEW s, NEW t, NEW i, NEW j, NEW k, IsSwapped(s, t, i, j, k)
  PROVE  IsSwapped(Rev(s), Rev(t), Len(s) - k, Len(s) - j, Len(s) - i)
<1> DEFINE n == Len(s)
           c == k - j
           b == j - i
           u == n - k
           v == n - j
           w == n - i
           rs == Rev(s)
           rt == Rev(t)
<1>1. /\ i \in Nat /\ j \in Nat /\ k \in Nat /\ i < j /\ j < k /\ k <= n /\ n \in Nat /\ c \in Nat /\ b \in Nat
      /\ c = k - j /\ b = j - i /\ Len(t) = n
      /\ s \in Seq(Node) /\ t \in Seq(Node)
      /\ \A m \in 1 .. i : t[m] = s[m]
      /\ \A m \in i + 1 .. i + c : t[m] = s[m + b]
      /\ \A m \in i + c + 1 .. k : t[m] = s[m - c]
      /\ \A m \in k + 1 .. n : t[m] = s[m]
  BY DEF IsSwapped
<1>2. /\ rs \in Seq(Node) /\ Len(rs) = n /\ \A m \in 1 .. n : rs[m] = s[n + 1 - m]
      /\ rt \in Seq(Node) /\ Len(rt) = n /\ \A m \in 1 .. n : rt[m] = t[n + 1 - m]
  <2>1. rs \in Seq(Node) /\ Len(rs) = n /\ \A m \in 1 .. n : rs[m] = s[n + 1 - m]
    BY <1>1, RevIs
  <2>2. rt \in Seq(Node) /\ Len(rt) = Len(t) /\ \A m \in 1 .. Len(t) : rt[m] = t[Len(t) + 1 - m]
    BY <1>1, RevIs
  <2>3. Len(t) = n
    BY <1>1
  <2> HIDE DEF n, rs, rt
  <2> QED BY <2>1, <2>2, <2>3
<1> HIDE DEF n, c, b, rs, rt
<1>3. /\ u \in Nat /\ v \in Nat /\ w \in Nat /\ u < v /\ v < w /\ w <= n /\ w - v = b /\ v - u = c
  BY <1>1
<1>4. ASSUME NEW m \in 1 .. u PROVE rt[m] = rs[m]
  <2> DEFINE o == n + 1 - m
  <2>1. m \in 1 .. n /\ o \in k + 1 .. n
    BY <1>1
  <2> HIDE DEF o
  <2> QED BY <1>1, <1>2, <2>1 DEF o
<1>5. ASSUME NEW m \in u + 1 .. u + (w - v) PROVE rt[m] = rs[m + (v - u)]
  <2> DEFINE o == n + 1 - m
             q == m + (v - u)
  <2>1. m \in 1 .. n /\ o \in i + c + 1 .. k /\ q \in 1 .. n /\ n + 1 - q = o - c
    <3>1. m \in Int /\ u + 1 <= m /\ m <= u + b
      BY <1>3
    <3>2. m \in 1 .. n /\ o \in i + c + 1 .. k
      BY <1>1, <3>1
    <3>3. q = m + c
      BY <1>3
    <3> HIDE DEF q
    <3> QED BY <1>1, <3>1, <3>2, <3>3
  <2>2. rt[m] = t[o]
    BY <1>2, <2>1
  <2> HIDE DEF o, q
  <2>3. t[o] = s[o - c]
    BY <1>1, <2>1
  <2>4. rs[q] = s[o - c]
    BY <1>2, <2>1
  <2> QED BY <2>2, <2>3, <2>4 DEF q
<1>6. ASSUME NEW m \in u + (w - v) + 1 .. w PROVE rt[m] = rs[m - (w - v)]
  <2> DEFINE o == n + 1 - m
             q == m - (w - v)
  <2>1. m \in 1 .. n /\ o \in i + 1 .. i + c /\ q \in 1 .. n /\ n + 1 - q = o + b
    BY <1>1, <1>3
  <2>2. rt[m] = t[o]
    BY <1>2, <2>1
  <2> HIDE DEF o, q
  <2>3. t[o] = s[o + b]
    BY <1>1, <2>1
  <2>4. rs[q] = s[o + b]
    BY <1>2, <2>1
  <2> QED BY <2>2, <2>3, <2>4 DEF q
<1>7. ASSUME NEW m \in w + 1 .. n PROVE rt[m] = rs[m]
  <2> DEFINE o == n + 1 - m
  <2>1. m \in 1 .. n /\ o \in 1 .. i
    BY <1>1
  <2>2. rt[m] = t[o] /\ rs[m] = s[o]
    BY <1>2, <2>1
  <2> HIDE DEF o
  <2> QED BY <1>1, <2>1, <2>2
<1> HIDE DEF u, v, w
<1>8. IsSwapped(rs, rt, u, v, w)
  BY <1>2, <1>3, <1>4, <1>5, <1>6, <1>7 DEF IsSwapped
<1> QED BY <1>8 DEF u, v, w, n, rs, rt

\* a list without repetition stays one
LEMMA InsertedDistinct ==
  ASSUME NEW s, NEW t, NEW x, NEW at, IsInserted(Node, s, x, t, at), Distinct(s),
         \A i \in 1 .. Len(s) : s[i] # x
  PROVE  Distinct(t)
<1> DEFINE n == Len(s)
           l == Len(t)
<1>1. /\ n \in Nat /\ l = n + 1 /\ at \in 0 .. n
      /\ \A i \in 1 .. at : t[i] = s[i]
      /\ t[at + 1] = x
      /\ \A i \in at + 1 .. n : t[i + 1] = s[i]
  BY DEF IsInserted
<1>2. \A i, j \in 1 .. n : s[i] = s[j] => i = j
  BY DEF Distinct
<1>3. \A i \in 1 .. n : s[i] # x
  OBVIOUS
<1> HIDE DEF n, l
<1>4. ASSUME NEW i \in 1 .. l
      PROVE  \/ i <= at /\ i \in 1 .. n /\ t[i] = s[i]
             \/ i = at + 1 /\ t[i] = x
             \/ i > at + 1 /\ i - 1 \in 1 .. n /\ t[i] = s[i - 1]
  <2>1. CASE i <= at
    BY <1>1, <2>1
  <2>2. CASE i = at + 1
    BY <1>1, <2>2
  <2>3. CASE i > at + 1
    <3> DEFINE k == i - 1
    <3>1. k \in 1 .. n /\ k \in at + 1 .. n /\ k + 1 = i
      BY <1>1, <2>3
    <3> HIDE DEF k
    <3>2. t[i] = s[k]
      BY <1>1, <3>1
    <3> QED BY <2>3, <3>1, <3>2 DEF k
  <2> QED BY <1>1, <2>1, <2>2, <2>3
<1>5. ASSUME NEW i \in 1 .. l, NEW j \in 1 .. l, t[i] = t[j] PROVE i = j
  <2> DEFINE p == i - 1
             q == j - 1
  <2>1. (p = q => i = j) /\ i \in Int /\ j \in Int /\ at \in Int
    BY <1>1
  <2>2. \/ i <= at /\ i \in 1 .. n /\ t[i] = s[i]
        \/ i = at + 1 /\ t[i] = x
        \/ i > at + 1 /\ p \in 1 .. n /\ t[i] = s[p]
    BY <1>4
  <2>3. \/ j <= at /\ j \in 1 .. n /\ t[j] = s[j]
        \/ j = at + 1 /\ t[j] = x
        \/ j > at + 1 /\ q \in 1 .. n /\ t[j] = s[q]
    BY <1>4
  <2>4. (i <= at /\ j > at + 1 => i # q) /\ (j <= at /\ i > at + 1 => j # p)
    BY <2>1
  <2> HIDE DEF p, q
  <2> QED BY <1>2, <1>3, <1>5, <2>1, <2>2, <2>3, <2>4
<1> QED BY <1>5 DEF Distinct, l

LEMMA TakenDistinct ==
  ASSUME NEW s, NEW t, NEW at, IsTakenOut(Node, s, t, at), Distinct(s)
  PROVE  Distinct(t)
<1> DEFINE n == Len(s)
           l == Len(t)
<1>1. /\ n \in Nat /\ l = n - 1 /\ at \in 0 .. n - 1
      /\ \A i \in 1 .. at : t[i] = s[i]
      /\ \A i \in at + 1 .. n - 1 : t[i] = s[i + 1]
  BY DEF IsTakenOut
<1>2. \A i, j \in 1 .. n : s[i] = s[j] => i = j
  BY DEF Distinct
<1> HIDE DEF n, l
<1>3. ASSUME NEW i \in 1 .. l
      PROVE  \/ i <= at /\ i \in 1 .. n /\ t[i] = s[i]
             \/ i > at /\ i + 1 \in 1 .. n /\ t[i] = s[i + 1]
  BY <1>1
<1>4. ASSUME NEW i \in 1 .. l, NEW j \in 1 .. l, t[i] = t[j] PROVE i = j
  <2> DEFINE p == i + 1
             q == j + 1
  <2>1. (p = q => i = j) /\ (i <= at /\ j > at => i # q) /\ (j <= at /\ i > at => j # p)
    BY <1>1
  <2>2. \/ i <= at /\ i \in 1 .. n /\ t[i] = s[i]
        \/ i > at /\ p \in 1 .. n /\ t[i] = s[p]
    BY <1>3
  <2>3. \/ j <= at /\ j \in 1 .. n /\ t[j] = s[j]
        \/ j > at /\ q \in 1 .. n /\ t[j] = s[q]
    BY <1>3
  <2> HIDE DEF p, q
  <2> QED BY <1>2, <1>4, <2>1, <2>2, <2>3
<1> QED BY <1>4 DEF Distinct, l

LEMMA SwappedDistinct ==
  ASSUME NEW s, NEW t, NEW i, NEW j, NEW k, IsSwapped(s, t, i, j, k), Distinct(s)
  PROVE  Distinct(t)
<1> DEFINE n == Len(s)
           c == k - j
           b == j - i
           From(m) == IF m <= i THEN m ELSE IF m <= i + c THEN m + b ELSE IF m <= k THEN m - c ELSE m
<1>1. /\ i \in Nat /\ j \in Nat /\ k \in Nat /\ i < j /\ j < k /\ k <= n /\ n \in Nat /\ c \in Nat /\ b \in Nat
      /\ c = k - j /\ b = j - i /\ Len(t) = n
      /\ \A m \in 1 .. i : t[m] = s[m]
      /\ \A m \in i + 1 .. i + c : t[m] = s[m + b]
      /\ \A m \in i + c + 1 .. k : t[m] = s[m - c]
      /\ \A m \in k + 1 .. n : t[m] = s[m]
  BY DEF IsSwapped
<1>2. \A l, m \in 1 .. n : s[l] = s[m] => l = m
  BY DEF Distinct
<1> HIDE DEF n, c, b
<1>3. ASSUME NEW m \in 1 .. n PROVE From(m) \in 1 .. n /\ t[m] = s[From(m)]
  <2>1. CASE m <= i
    BY <1>1, <2>1
  <2>2. CASE m > i /\ m <= i + c
    <3>1. m \in i + 1 .. i + c /\ m + b \in 1 .. n /\ From(m) = m + b
      BY <1>1, <2>2
    <3> QED BY <1>1, <3>1
  <2>3. CASE m > i + c /\ m <= k
    <3>1. m \in i + c + 1 .. k /\ m - c \in 1 .. n /\ From(m) = m - c
      BY <1>1, <2>3
    <3> QED BY <1>1, <3>1
  <2>4. CASE m > k
    <3>1. m \in k + 1 .. n /\ From(m) = m
      BY <1>1, <2>4
    <3> QED BY <1>1, <3>1
  <2>5. m \in Int /\ i \in Int /\ c \in Int /\ k \in Int
    BY <1>1
  <2>6. m <= i \/ (m > i /\ m <= i + c) \/ (m > i + c /\ m <= k) \/ m > k
    BY <2>5
  <2> HIDE DEF From
  <2> QED BY <2>1, <2>2, <2>3, <2>4, <2>6
<1>4. ASSUME NEW l \in 1 .. n, NEW m \in 1 .. n, From(l) = From(m) PROVE l = m
  <2>1. l \in Int /\ m \in Int /\ i \in Int /\ j \in Int /\ k \in Int /\ n \in Int /\ c = k - j /\ b = j - i /\ i < j /\ j < k
    BY <1>1
  <2> QED BY <1>4, <2>1
<1> HIDE DEF From
<1>5. ASSUME NEW l \in 1 .. n, NEW m \in 1 .. n, t[l] = t[m] PROVE l = m
  BY <1>2, <1>3, <1>4, <1>5
<1> QED BY <1>1, <1>5 DEF Distinct

LEMMA SameCount ==
  ASSUME NEW d, NEW S
  PROVE  Lists(d)!Cardinality(S) = Cardinality(S)
BY DEF Lists!Cardinality, Cardinality

\* the items of s from the i-th on
Rest(s, i) == {s[m] : m \in i .. Len(s)}

\* A loop over `next` from an item of the list passes all behind it.
LEMMA PassedIs ==
  ASSUME NEW d, NEW s \in Seq(Node), Distinct(s), NEW c, NextOf(c.next, s), NEW i \in 1 .. Len(s)
  PROVE  Lists(d)!Passed(c, s[i]) = Rest(s, i)
<1> DEFINE n == Len(s)
           f == c.next
           D == SUBSET Node
           Ends(x) == {y \in Node : y \in x /\ f[y] \in Node \ x}
           Stop == {x \in D : Ends(x) = {}}
           out == [x \in D |-> x]
           next == [x \in D |-> x \cup {f[y] : y \in Ends(x)}]
           M == Cardinality(Node)
           m == [x \in D |-> Cardinality(Node \ x)]
           Walk(w) == w = [x \in D |-> IF Ends(x) = {} THEN x ELSE w[x \cup {f[y] : y \in Ends(x)}]]
           g == CHOOSE w : Walk(w)
           listed == FALSE
<1>1. n \in Nat /\ (\A k \in 1 .. n : s[k] \in Node /\ f[s[k]] = At(s, k + 1))
      /\ \A k, l \in 1 .. n : s[k] = s[l] => k = l
  BY DEF NextOf, Distinct
<1>2. Descends(D, Stop, next, m, M)
  <2>1. M \in Nat /\ \A x \in D : IsFiniteSet(Node \ x) /\ Cardinality(Node \ x) \in Nat /\ Cardinality(Node \ x) <= M
    <3>1. M \in Nat
      BY ListAssumption, FS_CardinalityType
    <3>2. ASSUME NEW x \in D
          PROVE  IsFiniteSet(Node \ x) /\ Cardinality(Node \ x) \in Nat /\ Cardinality(Node \ x) <= M
      <4>1. Node \ x \in SUBSET Node
        OBVIOUS
      <4> QED BY <4>1, ListAssumption, FS_Subset, FS_CardinalityType
    <3> QED BY <3>1, <3>2
  <2>2. m \in [D -> 0 .. M]
    <3>1. ASSUME NEW x \in D PROVE Cardinality(Node \ x) \in 0 .. M
      <4> DEFINE k == Cardinality(Node \ x)
      <4>1. k \in Nat /\ M \in Nat /\ k <= M
        BY <2>1
      <4> HIDE DEF k, M
      <4> QED BY <4>1 DEF k
    <3> HIDE DEF M, D
    <3> QED BY <3>1
  <2>3. ASSUME NEW x \in D \ Stop PROVE next[x] \in D /\ m[next[x]] < m[x]
    <3> DEFINE y == x \cup {f[z] : z \in Ends(x)}
    <3>1. next[x] = y /\ y \in D
      OBVIOUS
    <3>2. PICK z \in Ends(x) : TRUE
      OBVIOUS
    <3>3. Node \ y \in SUBSET (Node \ x) /\ Node \ y # Node \ x
      BY <3>2
    <3> HIDE DEF y
    <3>4. Cardinality(Node \ y) <= Cardinality(Node \ x) /\ Cardinality(Node \ y) # Cardinality(Node \ x)
      BY <2>1, <3>3, FS_Subset
    <3>5. Cardinality(Node \ y) \in Nat /\ Cardinality(Node \ x) \in Nat
      BY <2>1, <3>1
    <3>6. Cardinality(Node \ y) < Cardinality(Node \ x)
      BY <3>4, <3>5
    <3>7. m[y] = Cardinality(Node \ y) /\ m[x] = Cardinality(Node \ x)
      BY <3>1
    <3> QED BY <3>1, <3>6, <3>7
  <2> HIDE DEF m, next, M, Stop, D
  <2> QED BY <2>1, <2>2, <2>3 DEF Descends
<1>3. \A w : IsWalk(D, Stop, out, next, listed, out, w) <=> Walk(w)
  <2> TAKE w
  <2>1. \A x \in D : (IF x \in Stop THEN out[x] ELSE Passing(listed, out, x, w[next[x]]))
                       = IF Ends(x) = {} THEN x ELSE w[x \cup {f[y] : y \in Ends(x)}]
    BY DEF Passing
  <2> HIDE DEF Ends, Stop, out, next
  <2> QED BY <2>1 DEF IsWalk
<1>4. Walk(g)
  <2> HIDE DEF D, Stop, out, next, m, M, Walk
  <2>1. \E w : Walk(w)
    BY <1>2, <1>3, WalkExists
  <2> QED BY <2>1
<1>5. IsWalk(D, Stop, out, next, listed, out, g)
  <2> HIDE DEF D, Stop, out, next, m, M, Walk, g
  <2> QED BY <1>3, <1>4
<1>6. s[i] # Null /\ s[i] \in Node
  BY AtIs
<1>7. Lists(d)!Passed(c, s[i]) = g[{s[i]}]
  BY <1>6 DEF Lists!Passed
<1> HIDE DEF g
<1> DEFINE Part(k) == {s[l] : l \in i .. k}
           P == {p \in D \X D : (\E k \in i .. n : p[1] = Part(k)) => p[2] = Rest(s, i)}
<1>8. ASSUME NEW k \in i .. n
      PROVE  /\ Part(k) \in D
             /\ k = n => Ends(Part(k)) = {}
             /\ k # n => Ends(Part(k)) = {s[k]} /\ next[Part(k)] = Part(k + 1) /\ k + 1 \in i .. n
  <2>1. \A l \in i .. k : l \in 1 .. n
    BY <1>1
  <2>2. Part(k) \in D
    BY <1>1, <2>1
  <2>3. ASSUME NEW l \in i .. k, l # k PROVE f[s[l]] \in Part(k)
    <3> DEFINE q == l + 1
    <3>1. q \in i .. k /\ q \in 1 .. n
      BY <1>1, <2>3
    <3> HIDE DEF q
    <3>2. f[s[l]] = s[q]
      BY <1>1, <2>1, <3>1 DEF At, q
    <3> QED BY <3>1, <3>2
  <2>4. CASE k = n
    <3>1. f[s[k]] = Null
      <4>1. k \in 1 .. n /\ k + 1 \notin 1 .. n
        BY <1>1, <2>4
      <4> QED BY <1>1, <4>1 DEF At
    <3>2. Ends(Part(k)) = {}
      BY <2>3, <3>1, ListAssumption
    <3> QED BY <2>2, <2>4, <3>2
  <2>5. CASE k # n
    <3> DEFINE q == k + 1
    <3>1. k \in 1 .. n /\ q \in 1 .. n /\ q \in i .. n /\ q \notin i .. k
      BY <1>1, <2>5
    <3>2. f[s[k]] = At(s, q)
      BY <1>1, <3>1
    <3>3. \A l : l \in i .. q <=> l \in i .. k \/ l = q
      BY <1>1, <3>1
    <3> HIDE DEF q
    <3>4. f[s[k]] = s[q] /\ s[q] \in Node
      BY <1>1, <3>1, <3>2 DEF At
    <3>5. s[q] \notin Part(k)
      BY <1>1, <2>1, <3>1
    <3>6. s[k] \in Part(k) /\ s[k] \in Node
      <4>1. k \in i .. k
        BY <1>1
      <4> QED BY <1>1, <3>1, <4>1
    <3>7. Ends(Part(k)) = {s[k]}
      BY <2>3, <3>4, <3>5, <3>6
    <3>8. Part(q) = Part(k) \cup {s[q]}
      BY <3>3
    <3>9. next[Part(k)] = Part(k) \cup {f[y] : y \in Ends(Part(k))}
      BY <2>2
    <3>10. next[Part(k)] = Part(q)
      <4> HIDE DEF Part, Ends
      <4> QED BY <3>4, <3>7, <3>8, <3>9
    <3> QED BY <2>2, <2>5, <3>1, <3>7, <3>10 DEF q
  <2> QED BY <2>4, <2>5
<1>9. Rest(s, i) = Part(n) /\ {s[i]} = Part(i) /\ i \in i .. n /\ n \in i .. n
  <2>1. i .. i = {i} /\ i \in i .. n /\ n \in i .. n
    BY <1>1
  <2> QED BY <2>1 DEF Rest
<1>10. \A x \in D \cap Stop : <<x, out[x]>> \in P
  <2> SUFFICES ASSUME NEW x \in D, Ends(x) = {}, NEW k \in i .. n, x = Part(k) PROVE x = Rest(s, i)
    OBVIOUS
  <2>1. k = n
    <3> HIDE DEF Part, Ends, next, D
    <3>1. k # n => Ends(x) = {s[k]}
      BY <1>8
    <3> QED BY <3>1
  <2> HIDE DEF Part
  <2> QED BY <1>9, <2>1
<1>11. \A x \in D \ Stop : \A v : <<next[x], v>> \in P => <<x, Passing(listed, out, x, v)>> \in P
  <2> SUFFICES ASSUME NEW x \in D, Ends(x) # {}, NEW v, <<next[x], v>> \in P PROVE <<x, v>> \in P
    BY DEF Passing
  <2>1. v \in D
    OBVIOUS
  <2>2. ASSUME NEW k \in i .. n, x = Part(k) PROVE v = Rest(s, i)
    <3> HIDE DEF Part, Ends, next, D
    <3>1. k # n
      BY <1>8, <2>2
    <3>2. next[x] = Part(k + 1) /\ k + 1 \in i .. n
      BY <1>8, <2>2, <3>1
    <3> QED BY <3>2
  <2> HIDE DEF Part, Ends, next
  <2> QED BY <2>1, <2>2
<1>12. <<{s[i]}, g[{s[i]}]>> \in P
  <2>1. {s[i]} \in D
    BY <1>6
  <2> HIDE DEF D, Stop, out, next, m, M, P, listed
  <2>2. StepsKeep(D, Stop, out, next, listed, out, P)
    BY <1>10, <1>11 DEF StepsKeep
  <2> QED BY <1>2, <1>5, <2>1, <2>2, WalkKeeps
<1>13. g[{s[i]}] = Rest(s, i)
  <2> HIDE DEF Part, D
  <2> QED BY <1>9, <1>12
<1> QED BY <1>7, <1>13

\* what a walk from the i-th item on lists
LEMMA BehindIs ==
  ASSUME NEW S, NEW s \in Seq(S)
  PROVE  /\ \A i \in 1 .. Len(s) : <<s[i]>> \o SubSeq(s, i + 1, Len(s)) = SubSeq(s, i, Len(s))
         /\ SubSeq(s, Len(s) + 1, Len(s)) = <<>>
         /\ SubSeq(s, 1, Len(s)) = s
<1> DEFINE n == Len(s)
<1>1. n \in Nat /\ \A i \in 1 .. n : s[i] \in S
  OBVIOUS
<1>2. ASSUME NEW p \in 0 .. n
      PROVE  /\ SubSeq(s, p + 1, n) \in Seq(S) /\ Len(SubSeq(s, p + 1, n)) = n - p
             /\ \A i \in 1 .. n - p : SubSeq(s, p + 1, n)[i] = s[p + i]
  <2> DEFINE l == n - p
  <2>1. p \in Nat /\ l \in Nat /\ p + l = n
    BY <1>1
  <2>2. n = Len(s)
    OBVIOUS
  <2> HIDE DEF n, l
  <2>3. p + l <= Len(s)
    BY <1>1, <2>1, <2>2
  <2>4. /\ SubSeq(s, p + 1, p + l) \in Seq(S) /\ Len(SubSeq(s, p + 1, p + l)) = l
        /\ \A i \in 1 .. l : SubSeq(s, p + 1, p + l)[i] = s[p + i]
    BY <2>1, <2>3, PartIs
  <2>5. SubSeq(s, p + 1, p + l) = SubSeq(s, p + 1, n)
    BY <2>1
  <2> QED BY <2>4, <2>5 DEF l
<1> HIDE DEF n
<1>3. ASSUME NEW i \in 1 .. n PROVE <<s[i]>> \o SubSeq(s, i + 1, n) = SubSeq(s, i, n)
  <2> DEFINE p == i - 1
             u == <<s[i]>>
             v == SubSeq(s, i + 1, n)
             w == SubSeq(s, p + 1, n)
             l == n - i
  <2>1. p \in 0 .. n /\ i \in 0 .. n /\ p + 1 = i /\ n - p = l + 1 /\ l \in Nat
    BY <1>1
  <2>2. v \in Seq(S) /\ Len(v) = l /\ \A k \in 1 .. l : v[k] = s[i + k]
    BY <1>2, <2>1
  <2>3. w \in Seq(S) /\ Len(w) = l + 1 /\ \A k \in 1 .. l + 1 : w[k] = s[p + k]
    BY <1>2, <2>1
  <2>4. u \in Seq(S) /\ Len(u) = 1 /\ u[1] = s[i]
    BY <1>1
  <2>5. w = SubSeq(s, i, n)
    BY <2>1
  <2> HIDE DEF p, u, v, w, l
  <2>6. Len(w) = Len(u) + Len(v)
    BY <2>1, <2>2, <2>3, <2>4
  <2>7. \A k \in 1 .. Len(u) : w[k] = u[k]
    <3>1. 1 \in 1 .. l + 1
      BY <2>1
    <3>2. w[1] = s[i]
      BY <2>1, <2>3, <3>1
    <3> QED BY <2>4, <3>2
  <2>8. ASSUME NEW k \in 1 .. Len(v) PROVE w[Len(u) + k] = v[k]
    <3> DEFINE q == Len(u) + k
    <3>1. k \in 1 .. l /\ q \in 1 .. l + 1 /\ p + q = i + k
      BY <2>1, <2>2, <2>4
    <3> HIDE DEF q
    <3>2. w[q] = s[p + q]
      BY <2>3, <3>1
    <3> QED BY <2>2, <3>1, <3>2 DEF q
  <2>9. w = u \o v
    BY <2>2, <2>3, <2>4, <2>6, <2>7, <2>8, ConcatIs
  <2> QED BY <2>5, <2>9 DEF u, v
<1>4. SubSeq(s, n + 1, n) = <<>>
  <2>1. n \in 0 .. n
    BY <1>1
  <2>2. SubSeq(s, n + 1, n) \in Seq(S) /\ Len(SubSeq(s, n + 1, n)) = n - n
    BY <1>2, <2>1
  <2> QED BY <1>1, <2>2
<1>5. SubSeq(s, 1, n) = s
  <2> DEFINE w == SubSeq(s, 0 + 1, n)
  <2>1. 0 \in 0 .. n
    BY <1>1
  <2>2. w \in Seq(S) /\ Len(w) = n - 0 /\ \A k \in 1 .. n - 0 : w[k] = s[0 + k]
    BY <1>2, <2>1
  <2>3. w = SubSeq(s, 1, n)
    OBVIOUS
  <2> HIDE DEF w
  <2>4. Len(w) = Len(s) /\ \A k \in 1 .. Len(w) : w[k] = s[k]
    BY <1>1, <2>2 DEF n
  <2>5. w = s
    BY <2>2, <2>4, SameItems
  <2> QED BY <2>3, <2>5
<1> QED BY <1>3, <1>4, <1>5 DEF n

LEMMA AtMostNodes ==
  ASSUME NEW s \in Seq(Node), Distinct(s)
  PROVE  Len(s) <= Cardinality(Node) /\ Cardinality(Node) \in Nat
<1> DEFINE n == Len(s)
           S == 1 .. n
           K == Cardinality(Node)
<1>1. n \in Nat /\ s \in [S -> Node] /\ \A i, j \in S : s[i] = s[j] => i = j
  BY DEF Distinct
<1>2. K \in Nat /\ IsFiniteSet(Node)
  BY ListAssumption, FS_CardinalityType
<1>3. IsFiniteSet(S) /\ Cardinality(S) = n
  <2> HIDE DEF n
  <2>1. IsFiniteSet(1 .. n) /\ Cardinality(1 .. n) = IF 1 > n THEN 0 ELSE n - 1 + 1
    BY <1>1, FS_Interval
  <2> QED BY <1>1, <2>1
<1> HIDE DEF n, S, K
<1>4. ASSUME K < n PROVE FALSE
  <2>1. Cardinality(Node) < Cardinality(S)
    BY <1>3, <1>4 DEF K
  <2>2. \E x, y \in S : x # y /\ s[x] = s[y]
    BY <1>1, <1>2, <1>3, <2>1, FS_PigeonHole
  <2> QED BY <1>1, <2>2
<1>5. n <= K
  BY <1>1, <1>2, <1>4
<1> QED BY <1>2, <1>5 DEF n, K

\* A walk along `next` meets the items of the list in order.
LEMMA OrderIs ==
  ASSUME NEW d, NEW s \in Seq(Node), Distinct(s), NEW c, NextOf(c.next, s), c.first = At(s, 1)
  PROVE  Lists(d)!Order(c) = s
<1> DEFINE n == Len(s)
           f == c.next
           K == Cardinality(Node)
           D == (Node \cup {Null}) \X (0 .. K)
           Stop == {x \in D : x[1] = Null \/ x[2] = 0}
           out == [x \in D |-> <<>>]
           item == [x \in D |-> x[1]]
           next == [x \in D |-> <<f[x[1]], x[2] - 1>>]
           m == [x \in D |-> x[2]]
           Walk(w) == w = [x \in D |-> IF x[1] = Null \/ x[2] = 0 THEN <<>>
                                       ELSE <<x[1]>> \o w[<<f[x[1]], x[2] - 1>>]]
           g == CHOOSE w : Walk(w)
           listed == TRUE
<1>1. n \in Nat /\ (\A k \in 1 .. n : s[k] \in Node /\ f[s[k]] = At(s, k + 1)) /\ f \in Links
  BY DEF NextOf
<1>2. n <= K /\ K \in Nat
  BY AtMostNodes
<1> HIDE DEF K
<1>3. Descends(D, Stop, next, m, K)
  <2>1. m \in [D -> 0 .. K]
    OBVIOUS
  <2>2. ASSUME NEW x \in D \ Stop PROVE next[x] \in D /\ m[next[x]] < m[x]
    <3>1. x[1] \in Node /\ x[2] \in 0 .. K /\ x[2] # 0 /\ x \in D
      OBVIOUS
    <3> DEFINE k == x[2]
               y == <<f[x[1]], k - 1>>
    <3>2. f[x[1]] \in Node \cup {Null}
      BY <1>1, <3>1 DEF Links
    <3>3. k - 1 \in 0 .. K /\ k - 1 < k
      BY <1>2, <3>1
    <3>4. y \in D /\ y[2] = k - 1
      BY <3>2, <3>3
    <3>5. next[x] = y /\ m[x] = k
      BY <3>1
    <3> HIDE DEF y
    <3>6. m[y] = k - 1
      BY <3>4
    <3> QED BY <3>3, <3>4, <3>5, <3>6
  <2> HIDE DEF m, next, Stop, D
  <2> QED BY <1>2, <2>1, <2>2 DEF Descends
<1>4. \A w : IsWalk(D, Stop, out, next, listed, item, w) <=> Walk(w)
  <2> TAKE w
  <2>1. \A x \in D : (IF x \in Stop THEN out[x] ELSE Passing(listed, item, x, w[next[x]]))
                       = IF x[1] = Null \/ x[2] = 0 THEN <<>> ELSE <<x[1]>> \o w[<<f[x[1]], x[2] - 1>>]
    BY DEF Passing
  <2> HIDE DEF Stop, out, next, item, listed, D
  <2> QED BY <2>1 DEF IsWalk
<1>5. IsWalk(D, Stop, out, next, listed, item, g)
  <2> HIDE DEF D, Stop, out, next, m, item, listed
  <2>1. \E w : Walk(w)
    <3> HIDE DEF Walk
    <3> QED BY <1>3, <1>4, WalkExists
  <2>2. Walk(g)
    <3> HIDE DEF Walk
    <3> QED BY <2>1
  <2> HIDE DEF Walk, g
  <2> QED BY <1>4, <2>2
<1>6. Lists(d)!Order(c) = g[<<c.first, K>>]
  BY SameCount DEF Lists!Order, K
<1> HIDE DEF g
<1> DEFINE V == Seq(Node)
           P == {p \in D \X V : \A k \in 1 .. n + 1 :
                    p[1][1] = At(s, k) /\ p[1][2] >= n + 1 - k => p[2] = SubSeq(s, k, n)}
<1>7. ASSUME NEW x \in D, NEW v \in V
      PROVE  <<x, v>> \in P <=> \A k \in 1 .. n + 1 : x[1] = At(s, k) /\ x[2] >= n + 1 - k => v = SubSeq(s, k, n)
  <2> HIDE DEF D, V
  <2> QED OBVIOUS
<1>8. \A x \in D \cap Stop : <<x, out[x]>> \in P
  <2> SUFFICES ASSUME NEW x \in D, x[1] = Null \/ x[2] = 0,
                      NEW k \in 1 .. n + 1, x[1] = At(s, k), x[2] >= n + 1 - k
               PROVE  SubSeq(s, k, n) = <<>>
    <3>1. \A x \in D : out[x] = <<>> /\ out[x] \in V
      OBVIOUS
    <3> HIDE DEF P, D, V, out
    <3> QED BY <1>7, <3>1, Zenon
  <2>1. k = n + 1
    <3>1. CASE x[1] = Null
      <4>1. At(s, k) = Null
        BY <3>1
      <4>2. k \in 1 .. n => At(s, k) # Null
        BY AtIs
      <4> QED BY <1>1, <4>1, <4>2
    <3>2. CASE x[2] = 0
      BY <1>1, <3>2
    <3> QED BY <3>1, <3>2
  <2> QED BY <2>1, BehindIs
<1>9. \A x \in D \ Stop : \A v : <<next[x], v>> \in P => <<x, Passing(listed, item, x, v)>> \in P
  <2> SUFFICES ASSUME NEW x \in D, x[1] # Null, x[2] # 0, NEW v, <<next[x], v>> \in P
               PROVE  <<x, <<x[1]>> \o v>> \in P
    BY DEF Passing
  <2> DEFINE y == <<f[x[1]], x[2] - 1>>
             u == <<x[1]>>
  <2>1. next[x] = y /\ y[1] = f[x[1]] /\ y[2] = x[2] - 1 /\ x[1] \in Node /\ x[2] \in Nat
    OBVIOUS
  <2>2. y \in D /\ v \in V
    BY <2>1
  <2>3. u \in Seq(Node) /\ u \o v \in V
    BY <2>1, <2>2
  <2>4. \A k \in 1 .. n + 1 : y[1] = At(s, k) /\ y[2] >= n + 1 - k => v = SubSeq(s, k, n)
    BY <1>7, <2>1, <2>2
  <2> HIDE DEF y, next, P, D, V
  <2>5. ASSUME NEW k \in 1 .. n + 1, x[1] = At(s, k), x[2] >= n + 1 - k PROVE u \o v = SubSeq(s, k, n)
    <3>1. k \in 1 .. n /\ x[1] = s[k]
      BY <2>1, <2>5, ListAssumption DEF At
    <3> DEFINE q == k + 1
    <3>2. q \in 1 .. n + 1 /\ x[2] - 1 >= n + 1 - q
      BY <1>1, <2>1, <2>5, <3>1
    <3>3. y[1] = At(s, q)
      BY <1>1, <2>1, <3>1
    <3> HIDE DEF q
    <3>4. v = SubSeq(s, q, n)
      BY <2>1, <2>4, <3>2, <3>3
    <3>5. <<s[k]>> \o SubSeq(s, k + 1, n) = SubSeq(s, k, n)
      BY <3>1, BehindIs
    <3> QED BY <3>1, <3>4, <3>5 DEF q
  <2> HIDE DEF u
  <2>6. <<x, u \o v>> \in P
    BY <1>7, <2>3, <2>5
  <2> QED BY <2>6 DEF u
<1>10. <<c.first, K>> \in D
  BY <1>2, AtIs
<1>11. <<<<c.first, K>>, g[<<c.first, K>>]>> \in P
  <2> DEFINE x == <<c.first, K>>
  <2> HIDE DEF D, Stop, out, next, item, m, P, listed, x
  <2>1. StepsKeep(D, Stop, out, next, listed, item, P)
    BY <1>8, <1>9 DEF StepsKeep
  <2>2. x \in D
    BY <1>10 DEF x
  <2>3. <<x, g[x]>> \in P
    BY <1>3, <1>5, <2>1, <2>2, WalkKeeps
  <2> QED BY <2>3 DEF x
<1>12. g[<<c.first, K>>] = SubSeq(s, 1, n)
  <2> DEFINE x == <<c.first, K>>
             v == g[x]
  <2>1. x[1] = At(s, 1) /\ x[2] >= n + 1 - 1 /\ 1 \in 1 .. n + 1 /\ x \in D
    BY <1>1, <1>2, <1>10
  <2>2. <<x, v>> \in P
    BY <1>11
  <2>3. v \in V
    BY <2>2
  <2> HIDE DEF x, v, D, V, P
  <2>4. v = SubSeq(s, 1, n)
    BY <1>7, <2>1, <2>2, <2>3
  <2> QED BY <2>4 DEF x, v
<1> QED BY <1>6, <1>12, BehindIs

Chains == [first : Node \cup {Null}, last : Node \cup {Null}, next : Links, prev : Links]

\* the chain c links the items of s
Chained(d, c, s) ==
  /\ c \in Chains /\ s \in Seq(Node) /\ Distinct(s)
  /\ c.first = At(s, 1) /\ c.last = At(s, Len(s))
  /\ NextOf(c.next, s)
  /\ d => PrevOf(c.prev, s)

\* What a loop over `next` passes, and the node a search finds in front of one.
LEMMA ChainIs ==
  ASSUME NEW d, NEW c, NEW s, Chained(d, c, s)
  PROVE  /\ Lists(d)!Passed(c, c.first) = Rest(s, 1)
         /\ \A i \in 1 .. Len(s) : Lists(d)!Passed(c, s[i]) = Rest(s, i)
         /\ (c.first = Null <=> Len(s) = 0) /\ (c.last = Null <=> Len(s) = 0)
         /\ c.first = At(s, 1) /\ c.last = At(s, Len(s))
<1> DEFINE n == Len(s)
<1>1. /\ s \in Seq(Node) /\ Distinct(s) /\ c.first = At(s, 1) /\ c.last = At(s, n) /\ NextOf(c.next, s)
      /\ n \in Nat /\ \A i \in 1 .. n : At(s, i) = s[i] /\ s[i] # Null
  BY AtIs DEF Chained
<1>2. \A i \in 1 .. n : Lists(d)!Passed(c, s[i]) = Rest(s, i)
  BY <1>1, PassedIs
<1> HIDE DEF n
<1>3. CASE n = 0
  <2>1. c.first = Null /\ c.last = Null
    BY <1>1, <1>3 DEF At, n
  <2>2. Rest(s, 1) = {}
    BY <1>1, <1>3 DEF Rest, n
  <2>3. Lists(d)!Passed(c, c.first) = {}
    BY <2>1 DEF Lists!Passed
  <2> QED BY <1>1, <1>2, <1>3, <2>1, <2>2, <2>3 DEF n
<1>4. CASE n # 0
  <2>1. 1 \in 1 .. n /\ n \in 1 .. n
    BY <1>1, <1>4
  <2>2. c.first = s[1] /\ c.first # Null /\ c.last # Null
    BY <1>1, <2>1
  <2> QED BY <1>1, <1>2, <1>4, <2>1, <2>2 DEF n
<1> QED BY <1>3, <1>4

LEMMA BeforeIs ==
  ASSUME NEW d, NEW s, Chained(d, chain, s), NEW i \in 1 .. Len(s)
  PROVE  Lists(d)!Before(s[i]) = At(s, i - 1)
<1> DEFINE n == Len(s)
           f == chain.next
<1>1. /\ s \in Seq(Node) /\ Distinct(s) /\ chain.first = At(s, 1) /\ NextOf(f, s)
  BY DEF Chained
<1>2. /\ n \in Nat /\ (\A k \in 1 .. n : At(s, k) = s[k] /\ s[k] \in Node /\ s[k] # Null) /\ At(s, 0) = Null
      /\ \A k : At(s, k) # Null => k \in 1 .. n
  BY <1>1, AtIs
<1>3. \A k, l \in 1 .. n : s[k] = s[l] => k = l
  BY <1>1 DEF Distinct
<1>4. \A k \in 1 .. n : f[s[k]] = At(s, k + 1)
  BY <1>1 DEF NextOf
<1>5. Lists(d)!InList = {s[m] : m \in 1 .. n}
  BY ChainIs DEF Lists!InList, Rest
<1>6. i \in 1 .. n
  OBVIOUS
<1> HIDE DEF n
<1>7. CASE i = 1
  <2>1. s[i] = chain.first
    BY <1>1, <1>2, <1>6, <1>7
  <2>2. i - 1 = 0
    BY <1>7
  <2> QED BY <1>2, <2>1, <2>2 DEF Lists!Before
<1>8. CASE i # 1
  <2> DEFINE k == i - 1
  <2>1. k \in 1 .. n /\ k + 1 = i /\ 1 \in 1 .. n
    BY <1>2, <1>6, <1>8
  <2>2. s[i] # chain.first
    BY <1>1, <1>2, <1>3, <1>6, <1>8, <2>1
  <2> HIDE DEF k, f
  <2>3. f[s[k]] = s[i]
    BY <1>2, <1>4, <1>6, <2>1
  <2>4. ASSUME NEW m \in 1 .. n, f[s[m]] = s[i] PROVE m = k
    <3> DEFINE q == m + 1
    <3>1. At(s, q) = s[i]
      BY <1>4, <2>4
    <3>2. q \in 1 .. n
      <4> HIDE DEF q
      <4> QED BY <1>2, <1>6, <3>1
    <3>3. q = i
      <4> HIDE DEF q
      <4> QED BY <1>2, <1>3, <1>6, <3>1, <3>2
    <3> QED BY <1>2, <1>6, <2>1, <3>3
  <2>5. (CHOOSE m \in Lists(d)!InList : f[m] = s[i]) = s[k]
    BY <1>5, <2>1, <2>3, <2>4
  <2>6. Lists(d)!Before(s[i]) = s[k]
    BY <2>2, <2>5 DEF Lists!Before, f
  <2> QED BY <1>2, <2>1, <2>6 DEF k
<1> QED BY <1>7, <1>8

LEMMA ListInit ==
  ASSUME NEW d
  PROVE  /\ Lists(d)!NoChain = Lists(FALSE)!NoChain
         /\ Chained(d, Lists(FALSE)!NoChain, <<>>)
<1> DEFINE c == Lists(FALSE)!NoChain
           f == [n \in Node |-> Null]
<1>1. c = [first |-> Null, last |-> Null, next |-> f, prev |-> f]
  BY DEF Lists!NoChain
<1>2. Lists(d)!NoChain = [first |-> Null, last |-> Null, next |-> f, prev |-> f]
  BY DEF Lists!NoChain
<1>3. <<>> \in Seq(Node) /\ Len(<<>>) = 0 /\ 1 .. 0 = {}
  OBVIOUS
<1>4. At(<<>>, 1) = Null /\ At(<<>>, 0) = Null
  BY <1>3 DEF At
<1>5. Distinct(<<>>)
  BY <1>3 DEF Distinct
<1>6. f \in Links /\ \A n \in Node : f[n] = Null
  BY DEF Links
<1> HIDE DEF c, f
<1>7. c \in Chains /\ c.first = Null /\ c.last = Null /\ c.next = f /\ c.prev = f
  BY <1>1, <1>6 DEF Chains
<1>8. NextOf(f, <<>>) /\ PrevOf(f, <<>>)
  BY <1>3, <1>6 DEF NextOf, PrevOf
<1>9. Chained(d, c, <<>>)
  BY <1>3, <1>4, <1>5, <1>7, <1>8 DEF Chained
<1> QED BY <1>1, <1>2, <1>9 DEF c

LEMMA InsertedExists ==
  ASSUME NEW s \in Seq(Node), NEW x \in Node, NEW at \in 0 .. Len(s)
  PROVE  \E t : IsInserted(Node, s, x, t, at)
<1> DEFINE n == Len(s)
           t == [m \in 1 .. n + 1 |-> IF m <= at THEN s[m] ELSE IF m = at + 1 THEN x ELSE s[m - 1]]
<1>1. n \in Nat /\ at \in 0 .. n /\ \A m \in 1 .. n : s[m] \in Node
  OBVIOUS
<1>2. \A m \in 1 .. n + 1 : (m <= at => m \in 1 .. n) /\ (m > at + 1 => m - 1 \in 1 .. n)
                            /\ (m <= at \/ m = at + 1 \/ m > at + 1) /\ ~(m > at + 1 /\ m <= at)
  BY <1>1
<1> HIDE DEF n
<1>3. t \in [1 .. n + 1 -> Node]
  BY <1>1, <1>2
<1>4. t \in Seq(Node) /\ Len(t) = n + 1
  BY <1>1, <1>3
<1>5. \A m \in 1 .. at : t[m] = s[m]
  BY <1>1
<1>6. t[at + 1] = x
  BY <1>1
<1>7. ASSUME NEW m \in at + 1 .. n PROVE t[m + 1] = s[m]
  <2> DEFINE k == m + 1
  <2>1. k \in 1 .. n + 1 /\ ~(k <= at) /\ k # at + 1 /\ k - 1 = m
    BY <1>1
  <2> HIDE DEF k
  <2>2. t[k] = s[k - 1]
    BY <2>1
  <2> QED BY <2>1, <2>2 DEF k
<1> HIDE DEF t
<1>8. IsInserted(Node, s, x, t, at)
  BY <1>1, <1>4, <1>5, <1>6, <1>7 DEF IsInserted, n
<1> QED BY <1>8

LEMMA TakenExists ==
  ASSUME NEW s \in Seq(Node), NEW at \in 0 .. Len(s) - 1
  PROVE  \E t : IsTakenOut(Node, s, t, at)
<1> DEFINE n == Len(s)
           t == [m \in 1 .. n - 1 |-> IF m <= at THEN s[m] ELSE s[m + 1]]
<1>1. n \in Nat /\ at \in 0 .. n - 1 /\ n - 1 \in Nat /\ \A m \in 1 .. n : s[m] \in Node
  OBVIOUS
<1>2. \A m \in 1 .. n - 1 : m \in 1 .. n /\ m + 1 \in 1 .. n
  BY <1>1
<1> HIDE DEF n
<1>3. t \in [1 .. n - 1 -> Node]
  BY <1>1, <1>2
<1>4. t \in Seq(Node) /\ Len(t) = n - 1
  BY <1>1, <1>3
<1>5. \A m \in 1 .. at : t[m] = s[m]
  BY <1>1
<1>6. \A m \in at + 1 .. n - 1 : t[m] = s[m + 1]
  BY <1>1
<1> HIDE DEF t
<1>7. IsTakenOut(Node, s, t, at)
  BY <1>1, <1>4, <1>5, <1>6 DEF IsTakenOut, n
<1> QED BY <1>7

\* the items from the i-th to the j-th moved to the end
AtEnd(s, i, j) == SubSeq(s, 1, i) \o SubSeq(s, j + 1, Len(s)) \o SubSeq(s, i + 1, j)

LEMMA MovedIs ==
  ASSUME NEW s \in Seq(Node), NEW i \in Nat, NEW j \in Nat, i < j, j < Len(s)
  PROVE  IsSwapped(s, AtEnd(s, i, j), i, j, Len(s))
<1> DEFINE n == Len(s)
           q == n - j
           r == j - i
           A == SubSeq(s, 1, i)
           B == SubSeq(s, j + 1, j + q)
           C == SubSeq(s, i + 1, i + r)
           AB == A \o B
           t == AB \o C
<1>1. n \in Nat /\ q \in Nat /\ r \in Nat /\ i \in 0 .. n /\ j + q <= n /\ i + r <= n
      /\ j + q = n /\ i + r = j /\ i + q + r = n
  OBVIOUS
<1>2. A \in Seq(Node) /\ Len(A) = i /\ \A m \in 1 .. i : A[m] = s[m]
  BY <1>1, FirstItems
<1>3. B \in Seq(Node) /\ Len(B) = q /\ \A m \in 1 .. q : B[m] = s[j + m]
  <2> HIDE DEF q
  <2> QED BY <1>1, PartIs
<1>4. C \in Seq(Node) /\ Len(C) = r /\ \A m \in 1 .. r : C[m] = s[i + m]
  <2> HIDE DEF r
  <2> QED BY <1>1, PartIs
<1>5. t = AtEnd(s, i, j)
  BY <1>1 DEF AtEnd
<1> HIDE DEF n, q, r, A, B, C
<1>6. AB \in Seq(Node) /\ Len(AB) = i + q /\ (\A m \in 1 .. i : AB[m] = A[m])
      /\ \A m \in i + 1 .. i + q : AB[m] = B[m - i]
  <2>1. AB \in Seq(Node) /\ Len(AB) = Len(A) + Len(B)
        /\ \A m \in 1 .. Len(A) + Len(B) : AB[m] = IF m <= Len(A) THEN A[m] ELSE B[m - Len(A)]
    BY <1>2, <1>3, ConcatProperties
  <2> HIDE DEF AB
  <2>2. \A m \in 1 .. i + q : AB[m] = IF m <= i THEN A[m] ELSE B[m - i]
    BY <1>2, <1>3, <2>1
  <2>3. /\ \A m \in 1 .. i : m \in 1 .. i + q /\ m <= i
        /\ \A m \in i + 1 .. i + q : m \in 1 .. i + q /\ ~(m <= i)
    BY <1>1
  <2> QED BY <1>2, <1>3, <2>1, <2>2, <2>3
<1> HIDE DEF AB
<1>7. t \in Seq(Node) /\ Len(t) = i + q + r /\ (\A m \in 1 .. i + q : t[m] = AB[m])
      /\ \A m \in i + q + 1 .. i + q + r : t[m] = C[m - (i + q)]
  <2> DEFINE l == i + q
  <2>1. t \in Seq(Node) /\ Len(t) = Len(AB) + Len(C)
        /\ \A m \in 1 .. Len(AB) + Len(C) : t[m] = IF m <= Len(AB) THEN AB[m] ELSE C[m - Len(AB)]
    BY <1>4, <1>6, ConcatProperties
  <2>2. l \in Nat /\ Len(AB) = l
    BY <1>1, <1>6
  <2> HIDE DEF t, l
  <2>3. \A m \in 1 .. l + r : t[m] = IF m <= l THEN AB[m] ELSE C[m - l]
    BY <1>4, <2>1, <2>2
  <2>4. /\ \A m \in 1 .. l : m \in 1 .. l + r /\ m <= l
        /\ \A m \in l + 1 .. l + r : m \in 1 .. l + r /\ ~(m <= l)
    BY <1>1, <2>2
  <2>5. /\ t \in Seq(Node) /\ Len(t) = l + r /\ (\A m \in 1 .. l : t[m] = AB[m])
        /\ \A m \in l + 1 .. l + r : t[m] = C[m - l]
    BY <1>4, <2>1, <2>2, <2>3, <2>4
  <2> QED BY <2>5 DEF l
<1> HIDE DEF t
<1>8. ASSUME NEW m \in 1 .. i PROVE t[m] = s[m]
  <2>1. m \in 1 .. i + q
    BY <1>1
  <2> QED BY <1>2, <1>6, <1>7, <2>1
<1>9. ASSUME NEW m \in i + 1 .. i + (n - j) PROVE t[m] = s[m + (j - i)]
  <2> DEFINE k == m - i
  <2>1. m \in 1 .. i + q /\ m \in i + 1 .. i + q /\ k \in 1 .. q /\ j + k = m + (j - i)
    BY <1>1 DEF q
  <2> HIDE DEF k
  <2>2. t[m] = B[k]
    BY <1>6, <1>7, <2>1 DEF k
  <2> QED BY <1>3, <2>1, <2>2
<1>10. ASSUME NEW m \in i + (n - j) + 1 .. n PROVE t[m] = s[m - (n - j)]
  <2> DEFINE k == m - (i + q)
  <2>1. m \in i + q + 1 .. i + q + r /\ k \in 1 .. r /\ i + k = m - (n - j)
    BY <1>1 DEF q
  <2> HIDE DEF k
  <2>2. t[m] = C[k]
    BY <1>7, <2>1 DEF k
  <2> QED BY <1>4, <2>1, <2>2
<1>11. \A m \in n + 1 .. n : t[m] = s[m]
  BY <1>1
<1>12. n = Len(s) /\ Len(t) = n /\ n \in Nat
  BY <1>1, <1>7 DEF n
<1>13. IsSwapped(s, t, i, j, n)
  BY <1>7, <1>8, <1>9, <1>10, <1>11, <1>12 DEF IsSwapped
<1> QED BY <1>5, <1>13 DEF n

LEMMA SameLink ==
  ASSUME NEW d, NEW f, NEW n, NEW to
  PROVE  Lists(d)!Linked(f, n, to) = Link(f, n, to)
BY DEF Lists!Linked, Link

LEMMA UntouchedLink ==
  ASSUME NEW f \in Links, NEW n \in Node, f[n] = Null
  PROVE  Link(f, n, Null) = f
BY ListAssumption DEF Link, Links

\* insert_node puts a node that is linked to nothing behind the one at `at`
LEMMA InsertNode ==
  ASSUME NEW d \in BOOLEAN, NEW c, NEW s, Chained(d, c, s), NEW at \in 0 .. Len(s),
         NEW x \in Node, \A i \in 1 .. Len(s) : s[i] # x, NEW t, IsInserted(Node, s, x, t, at)
  PROVE  Chained(d, Lists(d)!insert_node(c, At(s, at), x), t)
<1> DEFINE n == Len(s)
           f == c.next
           p == c.prev
           before == At(s, at)
           after == At(s, at + 1)
           g == Link(Link(f, x, after), before, x)
           h == Link(Link(p, x, before), after, x)
           r == Lists(d)!insert_node(c, before, x)
<1>1. /\ c \in Chains /\ s \in Seq(Node) /\ Distinct(s) /\ c.first = At(s, 1) /\ c.last = At(s, n)
      /\ NextOf(f, s) /\ (d => PrevOf(p, s))
  BY DEF Chained
<1>2. /\ n \in Nat /\ (\A k \in 1 .. n : At(s, k) = s[k] /\ s[k] \in Node /\ s[k] # Null)
      /\ At(s, 0) = Null /\ At(s, n + 1) = Null
      /\ \A k : At(s, k) # Null => k \in 1 .. n
  BY <1>1, AtIs
<1>3. (c.first = Null <=> n = 0) /\ (c.last = Null <=> n = 0)
  BY ChainIs
<1>4. f \in Links /\ (\A k \in 1 .. n : f[s[k]] = At(s, k + 1)) /\ f[x] = Null
  BY <1>1 DEF NextOf
<1>5. d => p \in Links /\ p[x] = Null
  BY <1>1 DEF PrevOf
<1>6. /\ t \in Seq(Node) /\ Len(t) = n + 1 /\ at \in 0 .. n
      /\ \A i \in 0 .. at : At(t, i) = At(s, i)
      /\ At(t, at + 1) = x
      /\ \A i \in at + 2 .. n + 2 : At(t, i) = At(s, i - 1)
  BY InsertedAt
<1>7. NextOf(g, t)
  BY <1>1, InsertedNext
<1>8. d => PrevOf(h, t)
  <2> SUFFICES ASSUME d PROVE PrevOf(h, t)
    OBVIOUS
  <2> DEFINE u == Rev(s)
             q == n - at
  <2>1. /\ u \in Seq(Node) /\ Len(u) = n /\ (\A i \in 1 .. n : u[i] = s[n + 1 - i] /\ n + 1 - i \in 1 .. n)
        /\ \A i \in Int : At(u, i) = At(s, n + 1 - i)
    BY <1>1, RevIs
  <2>2. IsInserted(Node, u, x, Rev(t), q)
    BY RevInserted
  <2>3. NextOf(p, u)
    BY <1>1, RevLinks
  <2>4. Distinct(u)
    BY <1>1, RevDistinct
  <2> HIDE DEF u, q, p
  <2>5. \A i \in 1 .. Len(u) : u[i] # x
    BY <2>1
  <2>6. NextOf(Link(Link(p, x, At(u, q + 1)), At(u, q), x), Rev(t))
    BY <2>2, <2>3, <2>4, <2>5, InsertedNext
  <2>7. At(u, q + 1) = before /\ At(u, q) = after
    <3> DEFINE m == q + 1
    <3>1. m \in Int /\ q \in Int /\ n + 1 - m = at /\ n + 1 - q = at + 1
      BY <1>2 DEF q
    <3> HIDE DEF m
    <3>2. At(u, m) = At(s, at) /\ At(u, q) = At(s, at + 1)
      BY <2>1, <3>1
    <3> QED BY <3>2 DEF m
  <2>8. NextOf(h, Rev(t))
    BY <2>6, <2>7
  <2> HIDE DEF h
  <2> QED BY <1>6, <2>8, RevLinks
<1>9. r \in Chains /\ r.first = (IF at = 0 THEN x ELSE c.first) /\ r.last = (IF at = n THEN x ELSE c.last)
      /\ r.next = g /\ (d => r.prev = h)
  <2>1. g \in Links /\ (d => h \in Links)
    BY <1>7, <1>8 DEF NextOf, PrevOf
  <2>2. x # Null /\ x \in Node \cup {Null}
    BY ListAssumption
  <2>3. CASE n = 0
    <3>1. at = 0 /\ before = Null /\ after = Null /\ c.first = Null
      BY <1>2, <1>3, <1>6, <2>3
    <3>2. g = f
      BY <1>4, <3>1, UntouchedLink DEF Link
    <3>3. d => h = p
      BY <1>5, <3>1, UntouchedLink DEF Link
    <3> HIDE DEF before, after, g, h
    <3>4. r = [c EXCEPT !.first = x, !.last = x]
      BY <3>1 DEF Lists!insert_node
    <3> HIDE DEF r
    <3> QED BY <1>1, <2>1, <2>2, <2>3, <3>1, <3>2, <3>3, <3>4 DEF Chains
  <2>4. CASE n # 0 /\ at = 0
    <3>1. before = Null /\ after = c.first /\ c.first # Null /\ at # n
      BY <1>1, <1>2, <1>3, <2>4
    <3> DEFINE k == [c EXCEPT !.next = Link(Link(f, x, after), before, x),
                              !.prev = IF d THEN Link(Link(p, x, before), after, x) ELSE p]
    <3>2. r = [k EXCEPT !.first = x]
      BY <3>1, SameLink DEF Lists!insert_node, Lists!link_chain
    <3> HIDE DEF before, after, g, h, r
    <3>3. k = [c EXCEPT !.next = g, !.prev = IF d THEN h ELSE p]
      BY DEF g, h
    <3>4. k \in Chains /\ k.first = c.first /\ k.last = c.last /\ k.next = g /\ (d => k.prev = h)
      BY <1>1, <2>1, <3>3 DEF Chains
    <3> HIDE DEF k
    <3> QED BY <2>2, <2>4, <3>1, <3>2, <3>4 DEF Chains
  <2>5. CASE n # 0 /\ at # 0 /\ at = n
    <3>1. before = c.last /\ after = Null /\ before # Null /\ c.first # Null
      BY <1>1, <1>2, <1>3, <2>5
    <3> DEFINE k == [c EXCEPT !.next = Link(Link(f, x, after), before, x),
                              !.prev = IF d THEN Link(Link(p, x, before), after, x) ELSE p]
    <3>2. r = [k EXCEPT !.last = x]
      BY <3>1, SameLink DEF Lists!insert_node, Lists!link_chain
    <3> HIDE DEF before, after, g, h, r
    <3>3. k = [c EXCEPT !.next = g, !.prev = IF d THEN h ELSE p]
      BY DEF g, h
    <3>4. k \in Chains /\ k.first = c.first /\ k.last = c.last /\ k.next = g /\ (d => k.prev = h)
      BY <1>1, <2>1, <3>3 DEF Chains
    <3> HIDE DEF k
    <3> QED BY <2>2, <2>5, <3>1, <3>2, <3>4 DEF Chains
  <2>6. CASE n # 0 /\ at # 0 /\ at # n
    <3>1. at \in 1 .. n /\ n \in 1 .. n
      BY <1>2, <1>6, <2>6
    <3>2. before = s[at] /\ before # Null /\ c.last = s[n] /\ c.first # Null /\ f[s[at]] = after
      BY <1>1, <1>2, <1>3, <1>4, <2>6, <3>1
    <3>3. before # c.last
      BY <1>1, <2>6, <3>1, <3>2 DEF Distinct
    <3> DEFINE k == [c EXCEPT !.next = Link(Link(f, x, after), before, x),
                              !.prev = IF d THEN Link(Link(p, x, before), after, x) ELSE p]
    <3> HIDE DEF after
    <3>4. f[before] = after
      BY <3>2
    <3> HIDE DEF before
    <3>5. r = k
      BY <3>2, <3>3, <3>4, SameLink DEF Lists!insert_node, Lists!link_chain
    <3> HIDE DEF g, h, r
    <3>6. k = [c EXCEPT !.next = g, !.prev = IF d THEN h ELSE p]
      BY DEF g, h
    <3>7. k \in Chains /\ k.first = c.first /\ k.last = c.last /\ k.next = g /\ (d => k.prev = h)
      BY <1>1, <2>1, <3>6 DEF Chains
    <3> HIDE DEF k
    <3> QED BY <2>6, <3>5, <3>7
  <2> QED BY <2>3, <2>4, <2>5, <2>6
<1>10. At(t, 1) = (IF at = 0 THEN x ELSE c.first) /\ At(t, n + 1) = (IF at = n THEN x ELSE c.last)
  <2> HIDE DEF n
  <2>1. at = 0 => At(t, 1) = x
    BY <1>6
  <2>2. at # 0 => 1 \in 0 .. at
    BY <1>6
  <2>3. at = n => At(t, n + 1) = x
    BY <1>6
  <2> DEFINE m == n + 1
  <2>4. at # n => m \in at + 2 .. n + 2 /\ m - 1 = n
    BY <1>2, <1>6
  <2> HIDE DEF m
  <2>5. at # n => At(t, m) = At(s, n)
    BY <1>6, <2>4
  <2> QED BY <1>1, <1>6, <2>1, <2>2, <2>3, <2>5 DEF m, n
<1>11. Distinct(t)
  BY <1>1, InsertedDistinct
<1> HIDE DEF r, g, h, f, p
<1>12. r.first = At(t, 1) /\ r.last = At(t, Len(t))
  BY <1>6, <1>9, <1>10
<1>13. Chained(d, r, t)
  BY <1>6, <1>7, <1>8, <1>9, <1>11, <1>12 DEF Chained
<1> QED BY <1>13 DEF r

\* extract_node takes out the node behind the one at `at`
LEMMA ExtractNode ==
  ASSUME NEW d \in BOOLEAN, NEW c, NEW s, Chained(d, c, s), NEW at, NEW t, IsTakenOut(Node, s, t, at)
  PROVE  Chained(d, Lists(d)!extract_node(c, At(s, at), s[at + 1]), t)
<1> DEFINE n == Len(s)
           f == c.next
           p == c.prev
           x == s[at + 1]
           before == At(s, at)
           after == At(s, at + 2)
           g == Link(Link(f, x, Null), before, after)
           h == Link(Link(p, x, Null), after, before)
           r == Lists(d)!extract_node(c, before, x)
<1>1. /\ c \in Chains /\ s \in Seq(Node) /\ Distinct(s) /\ c.first = At(s, 1) /\ c.last = At(s, n)
      /\ NextOf(f, s) /\ (d => PrevOf(p, s))
  BY DEF Chained
<1>2. /\ n \in Nat /\ (\A k \in 1 .. n : At(s, k) = s[k] /\ s[k] \in Node /\ s[k] # Null)
      /\ At(s, 0) = Null /\ At(s, n + 1) = Null
      /\ (\A k : At(s, k) # Null => k \in 1 .. n) /\ \A k : At(s, k) \in Node \cup {Null}
  BY <1>1, AtIs
<1>3. /\ t \in Seq(Node) /\ at \in Nat /\ at + 1 \in 1 .. n /\ Len(t) = n - 1 /\ Len(t) \in Nat
      /\ \A i \in 0 .. at : At(t, i) = At(s, i)
      /\ \A i \in at + 1 .. n : At(t, i) = At(s, i + 1)
  BY TakenAt
<1>4. f[x] = after
  <2> DEFINE k == at + 1
  <2>1. k \in 1 .. n /\ k + 1 = at + 2
    BY <1>3
  <2> HIDE DEF k
  <2>2. f[s[k]] = At(s, k + 1)
    BY <1>1, <2>1 DEF NextOf
  <2> QED BY <2>1, <2>2 DEF k
<1>5. NextOf(g, t)
  BY <1>1, TakenNext
<1>6. d => PrevOf(h, t)
  <2> SUFFICES ASSUME d PROVE PrevOf(h, t)
    OBVIOUS
  <2> DEFINE u == Rev(s)
             q == n - 1 - at
             a == q + 1
             b == q + 2
  <2>1. /\ u \in Seq(Node) /\ Len(u) = n /\ (\A i \in 1 .. n : u[i] = s[n + 1 - i] /\ n + 1 - i \in 1 .. n)
        /\ \A i \in Int : At(u, i) = At(s, n + 1 - i)
    BY <1>1, RevIs
  <2>2. IsTakenOut(Node, u, Rev(t), q)
    BY RevTaken
  <2>3. NextOf(p, u)
    BY <1>1, RevLinks
  <2>4. Distinct(u)
    BY <1>1, RevDistinct
  <2>5. a \in 1 .. n /\ n + 1 - a = at + 1 /\ q \in Int /\ n + 1 - q = at + 2 /\ b \in Int /\ n + 1 - b = at
    BY <1>2, <1>3
  <2> HIDE DEF u, p
  <2>6. NextOf(Link(Link(p, u[a], Null), At(u, q), At(u, b)), Rev(t))
    BY <2>2, <2>3, <2>4, TakenNext
  <2> HIDE DEF q, a, b
  <2>7. u[a] = s[n + 1 - a] /\ At(u, q) = At(s, n + 1 - q) /\ At(u, b) = At(s, n + 1 - b)
    BY <2>1, <2>5
  <2>8. u[a] = x /\ At(u, q) = after /\ At(u, b) = before
    BY <2>5, <2>7
  <2>9. NextOf(h, Rev(t))
    BY <2>6, <2>8
  <2> HIDE DEF h
  <2> QED BY <1>3, <2>9, RevLinks
<1> DEFINE first == IF before = Null THEN f[x] ELSE c.first
           last == IF x = c.last THEN before ELSE c.last
<1>7. (before = Null <=> at = 0) /\ (x = c.last <=> at + 1 = n) /\ 1 \in 1 .. n /\ c.first # Null /\ c.last # Null
  <2>1. 1 \in 1 .. n /\ n \in 1 .. n /\ (at # 0 => at \in 1 .. n) /\ at + 1 \in 1 .. n
    BY <1>2, <1>3
  <2>2. c.first = s[1] /\ c.last = s[n]
    BY <1>1, <1>2, <2>1
  <2>3. x = s[n] <=> at + 1 = n
    BY <1>1, <2>1 DEF Distinct
  <2> QED BY <1>2, <2>1, <2>2, <2>3
<1>8. first = At(t, 1) /\ last = At(t, n - 1) /\ (first = Null <=> n = 1) /\ (last = Null <=> n = 1)
  <2>1. first = At(t, 1)
    <3>1. CASE at = 0
      <4>1. 1 \in at + 1 .. n /\ 1 + 1 = at + 2
        BY <1>3, <3>1
      <4> HIDE DEF n
      <4>2. At(t, 1) = At(s, 1 + 1)
        BY <1>3, <4>1
      <4> QED BY <1>4, <1>7, <3>1, <4>1, <4>2
    <3>2. CASE at # 0
      <4>1. 1 \in 0 .. at
        BY <1>3, <3>2
      <4> QED BY <1>1, <1>3, <1>7, <3>2, <4>1
    <3> QED BY <3>1, <3>2
  <2>2. last = At(t, n - 1)
    <3> DEFINE m == n - 1
    <3>1. CASE at + 1 = n
      <4>1. m \in 0 .. at /\ m = at
        BY <1>2, <1>3, <3>1
      <4> HIDE DEF m
      <4>2. At(t, m) = At(s, m)
        BY <1>3, <4>1
      <4> QED BY <1>7, <3>1, <4>1, <4>2 DEF m
    <3>2. CASE at + 1 # n
      <4>1. m \in at + 1 .. n /\ m + 1 = n
        BY <1>2, <1>3, <3>2
      <4> HIDE DEF m
      <4>2. At(t, m) = At(s, m + 1)
        BY <1>3, <4>1
      <4> QED BY <1>1, <1>7, <3>2, <4>1, <4>2 DEF m
    <3> QED BY <3>1, <3>2
  <2>3. n = 1 => At(t, 1) = Null /\ At(t, n - 1) = Null
    <3>1. n = 1 => ~(1 \in 1 .. Len(t)) /\ ~(n - 1 \in 1 .. Len(t))
      BY <1>3
    <3> QED BY <3>1 DEF At
  <2>4. n # 1 => At(t, 1) # Null /\ At(t, n - 1) # Null
    <3>1. n # 1 => 1 \in 1 .. Len(t) /\ n - 1 \in 1 .. Len(t)
      BY <1>2, <1>3
    <3> QED BY <1>3, <3>1, AtIs
  <2> QED BY <2>1, <2>2, <2>3, <2>4
<1>9. r \in Chains /\ r.first = first /\ r.last = last /\ r.next = g /\ (d => r.prev = h)
  <2>1. g \in Links /\ (d => h \in Links)
    BY <1>5, <1>6 DEF NextOf, PrevOf
  <2>2. first \in Node \cup {Null} /\ last \in Node \cup {Null}
    BY <1>2, <1>4, <1>1 DEF Chains
  <2> DEFINE k == [c EXCEPT !.next = Link(Link(f, x, Null), before, after),
                            !.prev = IF d THEN Link(Link(p, x, Null), after, before) ELSE p]
             emptied == first = Null \/ last = Null
  <2>3. r = [k EXCEPT !.first = IF emptied THEN Null ELSE first, !.last = IF emptied THEN Null ELSE last]
    BY <1>4, SameLink DEF Lists!extract_node, Lists!unlink_chain
  <2>4. (IF emptied THEN Null ELSE first) = first /\ (IF emptied THEN Null ELSE last) = last
    BY <1>8
  <2>5. k = [c EXCEPT !.next = g, !.prev = IF d THEN h ELSE p]
    OBVIOUS
  <2> HIDE DEF before, after, x, g, h, r, first, last
  <2>6. k \in Chains /\ k.next = g /\ (d => k.prev = h)
    BY <1>1, <2>1, <2>5 DEF Chains
  <2> HIDE DEF k, emptied
  <2>7. r = [k EXCEPT !.first = first, !.last = last]
    BY <2>3, <2>4
  <2> QED BY <2>2, <2>6, <2>7 DEF Chains
<1>10. Distinct(t)
  BY <1>1, TakenDistinct
<1> HIDE DEF r, g, h, f, p, first, last
<1>11. r.first = At(t, 1) /\ r.last = At(t, Len(t))
  BY <1>3, <1>8, <1>9
<1>12. Chained(d, r, t)
  BY <1>3, <1>5, <1>6, <1>9, <1>10, <1>11 DEF Chained
<1> QED BY <1>12 DEF r

\* unlink_chain and link_chain take the nodes from the i-th to the j-th to the end
LEMMA MoveNodes ==
  ASSUME NEW d \in BOOLEAN, NEW c, NEW s, Chained(d, c, s),
         NEW i \in Nat, NEW j \in Nat, 0 < i, i < j, j < Len(s), NEW unlinked, NEW r,
         unlinked = Lists(d)!unlink_chain(c, s[i], s[i + 1], s[j], s[j + 1]),
         r = [Lists(d)!link_chain(unlinked, c.last, s[i + 1], s[j], Null) EXCEPT !.last = s[j]]
  PROVE  Chained(d, r, AtEnd(s, i, j))
<1> DEFINE n == Len(s)
           t == AtEnd(s, i, j)
           f == c.next
           p == c.prev
           a == i + 1
           b == j + 1
           x == s[i]
           from == s[a]
           to == s[j]
           y == s[b]
           z == s[n]
           g == Link(Link(Link(Link(f, to, Null), x, y), to, Null), z, from)
           h == Link(Link(Link(p, from, Null), y, x), from, z)
<1>1. /\ c \in Chains /\ s \in Seq(Node) /\ Distinct(s) /\ c.first = At(s, 1) /\ c.last = At(s, n)
      /\ NextOf(f, s) /\ (d => PrevOf(p, s))
  BY DEF Chained
<1>2. /\ n \in Nat /\ (\A k \in 1 .. n : At(s, k) = s[k] /\ s[k] \in Node /\ s[k] # Null)
      /\ At(s, n + 1) = Null
  BY <1>1, AtIs
<1>3. IsSwapped(s, t, i, j, n)
  BY <1>1, MovedIs
<1>4. i \in 1 .. n /\ a \in 1 .. n /\ j \in 1 .. n /\ b \in 1 .. n /\ n \in 1 .. n /\ 1 \in 1 .. i
      /\ i # j /\ i # n /\ j # n /\ a # i /\ b # i /\ b # j /\ b # a
  BY <1>2
<1>5. \A k, l \in 1 .. n : s[k] = s[l] => k = l
  BY <1>1 DEF Distinct
<1>6. x \in Node /\ from \in Node /\ to \in Node /\ y \in Node /\ z \in Node /\ c.last = z
      /\ x # Null /\ from # Null /\ to # Null /\ y # Null /\ z # Null
      /\ x # to /\ x # z /\ to # z /\ from # x /\ y # x /\ y # to /\ y # from
  BY <1>1, <1>2, <1>4, <1>5
<1>7. f \in Links /\ (d => p \in Links)
  BY <1>1 DEF NextOf, PrevOf
<1>8. \A l \in Links, k \in Node :
        /\ \A m \in Node :
             Link(l, k, m) \in Links /\ \A o \in Node : Link(l, k, m)[o] = IF o = k THEN m ELSE l[o]
        /\ Link(l, k, Null) \in Links /\ \A o \in Node : Link(l, k, Null)[o] = IF o = k THEN Null ELSE l[o]
  BY ListAssumption DEF Link, Links
<1>9. r \in Chains /\ r.first = c.first /\ r.last = to /\ r.next = g /\ (d => r.prev = h)
  <2>1. g \in Links
    <3> HIDE DEF x, from, to, y, z
    <3>1. Link(f, to, Null) \in Links
      BY <1>6, <1>7, <1>8
    <3>2. Link(Link(f, to, Null), x, y) \in Links
      BY <1>6, <1>8, <3>1
    <3>3. Link(Link(Link(f, to, Null), x, y), to, Null) \in Links
      BY <1>6, <1>8, <3>2
    <3> QED BY <1>6, <1>8, <3>3
  <2>2. d => h \in Links
    <3> HIDE DEF x, from, to, y, z
    <3>1. d => Link(p, from, Null) \in Links
      BY <1>6, <1>7, <1>8
    <3>2. d => Link(Link(p, from, Null), y, x) \in Links
      BY <1>6, <1>8, <3>1
    <3> QED BY <1>6, <1>8, <3>2
  <2>3. unlinked = [c EXCEPT !.next = Link(Link(f, to, Null), x, y),
                             !.prev = IF d THEN Link(Link(p, from, Null), y, x) ELSE p]
    BY SameLink DEF Lists!unlink_chain
  <2>4. Lists(d)!link_chain(unlinked, c.last, from, to, Null)
          = [unlinked EXCEPT
               !.next = Link(Link(unlinked.next, to, Null), z, from),
               !.prev = IF d THEN Link(Link(unlinked.prev, from, z), Null, to) ELSE unlinked.prev]
    BY <1>6, SameLink DEF Lists!link_chain
  <2>5. \A l : Link(l, Null, to) = l
    BY DEF Link
  <2> DEFINE g1 == Link(Link(f, to, Null), x, y)
             h1 == IF d THEN Link(Link(p, from, Null), y, x) ELSE p
  <2>6. g = Link(Link(g1, to, Null), z, from) /\ (d => h = Link(h1, from, z))
    OBVIOUS
  <2> DEFINE k == Lists(d)!link_chain(unlinked, c.last, from, to, Null)
  <2>7. r = [k EXCEPT !.last = to]
    OBVIOUS
  <2> HIDE DEF x, from, to, y, z, g, h, g1, h1, k
  <2>8. unlinked = [c EXCEPT !.next = g1, !.prev = h1]
    BY <2>3 DEF g1, h1
  <2>9. h1 \in Links /\ g1 \in Links
    <3>1. c.prev \in Links
      BY <1>1 DEF Chains
    <3>2. ASSUME d PROVE h1 \in Links
      <4>1. Link(p, from, Null) \in Links
        BY <1>6, <1>8, <3>1
      <4>2. Link(Link(p, from, Null), y, x) \in Links
        BY <1>6, <1>8, <4>1
      <4>3. h1 = Link(Link(p, from, Null), y, x)
        BY <3>2 DEF h1
      <4> HIDE DEF p, h1
      <4> QED BY <4>2, <4>3
    <3>3. g1 \in Links
      <4>1. Link(f, to, Null) \in Links
        BY <1>6, <1>7, <1>8
      <4> QED BY <1>6, <1>8, <4>1 DEF g1
    <3> QED BY <3>1, <3>2, <3>3 DEF h1
  <2> HIDE DEF f, p
  <2>10. unlinked \in Chains /\ unlinked.first = c.first /\ unlinked.next = g1 /\ unlinked.prev = h1
    BY <1>1, <2>8, <2>9 DEF Chains
  <2>11. k \in Chains /\ k.first = c.first /\ k.next = g /\ (d => k.prev = h)
    <3> DEFINE next == Link(Link(unlinked.next, to, Null), z, from)
               prev == IF d THEN Link(Link(unlinked.prev, from, z), Null, to) ELSE unlinked.prev
    <3>1. next = g /\ prev = IF d THEN h ELSE h1
      BY <2>5, <2>6, <2>10
    <3>2. k = [unlinked EXCEPT !.next = next, !.prev = prev]
      BY <2>4 DEF k
    <3> HIDE DEF next, prev
    <3>3. next \in Links /\ prev \in Links
      BY <2>1, <2>2, <2>9, <3>1
    <3> QED BY <2>10, <3>1, <3>2, <3>3 DEF Chains
  <2> QED BY <1>6, <2>7, <2>11 DEF Chains
<1>10. Relinked(f, g, s, i, j, n)
  <2> HIDE DEF x, from, to, y, z, f
  <2> DEFINE g1 == Link(f, to, Null)
             g2 == Link(g1, x, y)
             g3 == Link(g2, to, Null)
  <2>2. g = Link(g3, z, from)
    OBVIOUS
  <2> HIDE DEF g
  <2>3. g1 \in Links /\ \A o \in Node : g1[o] = IF o = to THEN Null ELSE f[o]
    BY <1>6, <1>7, <1>8
  <2> HIDE DEF g1
  <2>4. g2 \in Links /\ \A o \in Node : g2[o] = IF o = x THEN y ELSE g1[o]
    BY <1>6, <1>8, <2>3
  <2> HIDE DEF g2
  <2>5. g3 \in Links /\ \A o \in Node : g3[o] = IF o = to THEN Null ELSE g2[o]
    BY <1>6, <1>8, <2>4
  <2> HIDE DEF g3
  <2>6. g \in Links /\ \A o \in Node : g[o] = IF o = z THEN from ELSE g3[o]
    <3>1. /\ Link(g3, z, from) \in Links
          /\ \A o \in Node : Link(g3, z, from)[o] = IF o = z THEN from ELSE g3[o]
      BY <1>6, <1>8, <2>5
    <3> QED BY <2>2, <3>1
  <2>7. g[x] = y /\ g[z] = from /\ g[to] = Null /\ \A o \in Node : o # x /\ o # z /\ o # to => g[o] = f[o]
    BY <1>6, <2>3, <2>4, <2>5, <2>6
  <2> QED BY <1>2, <1>7, <2>6, <2>7 DEF Relinked, x, from, to, y, z
<1>11. NextOf(g, t)
  <2> HIDE DEF g, t
  <2> QED BY <1>1, <1>3, <1>10, SwappedNext
<1>12. d => PrevOf(h, t)
  <2> SUFFICES ASSUME d PROVE PrevOf(h, t)
    OBVIOUS
  <2> DEFINE u == Rev(s)
             v == n - j
             w == n - i
             v1 == v + 1
             w1 == w + 1
             zero == n - n
  <2>1. /\ u \in Seq(Node) /\ Len(u) = n /\ (\A k \in 1 .. n : u[k] = s[n + 1 - k] /\ n + 1 - k \in 1 .. n)
        /\ \A k \in Int : At(u, k) = At(s, n + 1 - k)
    BY <1>1, RevIs
  <2>2. IsSwapped(u, Rev(t), zero, v, w)
    BY <1>3, RevSwapped
  <2>3. NextOf(p, u) /\ Distinct(u)
    BY <1>1, RevLinks, RevDistinct
  <2>4. zero = 0 /\ v \in 1 .. n /\ w \in 1 .. n /\ 1 \in 1 .. n /\ n + 1 - v = b /\ n + 1 - w = a
    BY <1>2, <1>4
  <2>4a. n + 1 - 1 = n /\ w1 \in Int /\ n + 1 - w1 = i
    BY <1>2, <1>4
  <2> HIDE DEF u, v, w, w1, zero
  <2>5. u[v] = s[n + 1 - v] /\ u[w] = s[n + 1 - w] /\ u[1] = s[n + 1 - 1] /\ At(u, w1) = At(s, n + 1 - w1)
    BY <2>1, <2>4, <2>4a
  <2>6. u[v] = y /\ u[w] = from /\ u[1] = z /\ At(u, w1) = x
    <3>1. At(s, i) = s[i]
      BY <1>2, <1>4
    <3> QED BY <2>4, <2>4a, <2>5, <3>1
  <2> HIDE DEF x, from, to, y, z, p
  <2> DEFINE h1 == Link(p, from, Null)
             h2 == Link(h1, y, x)
  <2>7. h = Link(h2, from, z)
    OBVIOUS
  <2> HIDE DEF h
  <2>8. h1 \in Links /\ \A o \in Node : h1[o] = IF o = from THEN Null ELSE p[o]
    BY <1>6, <1>7, <1>8
  <2> HIDE DEF h1
  <2>9. h2 \in Links /\ \A o \in Node : h2[o] = IF o = y THEN x ELSE h1[o]
    BY <1>6, <1>8, <2>8
  <2> HIDE DEF h2
  <2>10. h \in Links /\ \A o \in Node : h[o] = IF o = from THEN z ELSE h2[o]
    <3>1. /\ Link(h2, from, z) \in Links
          /\ \A o \in Node : Link(h2, from, z)[o] = IF o = from THEN z ELSE h2[o]
      BY <1>6, <1>8, <2>9
    <3> QED BY <2>7, <3>1
  <2>11. h[from] = z /\ h[y] = x /\ \A o \in Node : o # from /\ o # y => h[o] = p[o]
    BY <1>6, <2>8, <2>9, <2>10
  <2>12. Relinked(p, h, u, zero, v, w)
    <3>1. zero + 1 = 1 /\ ~(zero > 0)
      BY <2>4
    <3>2. h[u[w]] = u[zero + 1] /\ h[u[v]] = At(u, w + 1)
      BY <2>6, <2>11, <3>1 DEF w1
    <3> QED BY <1>7, <2>6, <2>10, <2>11, <3>1, <3>2 DEF Relinked
  <2> HIDE DEF p, t
  <2>13. NextOf(h, Rev(t))
    BY <2>2, <2>3, <2>12, SwappedNext
  <2>14. t \in Seq(Node)
    BY <1>3 DEF IsSwapped
  <2> QED BY <2>13, <2>14, RevLinks
<1>13. At(t, 1) = At(s, 1) /\ At(t, Len(t)) = to /\ t \in Seq(Node)
  <2>1. /\ t \in Seq(Node) /\ Len(t) = n
        /\ (\A m \in 1 .. i : t[m] = s[m])
        /\ \A m \in i + (n - j) + 1 .. n : t[m] = s[m - (n - j)]
    BY <1>3 DEF IsSwapped
  <2>2. n \in i + (n - j) + 1 .. n /\ n - (n - j) = j /\ 1 \in 1 .. n
    BY <1>2, <1>4
  <2> HIDE DEF t
  <2>3. t[1] = s[1] /\ t[n] = to
    BY <1>4, <2>1, <2>2
  <2> QED BY <1>4, <2>1, <2>2, <2>3 DEF At
<1>14. Distinct(t)
  BY <1>1, <1>3, SwappedDistinct
<1> HIDE DEF g, h, t, f, p, x, from, to, y, z
<1>15. Chained(d, r, t)
  BY <1>1, <1>9, <1>11, <1>12, <1>13, <1>14 DEF Chained
<1> QED BY <1>15 DEF t

ListInv(d) == \E s : Chained(d, chain, s)

\* The links of a chain match.
LEMMA ListSound ==
  ASSUME NEW d \in BOOLEAN, ListInv(d)
  PROVE  Lists(d)!LinksMatch
<1>1. PICK s : Chained(d, chain, s)
  BY DEF ListInv
<1> DEFINE n == Len(s)
<1>2. /\ s \in Seq(Node) /\ Distinct(s) /\ NextOf(chain.next, s) /\ (d => PrevOf(chain.prev, s))
  BY <1>1 DEF Chained
<1>3. /\ n \in Nat /\ (\A k \in 1 .. n : At(s, k) = s[k] /\ s[k] \in Node /\ s[k] # Null)
      /\ At(s, n + 1) = Null /\ At(s, 0) = Null
  BY <1>2, AtIs
<1>4. /\ Lists(d)!Passed(chain, chain.first) = Rest(s, 1)
      /\ (chain.first = Null <=> n = 0) /\ (chain.last = Null <=> n = 0)
      /\ chain.first = At(s, 1) /\ chain.last = At(s, n)
  BY <1>1, ChainIs
<1>5. Lists(d)!InList = {s[m] : m \in 1 .. n}
  BY <1>4 DEF Lists!InList, Rest
<1> HIDE DEF n
<1>6. n # 0 => n \in 1 .. n
  BY <1>3
<1>7. Lists(d)!is_connected(chain, chain.first, chain.last)
  <2>1. n # 0 => chain.last \in Rest(s, 1)
    BY <1>3, <1>4, <1>6 DEF Rest, n
  <2> QED BY <1>4, <2>1 DEF Lists!is_connected
<1>8. chain.last # Null => chain.next[chain.last] = Null
  BY <1>2, <1>3, <1>4, <1>6 DEF NextOf, n
<1>9. \A m \in Node \ Lists(d)!InList : Lists(d)!is_isolated(chain, m)
  <2> SUFFICES ASSUME NEW m \in Node, \A i \in 1 .. n : s[i] # m PROVE Lists(d)!is_isolated(chain, m)
    BY <1>5
  <2>1. chain.next[m] = Null /\ (d => chain.prev[m] = Null)
    BY <1>2 DEF NextOf, PrevOf, n
  <2> QED BY <2>1 DEF Lists!is_isolated
<1>10. d => \A m \in Lists(d)!InList : chain.prev[m] = Lists(d)!Before(m)
  <2> SUFFICES ASSUME d, NEW i \in 1 .. n PROVE chain.prev[s[i]] = Lists(d)!Before(s[i])
    BY <1>5
  <2>1. chain.prev[s[i]] = At(s, i - 1)
    BY <1>2 DEF PrevOf, n
  <2> QED BY <1>1, <2>1, BeforeIs DEF n
<1> QED BY <1>7, <1>8, <1>9, <1>10 DEF Lists!LinksMatch

\* a walk meets the nodes of the chain in order
LEMMA NodesAre ==
  ASSUME NEW d, NEW c, NEW s, Chained(d, c, s)
  PROVE  Lists(d)!Order(c) = s
<1>1. s \in Seq(Node) /\ Distinct(s) /\ NextOf(c.next, s) /\ c.first = At(s, 1)
  BY DEF Chained
<1> QED BY <1>1, OrderIs

\* The operations, by the places of their nodes in the sequence.
ListOps(d, s) ==
  /\ \A at \in 0 .. Len(s), x \in Node :
       Lists(d)!Insert(At(s, at), x) => ListInv(d)' /\ Lists(d)!Abstract!Insert(at, x)
  /\ \A k \in 1 .. Len(s) :
       Lists(d)!Extract(s[k]) => ListInv(d)' /\ Lists(d)!Abstract!TakeOut(k - 1)
  /\ \A a, j \in 1 .. Len(s) :
       Lists(d)!MoveToEnd(s[a], s[j]) =>
         /\ ListInv(d)'
         /\ Lists(d)!items' = SubSeq(s, 1, a - 1) \o SubSeq(s, j + 1, Len(s)) \o SubSeq(s, a, j)

\* what the sequence of a chain has to do with its nodes
ListView(d, s) ==
  /\ Lists(d)!items = s
  /\ Lists(d)!InList = {s[m] : m \in 1 .. Len(s)}
  /\ Len(s) \in Nat /\ At(s, 0) = Null /\ \A k \in 1 .. Len(s) : At(s, k) = s[k]

LEMMA ListOpsAre ==
  ASSUME NEW d \in BOOLEAN, ListInv(d)
  PROVE  \E s : ListView(d, s) /\ ListOps(d, s)
<1>1. PICK s : Chained(d, chain, s)
  BY DEF ListInv
<1> DEFINE n == Len(s)
<1>2. s \in Seq(Node) /\ Distinct(s) /\ NextOf(chain.next, s)
  BY <1>1 DEF Chained
<1>3. /\ n \in Nat /\ (\A k \in 1 .. n : At(s, k) = s[k] /\ s[k] \in Node /\ s[k] # Null)
      /\ At(s, 0) = Null
  BY <1>2, AtIs
<1>4. /\ Lists(d)!InList = {s[m] : m \in 1 .. n}
      /\ \A i \in 1 .. n : Lists(d)!Passed(chain, s[i]) = {s[m] : m \in i .. n}
      /\ chain.first = At(s, 1) /\ chain.last = At(s, n)
  <2>1. /\ Lists(d)!Passed(chain, chain.first) = Rest(s, 1)
        /\ \A i \in 1 .. n : Lists(d)!Passed(chain, s[i]) = Rest(s, i)
        /\ chain.first = At(s, 1) /\ chain.last = At(s, n)
    BY <1>1, ChainIs
  <2>2. \A i : Rest(s, i) = {s[m] : m \in i .. n}
    BY DEF Rest
  <2>3. Lists(d)!InList = Rest(s, 1)
    BY <2>1 DEF Lists!InList
  <2> HIDE DEF n
  <2> QED BY <2>1, <2>2, <2>3
<1> DEFINE Walked(c) == Lists(d)!Order(c)
<1>5. \A c, t : Chained(d, c, t) => Walked(c) = t
  BY NodesAre
<1>6. Lists(d)!items = Walked(chain) /\ Lists(d)!items' = Walked(chain')
  BY DEF Lists!items
<1> HIDE DEF Walked
<1>7. Lists(d)!items = s
  BY <1>1, <1>6, <1>5
<1>8. ASSUME NEW t, Chained(d, chain', t) PROVE ListInv(d)' /\ Lists(d)!items' = t
  <2>1. Lists(d)!items' = t
    BY <1>8, <1>6, <1>5
  <2>2. \E u : Chained(d, chain', u)
    BY <1>8
  <2> QED BY <2>1, <2>2 DEF ListInv
<1> HIDE DEF n
<1>9. ASSUME NEW at \in 0 .. n, NEW x \in Node, Lists(d)!Insert(At(s, at), x)
      PROVE  ListInv(d)' /\ Lists(d)!Abstract!Insert(at, x)
  <2>2. chain' = Lists(d)!insert_node(chain, At(s, at), x) /\ \A i \in 1 .. n : s[i] # x
    BY <1>4, <1>9 DEF Lists!Insert
  <2>3. PICK t : IsInserted(Node, s, x, t, at)
    BY <1>2, InsertedExists DEF n
  <2>4. Chained(d, chain', t)
    BY <1>1, <2>2, <2>3, InsertNode DEF n
  <2>5. t = SubSeq(s, 1, at) \o <<x>> \o SubSeq(s, at + 1, Len(s))
    BY <2>3, InsertedIs
  <2>6. Lists(d)!Abstract!Insert(at, x)
    BY <1>7, <1>8, <2>4, <2>5 DEF Lists!Abstract!Insert, Lists!Abstract!UpTo, Lists!Abstract!From
  <2> QED BY <1>8, <2>4, <2>6
<1>10. ASSUME NEW k \in 1 .. n, Lists(d)!Extract(s[k])
       PROVE  ListInv(d)' /\ Lists(d)!Abstract!TakeOut(k - 1)
  <2> DEFINE x == s[k]
  <2>1. x \in Lists(d)!InList /\ Lists(d)!Extract(x) /\ x = s[k]
    BY <1>4, <1>10
  <2> HIDE DEF x
  <2> DEFINE at == k - 1
  <2>2. at \in 0 .. n - 1 /\ at + 1 = k
    BY <1>3
  <2>3. Lists(d)!Before(x) = At(s, at)
    BY <1>1, <2>1, BeforeIs DEF n
  <2> HIDE DEF at
  <2>4. chain' = Lists(d)!extract_node(chain, At(s, at), s[at + 1])
    BY <2>1, <2>2, <2>3 DEF Lists!Extract
  <2>5. PICK t : IsTakenOut(Node, s, t, at)
    BY <1>2, <2>2, TakenExists DEF n
  <2>6. Chained(d, chain', t)
    BY <1>1, <2>4, <2>5, ExtractNode
  <2>7. t = SubSeq(s, 1, at) \o SubSeq(s, at + 1 + 1, Len(s))
    BY <2>5, TakenOutIs
  <2>8. Lists(d)!Abstract!TakeOut(at)
    BY <1>7, <1>8, <2>6, <2>7 DEF Lists!Abstract!TakeOut, Lists!Abstract!UpTo, Lists!Abstract!From
  <2> QED BY <1>8, <2>6, <2>8 DEF at
<1>11. ASSUME NEW a \in 1 .. n, NEW j \in 1 .. n, Lists(d)!MoveToEnd(s[a], s[j])
       PROVE  /\ ListInv(d)'
              /\ Lists(d)!items' = SubSeq(s, 1, a - 1) \o SubSeq(s, j + 1, n) \o SubSeq(s, a, j)
  <2> DEFINE from == s[a]
             to == s[j]
  <2>1. from = s[a] /\ Lists(d)!MoveToEnd(from, to)
    BY <1>11
  <2> HIDE DEF from, to
  <2>2. from # chain.first /\ to # chain.last /\ to \in Lists(d)!Passed(chain, from)
    BY <2>1 DEF Lists!MoveToEnd
  <2>3. j \in a .. n /\ to = s[j]
    <3>1. \E m \in a .. n : to = s[m]
      BY <1>4, <2>1, <2>2
    <3>2. \A k, l \in 1 .. n : s[k] = s[l] => k = l
      BY <1>2 DEF Distinct, n
    <3> QED BY <1>3, <3>1, <3>2 DEF to
  <2> DEFINE i == a - 1
             b == j + 1
  <2>4. a # 1 /\ j # n
    <3>1. 1 \in 1 .. n /\ n \in 1 .. n
      BY <1>3
    <3> QED BY <1>3, <1>4, <2>1, <2>2, <2>3, <3>1
  <2>5. i \in Nat /\ 0 < i /\ i < j /\ j < n /\ i + 1 = a /\ j \in Nat /\ j \in 1 .. n /\ i \in 1 .. n /\ b \in 1 .. n
    BY <1>3, <2>3, <2>4
  <2>6. Lists(d)!Before(from) = At(s, i)
    BY <1>1, <2>1, BeforeIs DEF n
  <2>7. chain.next[to] = At(s, b)
    BY <1>2, <2>3, <2>5 DEF NextOf, n
  <2> HIDE DEF i, b
  <2>8. Lists(d)!Before(from) = s[i] /\ chain.next[to] = s[b]
    BY <1>3, <2>5, <2>6, <2>7
  <2> DEFINE unlinked == Lists(d)!unlink_chain(chain, s[i], s[i + 1], s[j], s[j + 1])
             r == [Lists(d)!link_chain(unlinked, chain.last, s[i + 1], s[j], Null) EXCEPT !.last = s[j]]
  <2>9. chain' = r
    <3>1. s[j + 1] = s[b] /\ s[i + 1] = from /\ s[j] = to
      BY <2>1, <2>3, <2>5 DEF b
    <3>2. unlinked = Lists(d)!unlink_chain(chain, Lists(d)!Before(from), from, to, chain.next[to])
      BY <2>8, <3>1
    <3>3. LET u == Lists(d)!unlink_chain(chain, Lists(d)!Before(from), from, to, chain.next[to])
          IN  chain' = [Lists(d)!link_chain(u, chain.last, from, to, Null) EXCEPT !.last = to]
      BY <2>1 DEF Lists!MoveToEnd
    <3> HIDE DEF unlinked
    <3>4. chain' = [Lists(d)!link_chain(unlinked, chain.last, from, to, Null) EXCEPT !.last = to]
      BY <3>2, <3>3
    <3> QED BY <3>1, <3>4
  <2> DEFINE t == AtEnd(s, i, j)
  <2>10. Chained(d, r, t)
    <3>1. j < Len(s) /\ unlinked = unlinked
      BY <2>5 DEF n
    <3> HIDE DEF t
    <3> QED BY <1>1, <2>5, <3>1, MoveNodes DEF t
  <2>11. Chained(d, chain', t)
    BY <2>9, <2>10
  <2>12. t = SubSeq(s, 1, i) \o SubSeq(s, j + 1, Len(s)) \o SubSeq(s, i + 1, j)
    BY DEF AtEnd
  <2> HIDE DEF t
  <2>13. Lists(d)!items' = t /\ ListInv(d)'
    BY <1>8, <2>11
  <2>14. i = a - 1 /\ i + 1 = a /\ n = Len(s)
    BY <2>5 DEF i, n
  <2> QED BY <2>12, <2>13, <2>14
<1>12. ListView(d, s)
  BY <1>3, <1>4, <1>7 DEF ListView, n
<1>13. ListOps(d, s)
  BY <1>9, <1>10, <1>11 DEF ListOps, n
<1> QED BY <1>12, <1>13

\* Each operation makes of the sequence of nodes what is asked of it.
LEMMA ListFollows ==
  ASSUME NEW d \in BOOLEAN, ListInv(d)
  PROVE  Lists(d)!Follows
<1>1. PICK s : ListView(d, s) /\ ListOps(d, s)
  BY ListOpsAre
<1>2. /\ Lists(d)!items = s /\ Len(s) \in Nat /\ At(s, 0) = Null
      /\ \A k \in 1 .. Len(s) : At(s, k) = s[k]
  BY <1>1 DEF ListView
<1>3. 0 \in 0 .. Len(s) /\ \A k \in 1 .. Len(s) : k \in 0 .. Len(s)
  BY <1>2
<1>4. \A x \in Node : Lists(d)!Insert(Null, x) => Lists(d)!Abstract!Insert(0, x)
  BY <1>1, <1>2, <1>3 DEF ListOps
<1>5. \A at \in 1 .. Len(s), x \in Node : Lists(d)!Insert(s[at], x) => Lists(d)!Abstract!Insert(at, x)
  BY <1>1, <1>2, <1>3 DEF ListOps
<1>6. \A at \in 1 .. Len(s) : Lists(d)!Extract(s[at]) => Lists(d)!Abstract!TakeOut(at - 1)
  BY <1>1 DEF ListOps
<1>7. \A i, j \in 1 .. Len(s) :
        Lists(d)!MoveToEnd(s[i], s[j]) =>
          Lists(d)!items' = SubSeq(s, 1, i - 1) \o SubSeq(s, j + 1, Len(s)) \o SubSeq(s, i, j)
  BY <1>1 DEF ListOps
<1> QED BY <1>2, <1>4, <1>5, <1>6, <1>7 DEF Lists!Follows

LEMMA ListStep ==
  ASSUME NEW d \in BOOLEAN, ListInv(d), Lists(d)!Next
  PROVE  ListInv(d)'
<1>1. PICK s : ListView(d, s) /\ ListOps(d, s)
  BY ListOpsAre
<1>2. /\ Lists(d)!InList = {s[m] : m \in 1 .. Len(s)} /\ Len(s) \in Nat /\ At(s, 0) = Null
      /\ \A k \in 1 .. Len(s) : At(s, k) = s[k]
  BY <1>1 DEF ListView
<1>3. 0 \in 0 .. Len(s) /\ \A k \in 1 .. Len(s) : k \in 0 .. Len(s)
  BY <1>2
<1>4. ASSUME NEW after \in Lists(d)!InList \cup {Null}, NEW x \in Node, Lists(d)!Insert(after, x)
      PROVE  ListInv(d)'
  <2>1. \E at \in 0 .. Len(s) : after = At(s, at)
    BY <1>2, <1>3
  <2> QED BY <1>1, <1>4, <2>1 DEF ListOps
<1>5. ASSUME NEW x \in Lists(d)!InList, Lists(d)!Extract(x) PROVE ListInv(d)'
  <2>1. \E k \in 1 .. Len(s) : x = s[k]
    BY <1>2
  <2> QED BY <1>1, <1>5, <2>1 DEF ListOps
<1>6. ASSUME NEW from \in Lists(d)!InList, NEW to \in Lists(d)!InList, Lists(d)!MoveToEnd(from, to)
      PROVE  ListInv(d)'
  <2>1. (\E a \in 1 .. Len(s) : from = s[a]) /\ \E j \in 1 .. Len(s) : to = s[j]
    BY <1>2
  <2> QED BY <1>1, <1>6, <2>1 DEF ListOps
<1> QED BY <1>4, <1>5, <1>6 DEF Lists!Next

LEMMA ListStarts ==
  ASSUME NEW d, Lists(d)!Init
  PROVE  ListInv(d)
BY ListInit DEF Lists!Init, ListInv

-----------------------------------------------------------------------------
(* Hash index *)

Slots == 0 .. indeces_size - 1

\* the k-th slot that a search for h looks at, counted from 0
Probed(h, k) == (h + k) % indeces_size

\* the first of the slots in S is met after n others
First(h, S, n) ==
  n \in Slots /\ Probed(h, n) \in S /\ \A m \in 0 .. n - 1 : Probed(h, m) \notin S

Zeros == {i \in Slots : indeces[i] = 0}

\* a search for the row finds it before an empty slot
IsReached(r) ==
  \E k \in Slots : /\ indeces[Probed(rows[r], k)] = r + 2
                   /\ \A m \in 0 .. k - 1 : indeces[Probed(rows[r], m)] # 0

\* Every entry is a row's, which has no other, and is reached from its hash; a
\* slot is empty.
IndexInv ==
  /\ indeces \in [Slots -> Nat]
  /\ \A r \in DOMAIN rows : r \in Row /\ rows[r] \in Hash /\ IsReached(r)
  /\ \A i \in Slots : indeces[i] > 1 => indeces[i] - 2 \in DOMAIN rows
  /\ \A i, j \in Slots : indeces[i] > 1 /\ indeces[i] = indeces[j] => i = j
  /\ Zeros # {}

LEMMA IndexConstants ==
  /\ indeces_size \in Nat \ {0} /\ \A n : n \in Slots => n \in Nat /\ n < indeces_size
  /\ \A h \in Nat, k \in Nat : Probed(h, k) \in Slots
  /\ \A r \in Row : r \in Nat
  /\ \A h \in Hash : h \in Nat
<1>1. indeces_size \in Nat \ {0} /\ (\A r \in Row : r \in Nat) /\ \A h \in Hash : h \in Nat
  BY IndexAssumption
<1>2. \A a \in Nat : a % indeces_size \in 0 .. indeces_size - 1
  BY <1>1
<1>3. \A h \in Nat, k \in Nat : h + k \in Nat
  OBVIOUS
<1> QED BY <1>1, <1>2, <1>3 DEF Probed, Slots

LEMMA FirstExists ==
  ASSUME NEW h \in Nat, NEW S \in SUBSET Slots, S # {}
  PROVE  \E n : First(h, S, n)
<1> DEFINE T == {n \in Slots : Probed(h, n) \in S}
<1>1. PICK s \in S : TRUE
  OBVIOUS
<1>2. indeces_size \in Nat /\ s \in 0 .. indeces_size - 1
  BY IndexConstants DEF Slots
<1>3. \E d \in 0 .. indeces_size - 1 : s = (h + d) % indeces_size
  BY <1>2, ModReaches
<1>4. T # {} /\ T \in SUBSET Nat
  BY <1>3, IndexConstants DEF Slots, Probed
<1>5. PICK n \in T : \A m \in T : n <= m
  <2> HIDE DEF T
  <2> QED BY <1>4, SmallestElement
<1>6. n \in Nat /\ n < indeces_size /\ n \in Slots /\ Probed(h, n) \in S
  BY <1>5, IndexConstants
<1>7. ASSUME NEW m \in 0 .. n - 1 PROVE Probed(h, m) \notin S
  <2>1. m \in Slots /\ ~(n <= m)
    BY <1>2, <1>6 DEF Slots
  <2> QED BY <1>5, <2>1
<1>8. First(h, S, n)
  BY <1>6, <1>7 DEF First
<1> QED BY <1>8

LEMMA FirstUnique ==
  ASSUME NEW h, NEW S, NEW n, NEW m, First(h, S, n), First(h, S, m)
  PROVE  n = m
<1>1. n \in Nat /\ m \in Nat
  BY IndexConstants DEF First
<1>2. n \notin 0 .. m - 1 /\ m \notin 0 .. n - 1
  BY DEF First
<1> QED BY <1>1, <1>2

LEMMA FirstSlotIs ==
  ASSUME NEW h \in Nat, NEW S \in SUBSET Slots, S # {}
  PROVE  \E n : First(h, S, n) /\ Index!FirstSlot(h, S) = Probed(h, n)
<1> DEFINE n == CHOOSE n \in Slots : Probed(h, n) \in S /\ \A m \in 0 .. n - 1 : Probed(h, m) \notin S
<1>1. First(h, S, n)
  BY FirstExists DEF First
<1>2. Index!FirstSlot(h, S) = Probed(h, n)
  BY DEF Index!FirstSlot, Probed, Slots
<1> QED BY <1>1, <1>2

-----------------------------------------------------------------------------
(* Searches *)

\* how many slots a search for h looks at before the first empty one
Gap(h) == CHOOSE n : First(h, Zeros, n)

LEMMA GapIs ==
  ASSUME IndexInv, NEW h \in Nat
  PROVE  First(h, Zeros, Gap(h)) /\ Gap(h) \in Nat /\ Gap(h) < indeces_size
<1>1. \E n : First(h, Zeros, n)
  <2>1. Zeros \in SUBSET Slots /\ Zeros # {}
    BY DEF IndexInv, Zeros
  <2> QED BY <2>1, FirstExists
<1>2. First(h, Zeros, Gap(h))
  BY <1>1 DEF Gap
<1> QED BY <1>2, IndexConstants DEF First

\* the entries among M that a search for h meets
Met(h, M) == {indeces[Probed(h, k)] - 2 : k \in 0 .. Gap(h) - 1} \cap M

\* what find_hash returns when it finds something
IsFound(f, M) ==
  /\ f.entry \in M /\ f.hash \in Slots /\ f = [entry |-> f.entry, hash |-> f.hash]
  /\ indeces[f.hash] = f.entry + 2

\* From one slot on there is as far to go as is left.
LEMMA GapAfter ==
  ASSUME IndexInv, NEW h \in Nat, NEW n \in 0 .. Gap(h) - 1
  PROVE  /\ \A k \in Nat : Probed(Probed(h, n) + 1, k) = Probed(h, n + 1 + k)
         /\ Gap(Probed(h, n) + 1) = Gap(h) - n - 1
<1> DEFINE g == Gap(h)
           i == Probed(h, n)
           d == g - n - 1
<1>1. g \in Nat /\ g < indeces_size /\ n \in Nat /\ d \in Nat /\ First(h, Zeros, g) /\ n + 1 + d = g
  BY GapIs
<1> HIDE DEF g
<1>2. i \in Slots /\ i \in Nat /\ i + 1 \in Nat /\ indeces_size \in Nat \ {0}
  <2>1. i \in Slots
    BY <1>1, IndexConstants
  <2> HIDE DEF i
  <2>2. i \in Nat
    BY <2>1, IndexConstants
  <2> QED BY <2>1, <2>2, IndexConstants
<1>3. ASSUME NEW k \in Nat PROVE Probed(i + 1, k) = Probed(h, n + 1 + k)
  <2> DEFINE a == h + n
             e == 1 + k
  <2>1. a \in Nat /\ e \in Nat
    BY <1>1
  <2> HIDE DEF a, e
  <2>2. ((a % indeces_size) + e) % indeces_size = (a + e) % indeces_size
    BY <1>2, <2>1, ModAdd
  <2>3. i = a % indeces_size
    BY DEF a, Probed
  <2>4. i + 1 + k = i + e /\ h + (n + 1 + k) = a + e
    BY <1>1, <1>2 DEF a, e
  <2> HIDE DEF i
  <2> QED BY <2>2, <2>3, <2>4 DEF Probed
<1> HIDE DEF i, d
<1>4. First(i + 1, Zeros, d)
  <2>1. d \in Slots
    BY <1>1, <1>2 DEF Slots, d
  <2>2. Probed(i + 1, d) \in Zeros
    <3>1. Probed(i + 1, d) = Probed(h, n + 1 + d)
      BY <1>1, <1>3
    <3> QED BY <1>1, <3>1 DEF First
  <2>3. ASSUME NEW m \in 0 .. d - 1 PROVE Probed(i + 1, m) \notin Zeros
    <3> DEFINE q == n + 1 + m
    <3>1. m \in Nat /\ q \in 0 .. g - 1
      BY <1>1 DEF d
    <3>2. Probed(i + 1, m) = Probed(h, q)
      BY <1>3, <3>1
    <3> HIDE DEF q
    <3> QED BY <1>1, <3>1, <3>2 DEF First
  <2> QED BY <2>1, <2>2, <2>3 DEF First
<1>5. Gap(i + 1) = d
  <2>1. First(i + 1, Zeros, Gap(i + 1))
    BY <1>2, GapIs
  <2> QED BY <1>4, <2>1, FirstUnique
<1> QED BY <1>3, <1>5 DEF i, d, g

\* find_hash finds the first of what a search meets, if it meets anything.
LEMMA FindHash ==
  ASSUME IndexInv, NEW h \in Nat, NEW M \in SUBSET Row, NEW f, f = Index!find_hash(h, M)
  PROVE  \/ f = Index!NotFound /\ Met(h, M) = {}
         \/ /\ IsFound(f, M)
            /\ Gap(f.hash + 1) \in Nat /\ Gap(f.hash + 1) < Gap(h)
            /\ Met(h, M) = {f.entry} \cup Met(f.hash + 1, M)
<1> DEFINE S == Index!EmptyOr(M)
           g == Gap(h)
<1>1. indeces \in [Slots -> Nat] /\ Zeros # {}
  BY DEF IndexInv
<1>2. S = {s \in Slots : indeces[s] = 0 \/ indeces[s] - 2 \in M}
  BY <1>1 DEF Index!EmptyOr
<1> HIDE DEF S
<1>3. PICK n : First(h, S, n) /\ Index!FirstSlot(h, S) = Probed(h, n)
  <2>1. S \in SUBSET Slots /\ S # {}
    BY <1>1, <1>2 DEF Zeros
  <2> QED BY <2>1, FirstSlotIs
<1> DEFINE i == Probed(h, n)
<1>4. n \in Nat /\ i \in Slots /\ i \in S /\ \A m \in 0 .. n - 1 : Probed(h, m) \notin S
  BY <1>2, <1>3, IndexConstants DEF First
<1>5. f = IF indeces[i] = 0 THEN Index!NotFound ELSE [entry |-> indeces[i] - 2, hash |-> i]
  BY <1>3 DEF Index!find_hash, S
<1>6. g \in Nat /\ First(h, Zeros, g) /\ \A k \in Nat : Probed(h, k) \in Slots
  BY GapIs, IndexConstants
<1>7. n <= g
  <2>1. Probed(h, g) \in S
    BY <1>2, <1>6 DEF First, Zeros
  <2>2. g \notin 0 .. n - 1
    BY <1>4, <2>1
  <2> QED BY <1>4, <1>6, <2>2
<1>8. \A k \in 0 .. n - 1 : indeces[Probed(h, k)] - 2 \notin M
  <2>1. \A k \in 0 .. n - 1 : k \in Nat
    OBVIOUS
  <2> QED BY <1>2, <1>4, <1>6, <2>1
<1> HIDE DEF g, i
<1>9. CASE indeces[i] = 0
  <2>1. n \notin 0 .. g - 1
    BY <1>4, <1>6, <1>9 DEF First, Zeros, i
  <2>2. n = g
    BY <1>4, <1>6, <1>7, <2>1
  <2>3. Met(h, M) = {}
    BY <1>8, <2>2 DEF Met, g
  <2> QED BY <1>5, <1>9, <2>3
<1>10. CASE indeces[i] # 0
  <2>1. indeces[i] - 2 \in M
    BY <1>2, <1>4, <1>10
  <2>2. n # g
    BY <1>6, <1>10 DEF First, Zeros, i
  <2>3. n \in 0 .. g - 1
    BY <1>4, <1>6, <1>7, <2>2
  <2>4. f = [entry |-> indeces[i] - 2, hash |-> i] /\ f.entry = indeces[i] - 2 /\ f.hash = i
    BY <1>5, <1>10
  <2>5. indeces[i] \in Nat
    BY <1>1, <1>4
  <2>6. IsFound(f, M)
    <3>1. indeces[f.hash] = f.entry + 2
      BY <2>4, <2>5
    <3> QED BY <1>4, <2>1, <2>4, <3>1 DEF IsFound
  <2>7. /\ \A k \in Nat : Probed(i + 1, k) = Probed(h, n + 1 + k)
        /\ Gap(i + 1) = g - n - 1
    BY <2>3, GapAfter DEF g, i
  <2>8. Gap(i + 1) \in Nat /\ Gap(i + 1) < g
    BY <1>4, <1>6, <2>3, <2>7
  <2> DEFINE d == Gap(i + 1)
  <2>9. d \in Nat /\ n + 1 + d = g
    BY <1>4, <1>6, <2>7, <2>8
  <2> HIDE DEF d
  <2>10. ASSUME NEW r \in Met(h, M) PROVE r \in {f.entry} \cup Met(i + 1, M)
    <3>1. PICK k \in 0 .. g - 1 : r = indeces[Probed(h, k)] - 2 /\ r \in M
      BY <2>10 DEF Met, g
    <3>2. k \notin 0 .. n - 1
      BY <1>8, <3>1
    <3>3. CASE k = n
      BY <2>4, <3>1, <3>3 DEF i
    <3>4. CASE k # n
      <4> DEFINE m == k - n - 1
      <4>1. m \in 0 .. d - 1 /\ m \in Nat /\ n + 1 + m = k
        BY <1>4, <1>6, <2>9, <3>2, <3>4
      <4> HIDE DEF m
      <4>2. Probed(i + 1, m) = Probed(h, k)
        BY <2>7, <4>1
      <4> QED BY <3>1, <4>1, <4>2 DEF Met, d
    <3> QED BY <3>3, <3>4
  <2>11. f.entry \in Met(h, M)
    BY <2>1, <2>3, <2>4 DEF Met, g, i
  <2>12. ASSUME NEW r \in Met(i + 1, M) PROVE r \in Met(h, M)
    <3>1. PICK k \in 0 .. d - 1 : r = indeces[Probed(i + 1, k)] - 2 /\ r \in M
      BY <2>12 DEF Met, d
    <3> DEFINE m == n + 1 + k
    <3>2. k \in Nat /\ m \in 0 .. g - 1
      BY <1>4, <1>6, <2>9
    <3>3. Probed(i + 1, k) = Probed(h, m)
      BY <2>7, <3>2
    <3> HIDE DEF m
    <3> QED BY <3>1, <3>2, <3>3 DEF Met, g
  <2>13. Met(h, M) = {f.entry} \cup Met(i + 1, M)
    BY <2>10, <2>11, <2>12
  <2> QED BY <2>4, <2>6, <2>8, <2>13 DEF g
<1> QED BY <1>9, <1>10

\* A search that goes on behind an entry does not meet it again.
LEMMA NotAgain ==
  ASSUME IndexInv, NEW M \in SUBSET Row, NEW f, IsFound(f, M)
  PROVE  f.entry \notin Met(f.hash + 1, M)
<1> DEFINE i == f.hash
           N == indeces_size
<1>1. i \in Slots /\ i \in Nat /\ i < N /\ i + 1 \in Nat /\ N \in Nat \ {0}
      /\ indeces[i] = f.entry + 2 /\ f.entry \in Nat
  <2>1. i \in Slots /\ indeces[i] = f.entry + 2 /\ f.entry \in M
    BY DEF IsFound
  <2>2. f.entry \in Nat
    BY <2>1, IndexConstants
  <2> HIDE DEF i
  <2>3. i \in Nat /\ i < N
    BY <2>1, IndexConstants
  <2> QED BY <2>1, <2>2, <2>3, IndexConstants
<1> HIDE DEF i, N
<1>2. SUFFICES ASSUME NEW k \in 0 .. Gap(i + 1) - 1, f.entry = indeces[Probed(i + 1, k)] - 2
               PROVE  FALSE
  BY DEF Met, i
<1> DEFINE j == Probed(i + 1, k)
<1>3. Gap(i + 1) \in Nat /\ Gap(i + 1) < N /\ k \in Nat /\ k + 1 < N
  <2>1. Gap(i + 1) \in Nat /\ Gap(i + 1) < N
    BY <1>1, GapIs DEF N
  <2> QED BY <1>1, <2>1
<1>4. j \in Slots
  BY <1>1, <1>3, IndexConstants
<1>5. indeces[j] \in Nat /\ indeces[i] > 1 /\ indeces[i] = indeces[j]
  <2>1. indeces[j] \in Nat
    BY <1>4 DEF IndexInv
  <2> HIDE DEF j
  <2> QED BY <1>1, <1>2, <2>1 DEF j
<1>6. i = j
  BY <1>1, <1>4, <1>5 DEF IndexInv
<1> DEFINE x == i + 1 + k
<1>7. x \in Nat /\ i <= x /\ x - i < N /\ x # i
  BY <1>1, <1>3
<1>8. x % N = i % N
  <2>1. i % N = i
    <3>1. i \in 0 .. N - 1
      BY <1>1
    <3> QED BY <1>1, <3>1, ModNear
  <2>2. j = x % N
    BY DEF Probed, N
  <2> QED BY <1>6, <2>1, <2>2
<1> HIDE DEF x
<1> QED BY <1>1, <1>7, <1>8, SameRemainder

-----------------------------------------------------------------------------
(* All that is found *)

\* v has every member of S, once
Enumerates(v, S) == v \in Seq(Row) /\ Distinct(v) /\ {v[i] : i \in 1 .. Len(v)} = S

LEMMA EnumeratesNothing == Enumerates(<<>>, {})
<1>1. <<>> \in Seq(Row) /\ Len(<<>>) = 0 /\ 1 .. 0 = {}
  OBVIOUS
<1> QED BY <1>1 DEF Enumerates, Distinct

LEMMA EnumeratesMore ==
  ASSUME NEW v, NEW S, Enumerates(v, S), NEW r \in Row, r \notin S
  PROVE  Enumerates(<<r>> \o v, {r} \cup S)
<1> DEFINE n == Len(v)
           u == <<r>>
           w == u \o v
<1>1. v \in Seq(Row) /\ n \in Nat /\ (\A i, j \in 1 .. n : v[i] = v[j] => i = j) /\ {v[i] : i \in 1 .. n} = S
  BY DEF Enumerates, Distinct
<1>2. u \in Seq(Row) /\ Len(u) = 1 /\ u[1] = r
  OBVIOUS
<1>3. w \in Seq(Row) /\ Len(w) = Len(u) + Len(v)
      /\ \A i \in 1 .. Len(u) + Len(v) : w[i] = IF i <= Len(u) THEN u[i] ELSE v[i - Len(u)]
  <2>1. u \in Seq(Row) /\ v \in Seq(Row)
    BY <1>1, <1>2
  <2> HIDE DEF u, n
  <2> QED BY <2>1, ConcatProperties
<1> HIDE DEF w, u
<1>4. Len(w) = n + 1 /\ \A i \in 1 .. n + 1 : w[i] = IF i <= 1 THEN u[i] ELSE v[i - 1]
  BY <1>1, <1>2, <1>3
<1> HIDE DEF n
<1>5. w[1] = r
  <2>1. 1 \in 1 .. n + 1 /\ 1 <= 1
    BY <1>1
  <2> QED BY <1>2, <1>4, <2>1
<1>6. ASSUME NEW i \in 1 .. n + 1, i # 1 PROVE i - 1 \in 1 .. n /\ w[i] = v[i - 1]
  <2>1. i - 1 \in 1 .. n /\ ~(i <= 1)
    BY <1>1, <1>6
  <2> QED BY <1>4, <2>1
<1>7. ASSUME NEW i \in 1 .. n PROVE i + 1 \in 1 .. n + 1 /\ w[i + 1] = v[i]
  <2> DEFINE k == i + 1
  <2>1. k \in 1 .. n + 1 /\ k # 1 /\ k - 1 = i
    BY <1>1
  <2> HIDE DEF k
  <2>2. w[k] = v[k - 1]
    BY <1>6, <2>1
  <2> QED BY <2>1, <2>2 DEF k
<1>8. {w[i] : i \in 1 .. n + 1} = {r} \cup S
  <2>1. ASSUME NEW i \in 1 .. n + 1 PROVE w[i] \in {r} \cup S
    BY <1>1, <1>5, <1>6
  <2>2. ASSUME NEW x \in S PROVE \E i \in 1 .. n + 1 : w[i] = x
    <3>1. PICK i \in 1 .. n : v[i] = x
      BY <1>1
    <3> QED BY <1>7, <3>1
  <2>3. 1 \in 1 .. n + 1
    BY <1>1
  <2> QED BY <1>5, <2>1, <2>2, <2>3
<1>9. ASSUME NEW i \in 1 .. n + 1, NEW j \in 1 .. n + 1, w[i] = w[j] PROVE i = j
  <2>1. CASE i = 1 /\ j = 1
    BY <2>1
  <2>2. CASE i = 1 /\ j # 1
    BY <1>1, <1>5, <1>6, <1>9, <2>2
  <2>3. CASE i # 1 /\ j = 1
    BY <1>1, <1>5, <1>6, <1>9, <2>3
  <2>4. CASE i # 1 /\ j # 1
    <3>1. i - 1 \in 1 .. n /\ j - 1 \in 1 .. n /\ v[i - 1] = v[j - 1]
      BY <1>6, <1>9, <2>4
    <3>2. i - 1 = j - 1
      BY <1>1, <3>1
    <3> QED BY <1>1, <3>2
  <2> QED BY <2>1, <2>2, <2>3, <2>4
<1>10. Enumerates(w, {r} \cup S)
  BY <1>3, <1>4, <1>8, <1>9 DEF Enumerates, Distinct
<1> QED BY <1>10 DEF w, u

LEMMA EnumeratesCount ==
  ASSUME NEW v, NEW S, Enumerates(v, S)
  PROVE  Cardinality(S) = Len(v) /\ DOMAIN v = 1 .. Len(v)
<1> DEFINE n == Len(v)
<1>1. n \in Nat /\ DOMAIN v = 1 .. n /\ v \in [1 .. n -> S]
      /\ (\A i, j \in 1 .. n : v[i] = v[j] => i = j) /\ \A x \in S : \E i \in 1 .. n : v[i] = x
  BY DEF Enumerates, Distinct
<1> HIDE DEF n
<1>2. v \in Bijection(1 .. n, S)
  <2>1. v \in Injection(1 .. n, S)
    BY <1>1 DEF Injection, IsInjective
  <2>2. v \in Surjection(1 .. n, S)
    BY <1>1 DEF Surjection
  <2> QED BY <2>1, <2>2 DEF Bijection
<1>3. Cardinality(S) = n
  BY <1>1, <1>2, FS_CountingElements DEF ExistsBijection
<1> QED BY <1>1, <1>3 DEF n

\* find_hash and then find_next_hash find what a search meets.
LEMMA AllFoundIs ==
  ASSUME IndexInv, NEW hash \in Nat,
         NEW M, M = {r \in DOMAIN rows : rows[r] = hash}
  PROVE  Enumerates(Index!AllFound(hash), Met(hash, M))
<1> DEFINE none == Index!NotFound
           D == [entry : Row \cup {-1}, hash : -1 .. indeces_size - 1]
           Stop == {x \in D : x = none}
           out == [x \in D |-> <<>>]
           item == [x \in D |-> x.entry]
           next == [x \in D |-> Index!find_hash(x.hash + 1, M)]
           m == [x \in D |-> IF x = none THEN 0 ELSE 1 + Gap(x.hash + 1)]
           Walk(w) == w = [x \in D |-> IF x = none THEN <<>>
                                       ELSE <<x.entry>> \o w[Index!find_next_hash(x, M)]]
           g == CHOOSE w : Walk(w)
           listed == TRUE
           first == Index!find_hash(hash, M)
           N == indeces_size
<1>1. M \in SUBSET Row /\ N \in Nat \ {0} /\ \A r \in Row : r \in Nat
  BY IndexConstants DEF IndexInv
<1>2. none = [entry |-> -1, hash |-> -1] /\ none \in D
  BY <1>1 DEF Index!NotFound
<1>3. \A x \in D : x.hash + 1 \in Nat /\ x.entry \in Row \cup {-1}
  BY <1>1
<1>4. ASSUME NEW f, IsFound(f, M) PROVE f \in D /\ f # none
  <2>1. f = [entry |-> f.entry, hash |-> f.hash] /\ f.entry \in Row /\ f.hash \in 0 .. N - 1
    BY <1>1, <1>4 DEF IsFound, Slots
  <2>2. f.entry # -1
    BY <1>1, <2>1
  <2>3. f.hash \in -1 .. N - 1
    BY <1>1, <2>1
  <2> QED BY <1>2, <2>1, <2>2, <2>3
<1>5. \A h \in Nat : LET f == Index!find_hash(h, M) IN
        \/ f = none /\ Met(h, M) = {}
        \/ /\ IsFound(f, M)
           /\ Gap(f.hash + 1) \in Nat /\ Gap(f.hash + 1) < Gap(h)
           /\ Met(h, M) = {f.entry} \cup Met(f.hash + 1, M)
  <2> TAKE h \in Nat
  <2> QED BY <1>1, FindHash
<1>6. Index!AllFound(hash) = g[first]
  BY DEF Index!AllFound
<1>7. \A x \in D : Index!find_next_hash(x, M) = Index!find_hash(x.hash + 1, M)
  BY DEF Index!find_next_hash
<1>8. \A h \in Nat : Gap(h) \in Nat /\ Gap(h) < N
  BY GapIs
<1> HIDE DEF none
<1>9. Descends(D, Stop, next, m, N)
  <2>1. m \in [D -> 0 .. N]
    <3>1. ASSUME NEW x \in D PROVE (IF x = none THEN 0 ELSE 1 + Gap(x.hash + 1)) \in 0 .. N
      <4> DEFINE k == Gap(x.hash + 1)
      <4>1. k \in Nat /\ k < N
        BY <1>3, <1>8
      <4> HIDE DEF k
      <4>2. 0 \in 0 .. N /\ 1 + k \in 0 .. N
        BY <1>1, <4>1
      <4> QED BY <4>2 DEF k
    <3> HIDE DEF D, N
    <3> QED BY <3>1
  <2>2. ASSUME NEW x \in D \ Stop PROVE next[x] \in D /\ m[next[x]] < m[x]
    <3> DEFINE h == x.hash + 1
               f == Index!find_hash(h, M)
    <3>1. x \in D /\ x # none /\ h \in Nat
      BY <1>3
    <3>2. next[x] = f /\ m[x] = 1 + Gap(h)
      BY <3>1
    <3> HIDE DEF h
    <3>3. Gap(h) \in Nat
      BY <1>8, <3>1
    <3>4. CASE f = none
      <4>1. f \in D /\ m[f] = 0
        BY <1>2, <3>4
      <4> QED BY <3>2, <3>3, <4>1
    <3>5. CASE IsFound(f, M) /\ Gap(f.hash + 1) \in Nat /\ Gap(f.hash + 1) < Gap(h)
      <4> HIDE DEF f, D
      <4>1. f \in D /\ f # none
        BY <1>4, <3>5
      <4>2. m[f] = 1 + Gap(f.hash + 1)
        BY <4>1
      <4> DEFINE k == Gap(f.hash + 1)
                 l == Gap(h)
      <4>3. k \in Nat /\ l \in Nat /\ k < l /\ m[f] = 1 + k /\ m[x] = 1 + l
        BY <3>2, <3>3, <3>5, <4>2
      <4> HIDE DEF k, l, m
      <4>4. m[f] < m[x]
        BY <4>3
      <4> QED BY <3>2, <4>1, <4>4
    <3> QED BY <1>5, <3>1, <3>4, <3>5
  <2> HIDE DEF m, next, Stop, D
  <2> QED BY <1>1, <2>1, <2>2 DEF Descends
<1>10. \A w : IsWalk(D, Stop, out, next, listed, item, w) <=> Walk(w)
  <2> TAKE w
  <2>1. \A x \in D : (IF x \in Stop THEN out[x] ELSE Passing(listed, item, x, w[next[x]]))
                       = IF x = none THEN <<>> ELSE <<x.entry>> \o w[Index!find_next_hash(x, M)]
    BY <1>7 DEF Passing
  <2> HIDE DEF Stop, out, next, item, listed, D
  <2> QED BY <2>1 DEF IsWalk
<1>11. IsWalk(D, Stop, out, next, listed, item, g)
  <2> HIDE DEF D, Stop, out, next, m, item, listed, N
  <2>1. \E w : Walk(w)
    <3> HIDE DEF Walk
    <3> QED BY <1>9, <1>10, WalkExists
  <2>2. Walk(g)
    <3> HIDE DEF Walk
    <3> QED BY <2>1
  <2> HIDE DEF Walk, g
  <2> QED BY <1>10, <2>2
<1> HIDE DEF g
<1> DEFINE E == Row \cup {-1}
           P == {p \in D \X Seq(E) :
                   /\ p[1] = none => p[2] = <<>>
                   /\ IsFound(p[1], M) =>
                        Enumerates(p[2], {p[1].entry} \cup Met(p[1].hash + 1, M))}
<1>12. ASSUME NEW x \in D, NEW v \in Seq(E)
       PROVE  <<x, v>> \in P <=> /\ x = none => v = <<>>
                                 /\ IsFound(x, M) => Enumerates(v, {x.entry} \cup Met(x.hash + 1, M))
  <2> HIDE DEF D, E
  <2> QED OBVIOUS
<1>13. \A x \in D \cap Stop : <<x, out[x]>> \in P
  <2> SUFFICES ASSUME NEW x \in D, x = none PROVE <<x, out[x]>> \in P
    OBVIOUS
  <2>1. out[x] = <<>> /\ out[x] \in Seq(E)
    OBVIOUS
  <2>2. ~IsFound(x, M)
    BY <1>4
  <2> HIDE DEF P, D, E, out
  <2> QED BY <1>12, <2>1, <2>2
<1>14. ASSUME NEW x \in D \ Stop, NEW v, <<next[x], v>> \in P
       PROVE  <<x, Passing(listed, item, x, v)>> \in P
  <2> DEFINE h == x.hash + 1
             f == Index!find_hash(h, M)
             u == <<x.entry>>
  <2>1. x \in D /\ x # none /\ h \in Nat /\ next[x] = f /\ x.entry \in E
    BY <1>3
  <2>2. v \in Seq(E) /\ f \in D
    <3> HIDE DEF E, D, f, next
    <3> QED BY <1>14, <2>1
  <2>3. Passing(listed, item, x, v) = u \o v
    <3> HIDE DEF D
    <3> QED BY <2>1 DEF Passing
  <2>4. u \in Seq(E) /\ u \o v \in Seq(E)
    <3> HIDE DEF E, f, h
    <3>1. u \in Seq(E)
      BY <2>1
    <3> HIDE DEF u
    <3> QED BY <2>2, <3>1, ConcatProperties
  <2>5. /\ f = none => v = <<>>
        /\ IsFound(f, M) => Enumerates(v, {f.entry} \cup Met(f.hash + 1, M))
    <3> HIDE DEF P, E, D, f, next
    <3> QED BY <1>12, <1>14, <2>1, <2>2
  <2>6. ASSUME IsFound(x, M) PROVE Enumerates(u \o v, {x.entry} \cup Met(h, M))
    <3>1. x.entry \in Row /\ x.entry \notin Met(h, M)
      BY <1>1, <2>6, NotAgain DEF IsFound
    <3>2. Enumerates(v, Met(h, M))
      <4> HIDE DEF f, h
      <4>1. \/ f = none /\ Met(h, M) = {}
            \/ IsFound(f, M) /\ Met(h, M) = {f.entry} \cup Met(f.hash + 1, M)
        BY <1>5, <2>1 DEF f
      <4> QED BY <2>5, <4>1, EnumeratesNothing
    <3> HIDE DEF h
    <3> QED BY <3>1, <3>2, EnumeratesMore
  <2> HIDE DEF P, D, E, u, h, f
  <2>7. <<x, u \o v>> \in P
    BY <1>12, <2>1, <2>4, <2>6 DEF h
  <2> QED BY <2>3, <2>7
<1>15. first \in D /\ \/ first = none /\ Met(hash, M) = {}
                      \/ IsFound(first, M) /\ Met(hash, M) = {first.entry} \cup Met(first.hash + 1, M)
  <2> HIDE DEF D, first
  <2> QED BY <1>2, <1>4, <1>5 DEF first
<1>16. <<first, g[first]>> \in P
  <2> HIDE DEF P, D, E, Stop, out, item, next, m, N, listed, first
  <2>1. \A x \in D \ Stop : \A v : <<next[x], v>> \in P => <<x, Passing(listed, item, x, v)>> \in P
    BY <1>14
  <2>2. StepsKeep(D, Stop, out, next, listed, item, P)
    BY <1>13, <2>1 DEF StepsKeep
  <2> QED BY <1>9, <1>11, <1>15, <2>2, WalkKeeps
<1>17. /\ first = none => g[first] = <<>>
       /\ IsFound(first, M) => Enumerates(g[first], {first.entry} \cup Met(first.hash + 1, M))
  <2> HIDE DEF E, D, first
  <2>1. g[first] \in Seq(E)
    BY <1>16
  <2> HIDE DEF P
  <2> QED BY <1>12, <1>15, <1>16, <2>1
<1> HIDE DEF first
<1> QED BY <1>6, <1>15, <1>17, EnumeratesNothing DEF first

-----------------------------------------------------------------------------
(* Inserting and removing *)

LEMMA CountIndex == \A S : Index!Cardinality(S) = Cardinality(S)
BY DEF Index!Cardinality, Cardinality

LEMMA IndexSound == IndexInv => Index!RowsFound
<1> SUFFICES ASSUME IndexInv, NEW h \in Hash
             PROVE  LET found == Index!AllFound(h)
                        M == {r \in DOMAIN rows : rows[r] = h}
                    IN  /\ {found[i] : i \in DOMAIN found} = M
                        /\ Len(found) = Cardinality(M)
  BY CountIndex DEF Index!RowsFound
<1> DEFINE found == Index!AllFound(h)
           M == {r \in DOMAIN rows : rows[r] = h}
           g == Gap(h)
<1>1. h \in Nat /\ g \in Nat /\ First(h, Zeros, g)
  BY IndexConstants, GapIs
<1> HIDE DEF g
<1>2. ASSUME NEW r \in M PROVE r \in Met(h, M)
  <2>1. rows[r] = h /\ r \in Nat
    BY IndexConstants DEF IndexInv
  <2>2. PICK k \in Slots : /\ indeces[Probed(h, k)] = r + 2
                           /\ \A m \in 0 .. k - 1 : indeces[Probed(h, m)] # 0
    BY <2>1 DEF IndexInv, IsReached
  <2>3. k # g /\ g \notin 0 .. k - 1 /\ k \in Nat
    <3>1. indeces[Probed(h, g)] = 0
      BY <1>1 DEF First, Zeros
    <3>2. r + 2 # 0
      BY <2>1
    <3> QED BY <2>2, <3>1, <3>2, IndexConstants
  <2>4. k \in 0 .. g - 1
    BY <1>1, <2>3
  <2>5. indeces[Probed(h, k)] - 2 = r
    BY <2>1, <2>2
  <2> QED BY <2>4, <2>5 DEF Met, g
<1>3. Met(h, M) = M
  BY <1>2 DEF Met
<1>4. Enumerates(found, M)
  BY <1>1, <1>3, AllFoundIs
<1> HIDE DEF found, M
<1>5. Cardinality(M) = Len(found) /\ DOMAIN found = 1 .. Len(found)
  BY <1>4, EnumeratesCount
<1>6. {found[i] : i \in 1 .. Len(found)} = M
  BY <1>4 DEF Enumerates
<1>7. {found[i] : i \in DOMAIN found} = M /\ Len(found) = Cardinality(M)
  BY <1>5, <1>6
<1> QED BY <1>7 DEF found, M

LEMMA IndexInit == Index!Init => IndexInv
<1> SUFFICES ASSUME Index!Init PROVE IndexInv
  OBVIOUS
<1>1. indeces = [i \in Slots |-> 0] /\ DOMAIN rows = {}
  BY DEF Index!Init, Slots
<1>2. 0 \in Slots
  BY IndexConstants DEF Slots
<1>3. Zeros # {}
  BY <1>1, <1>2 DEF Zeros
<1> QED BY <1>1, <1>3 DEF IndexInv

\* What is written over one slot leaves the entries of the others reached.
LEMMA StillReached ==
  ASSUME IndexInv, NEW i \in Slots, NEW e \in Nat \ {0}, indeces' = [indeces EXCEPT ![i] = e],
         NEW r \in DOMAIN rows, indeces[i] # r + 2, rows'[r] = rows[r]
  PROVE  IsReached(r)'
<1>1. indeces \in [Slots -> Nat] /\ rows[r] \in Nat
  BY IndexConstants DEF IndexInv
<1>2. PICK k \in Slots : /\ indeces[Probed(rows[r], k)] = r + 2
                         /\ \A m \in 0 .. k - 1 : indeces[Probed(rows[r], m)] # 0
  BY DEF IndexInv, IsReached
<1>3. k \in Nat /\ \A m \in Nat : Probed(rows[r], m) \in Slots
  BY <1>1, IndexConstants
<1>4. \A j \in Slots : indeces'[j] = IF j = i THEN e ELSE indeces[j]
  BY <1>1
<1>5. indeces'[Probed(rows[r], k)] = r + 2
  BY <1>2, <1>3, <1>4
<1>6. ASSUME NEW m \in 0 .. k - 1 PROVE indeces'[Probed(rows[r], m)] # 0
  <2>1. m \in Nat
    OBVIOUS
  <2> QED BY <1>2, <1>3, <1>4, <2>1
<1> QED BY <1>2, <1>5, <1>6 DEF IsReached

LEMMA InsertRow ==
  ASSUME IndexInv, NEW r \in Row, NEW h \in Hash, Index!Insert(r, h)
  PROVE  IndexInv'
<1> DEFINE S == {s \in DOMAIN indeces : indeces[s] <= 1}
           i == Index!FirstSlot(h, S)
<1>1. indeces \in [Slots -> Nat] /\ Zeros # {} /\ h \in Nat /\ r \in Nat /\ r \notin DOMAIN rows
  BY IndexConstants DEF IndexInv, Index!Insert
<1>2. PICK n : First(h, S, n) /\ i = Probed(h, n)
  <2>1. S \in SUBSET Slots
    BY <1>1
  <2>2. S # {}
    BY <1>1 DEF Zeros
  <2> HIDE DEF S
  <2> QED BY <1>1, <2>1, <2>2, FirstSlotIs
<1>3. /\ indeces' = [indeces EXCEPT ![i] = r + 2]
      /\ indeces[i] = 0 => Index!Spare > 1
      /\ rows' = [s \in DOMAIN rows \cup {r} |-> IF s = r THEN h ELSE rows[s]]
  BY DEF Index!Insert, Index!insert_hash
<1>4. n \in Slots /\ n \in Nat /\ i \in Slots /\ indeces[i] <= 1
      /\ \A m \in 0 .. n - 1 : Probed(h, m) \notin S
  BY <1>1, <1>2, IndexConstants DEF First
<1> HIDE DEF i
<1>5. \A j \in Slots : indeces'[j] = IF j = i THEN r + 2 ELSE indeces[j]
  BY <1>1, <1>3
<1>6. indeces' \in [Slots -> Nat]
  <2>1. r + 2 \in Nat
    BY <1>1
  <2> QED BY <1>1, <1>3, <2>1
<1>7. ASSUME NEW s \in DOMAIN rows' PROVE s \in Row /\ rows'[s] \in Hash /\ IsReached(s)'
  <2>1. CASE s = r
    <3>1. rows'[s] = h
      BY <1>3, <2>1
    <3>2. indeces'[Probed(h, n)] = s + 2
      BY <1>2, <1>4, <1>5, <2>1 DEF i
    <3>3. ASSUME NEW m \in 0 .. n - 1 PROVE indeces'[Probed(h, m)] # 0
      <4>1. m \in Nat /\ Probed(h, m) \in Slots
        BY <1>1, IndexConstants
      <4>2. indeces[Probed(h, m)] # 0
        BY <1>1, <1>4, <4>1
      <4> QED BY <1>1, <1>5, <4>1, <4>2
    <3> QED BY <1>4, <2>1, <3>1, <3>2, <3>3 DEF IsReached
  <2>2. CASE s # r
    <3>1. s \in DOMAIN rows /\ rows'[s] = rows[s]
      BY <1>3, <2>2
    <3>2. s \in Row /\ rows[s] \in Hash /\ s \in Nat
      BY <3>1, IndexConstants DEF IndexInv
    <3>3. indeces[i] # s + 2
      BY <1>1, <1>4, <3>2
    <3>4. r + 2 \in Nat \ {0}
      BY <1>1
    <3> QED BY <1>3, <1>4, <3>1, <3>2, <3>3, <3>4, StillReached
  <2> QED BY <2>1, <2>2
<1>8. ASSUME NEW j \in Slots, indeces'[j] > 1 PROVE indeces'[j] - 2 \in DOMAIN rows'
  <2>1. CASE j = i
    <3>1. indeces'[j] - 2 = r
      BY <1>1, <1>5, <2>1
    <3> QED BY <1>3, <3>1
  <2>2. CASE j # i
    <3>1. indeces'[j] = indeces[j]
      BY <1>5, <2>2
    <3>2. indeces[j] - 2 \in DOMAIN rows
      BY <1>8, <3>1 DEF IndexInv
    <3> QED BY <1>3, <3>1, <3>2
  <2> QED BY <2>1, <2>2
<1>9. \A j \in Slots : indeces[j] # r + 2
  <2> SUFFICES ASSUME NEW j \in Slots, indeces[j] = r + 2 PROVE FALSE
    OBVIOUS
  <2>1. indeces[j] > 1 /\ indeces[j] - 2 = r
    BY <1>1
  <2> QED BY <1>1, <2>1 DEF IndexInv
<1>10. ASSUME NEW j \in Slots, NEW k \in Slots, indeces'[j] > 1, indeces'[j] = indeces'[k]
       PROVE  j = k
  <2>1. CASE j # i /\ k # i
    <3>1. indeces'[j] = indeces[j] /\ indeces'[k] = indeces[k]
      BY <1>5, <2>1
    <3>2. indeces[j] > 1 /\ indeces[j] = indeces[k]
      BY <1>10, <3>1
    <3> QED BY <3>2 DEF IndexInv
  <2>2. CASE j = i \/ k = i
    BY <1>5, <1>9, <1>10, <2>2
  <2> QED BY <2>1, <2>2
<1>11. Zeros' # {}
  <2>1. PICK z \in Zeros : z # i
    <3>1. CASE indeces[i] # 0
      BY <1>1, <3>1 DEF Zeros
    <3>2. CASE indeces[i] = 0
      <4>1. Cardinality(Zeros) > 1
        <5>1. Zeros = {j \in DOMAIN indeces : indeces[j] = 0}
          BY <1>1 DEF Zeros
        <5> QED BY <1>3, <3>2, <5>1, CountIndex DEF Index!Spare
      <4>2. Zeros # {i}
        <5>1. Cardinality({i}) = 1
          BY FS_Singleton
        <5> QED BY <4>1, <5>1
      <4> QED BY <1>1, <4>2
    <3> QED BY <3>1, <3>2
  <2>2. z \in Slots /\ indeces[z] = 0
    BY DEF Zeros
  <2>3. indeces'[z] = 0
    BY <1>5, <2>1, <2>2
  <2> QED BY <2>2, <2>3 DEF Zeros
<1> QED BY <1>6, <1>7, <1>8, <1>10, <1>11 DEF IndexInv

LEMMA RemoveRow ==
  ASSUME IndexInv, NEW r \in DOMAIN rows, Index!Remove(r)
  PROVE  IndexInv'
<1> DEFINE h == rows[r]
           S == Index!EmptyOr({r})
           i == Index!FirstSlot(h, S)
<1>1. indeces \in [Slots -> Nat] /\ Zeros # {} /\ h \in Nat /\ r \in Nat
  BY IndexConstants DEF IndexInv
<1>2. S = {s \in Slots : indeces[s] = 0 \/ indeces[s] - 2 = r}
  BY <1>1 DEF Index!EmptyOr
<1>3. PICK n : First(h, S, n) /\ i = Probed(h, n)
  <2>1. S \in SUBSET Slots /\ S # {}
    BY <1>1, <1>2 DEF Zeros
  <2> HIDE DEF S
  <2> QED BY <1>1, <2>1, FirstSlotIs
<1>4. /\ indeces' = IF indeces[i] = 0 THEN indeces ELSE [indeces EXCEPT ![i] = 1]
      /\ rows' = [s \in DOMAIN rows \ {r} |-> rows[s]]
  BY DEF Index!Remove, Index!remove_hash
<1>5. PICK k \in Slots : /\ indeces[Probed(h, k)] = r + 2
                         /\ \A m \in 0 .. k - 1 : indeces[Probed(h, m)] # 0
  BY DEF IndexInv, IsReached
<1> HIDE DEF S, i
<1>6. n \in Nat /\ k \in Nat /\ i \in Slots /\ i \in S
      /\ (\A m \in 0 .. n - 1 : Probed(h, m) \notin S) /\ Probed(h, k) \in Slots
  BY <1>1, <1>3, IndexConstants DEF First
<1> HIDE DEF h
<1>7. indeces[i] = r + 2
  <2>1. Probed(h, k) \in S
    BY <1>1, <1>2, <1>5, <1>6
  <2>2. k \notin 0 .. n - 1
    BY <1>6, <2>1
  <2>3. n <= k
    BY <1>6, <2>2
  <2>4. CASE n = k
    BY <1>3, <1>5, <2>4
  <2>5. CASE n # k
    <3>1. n \in 0 .. k - 1
      BY <1>6, <2>3, <2>5
    <3>2. indeces[i] # 0 /\ indeces[i] \in Nat
      BY <1>1, <1>3, <1>5, <1>6, <3>1
    <3> QED BY <1>2, <1>6, <3>2
  <2> QED BY <2>4, <2>5
<1>8. indeces' = [indeces EXCEPT ![i] = 1]
  BY <1>1, <1>4, <1>7
<1>9. \A j \in Slots : indeces'[j] = IF j = i THEN 1 ELSE indeces[j]
  BY <1>1, <1>8
<1>10. indeces' \in [Slots -> Nat]
  BY <1>1, <1>8
<1>11. ASSUME NEW s \in DOMAIN rows' PROVE s \in Row /\ rows'[s] \in Hash /\ IsReached(s)'
  <2>1. s \in DOMAIN rows /\ s # r /\ rows'[s] = rows[s]
    BY <1>4
  <2>2. s \in Row /\ rows[s] \in Hash /\ s \in Nat
    BY <2>1, IndexConstants DEF IndexInv
  <2>3. indeces[i] # s + 2
    BY <1>1, <1>7, <2>1, <2>2
  <2>4. 1 \in Nat \ {0}
    OBVIOUS
  <2>5. IsReached(s)'
    BY <1>6, <1>8, <2>1, <2>3, <2>4, StillReached
  <2> QED BY <2>1, <2>2, <2>5
<1>12. \A j \in Slots : indeces'[j] > 1 => j # i /\ indeces'[j] = indeces[j]
  BY <1>9
<1>13. ASSUME NEW j \in Slots, indeces'[j] > 1 PROVE indeces'[j] - 2 \in DOMAIN rows'
  <2>1. j # i /\ indeces'[j] = indeces[j] /\ indeces[j] > 1
    BY <1>12, <1>13
  <2>2. indeces[j] - 2 \in DOMAIN rows /\ indeces[j] # indeces[i]
    BY <1>6, <2>1 DEF IndexInv
  <2>3. indeces[j] - 2 # r
    BY <1>1, <1>7, <2>2
  <2> QED BY <1>4, <2>1, <2>2, <2>3
<1>14. ASSUME NEW j \in Slots, NEW l \in Slots, indeces'[j] > 1, indeces'[j] = indeces'[l]
       PROVE  j = l
  <2>1. indeces'[j] = indeces[j] /\ indeces'[l] = indeces[l] /\ indeces[j] > 1
    BY <1>12, <1>14
  <2> QED BY <1>14, <2>1 DEF IndexInv
<1>15. Zeros' # {}
  <2>1. PICK z \in Zeros : TRUE
    BY <1>1
  <2>2. z \in Slots /\ indeces[z] = 0
    BY DEF Zeros
  <2>3. z # i
    BY <1>1, <1>7, <2>2
  <2> QED BY <1>9, <2>2, <2>3 DEF Zeros
<1> QED BY <1>10, <1>11, <1>13, <1>14, <1>15 DEF IndexInv

LEMMA IndexStep == IndexInv /\ Index!Next => IndexInv'
BY InsertRow, RemoveRow DEF Index!Next

-----------------------------------------------------------------------------
(* Buffers *)

\* The client's items are in the cells in front of the size, which is below the
\* capacity unless there are no cells.
BufferInv ==
  /\ size \in Nat /\ capacity \in Nat /\ is_alloced \in BOOLEAN
  /\ size < capacity \/ (size = 0 /\ capacity = 0)
  /\ DOMAIN data = 0 .. capacity - 1
  /\ pushed \in Seq(Item) /\ Len(pushed) = size
  /\ \A i \in 1 .. size : data[i - 1] = pushed[i]
  /\ blocks = IF is_alloced THEN 1 ELSE 0

LEMMA BufferConstants ==
  /\ Backings \subseteq Nat /\ FirstCapacity \in Nat /\ FirstCapacity > 0 /\ MaxPushed \in Nat
BY BufferAssumption

\* Doubling the least capacity ends above what is to fit.
LEMMA EnoughIs ==
  ASSUME NEW n \in 0 .. MaxPushed + 1
  PROVE  Buffers!Enough(n) \in Nat /\ Buffers!Enough(n) > n
<1> DEFINE N == 2 * (MaxPushed + FirstCapacity + 2)
           D == 1 .. N
           Stop == {c \in D : ~(c < n + 1)}
           out == [c \in D |-> c]
           item == out
           next == [c \in D |-> c * 2]
           m == [c \in D |-> N - c]
           listed == FALSE
           Walk(w) == w = [c \in D |-> IF c < n + 1 THEN w[c * 2] ELSE c]
           g == CHOOSE w : Walk(w)
<1>1. Buffers!Enough(n) = g[FirstCapacity]
  BY DEF Buffers!Enough
<1>2. /\ FirstCapacity \in Nat /\ FirstCapacity > 0 /\ MaxPushed \in Nat /\ n \in Nat /\ n <= MaxPushed + 1
      /\ N \in Nat /\ FirstCapacity \in D
  BY BufferConstants
<1>3. ASSUME NEW c \in D, c < n + 1 PROVE c * 2 \in D /\ c < c * 2
  BY <1>2, <1>3
<1>4. Descends(D, Stop, next, m, N)
  <2>1. \A c \in D : N - c \in 0 .. N
    BY <1>2
  <2>2. m \in [D -> 0 .. N]
    <3> HIDE DEF D, N
    <3> QED BY <2>1
  <2>3. ASSUME NEW c \in D \ Stop PROVE next[c] \in D /\ m[next[c]] < m[c]
    <3> DEFINE d == c * 2
    <3>1. c \in D /\ c < n + 1 /\ c \in Nat
      BY <1>2
    <3>2. d \in D /\ c < d /\ d \in Nat
      BY <1>3, <3>1
    <3>3. next[c] = d /\ m[d] = N - d /\ m[c] = N - c
      BY <3>1, <3>2
    <3> HIDE DEF d, N, D, m, next
    <3> QED BY <1>2, <3>1, <3>2, <3>3
  <2> HIDE DEF N, m, D, next, Stop
  <2> QED BY <1>2, <2>2, <2>3 DEF Descends
<1>5. \A w : IsWalk(D, Stop, out, next, listed, item, w) <=> Walk(w)
  <2> TAKE w
  <2>1. \A x \in D : (IF x \in Stop THEN out[x] ELSE Passing(listed, item, x, w[next[x]]))
                       = IF x < n + 1 THEN w[x * 2] ELSE x
    <3> HIDE DEF D
    <3> QED BY DEF Passing
  <2> HIDE DEF Stop, out, next, item, listed, D
  <2> QED BY <2>1 DEF IsWalk
<1>6. IsWalk(D, Stop, out, next, listed, item, g)
  <2> HIDE DEF D, Stop, out, next, m, item, listed, N
  <2>1. \E w : Walk(w)
    <3> HIDE DEF Walk
    <3> QED BY <1>4, <1>5, WalkExists
  <2>2. Walk(g)
    <3> HIDE DEF Walk
    <3> QED BY <2>1
  <2> HIDE DEF Walk, g
  <2> QED BY <1>5, <2>2
<1> HIDE DEF g
<1> DEFINE P == {p \in D \X Nat : p[2] > n}
<1>7. \A x \in D : \A u : <<x, u>> \in P <=> u \in Nat /\ u > n
  <2> HIDE DEF D
  <2> QED OBVIOUS
<1>8. \A x \in D \cap Stop : <<x, out[x]>> \in P
  <2> SUFFICES ASSUME NEW x \in D, ~(x < n + 1) PROVE <<x, out[x]>> \in P
    OBVIOUS
  <2>1. out[x] = x /\ x \in Nat /\ x > n
    BY <1>2
  <2> HIDE DEF P, D, out
  <2> QED BY <1>7, <2>1
<1>9. \A x \in D \ Stop : \A u : <<next[x], u>> \in P => <<x, Passing(listed, item, x, u)>> \in P
  <2> SUFFICES ASSUME NEW x \in D \ Stop, NEW u, <<next[x], u>> \in P PROVE <<x, u>> \in P
    BY DEF Passing
  <2>1. x \in D /\ next[x] \in D
    BY <1>3
  <2> HIDE DEF P, D, next
  <2> QED BY <1>7, <2>1
<1>10. <<FirstCapacity, g[FirstCapacity]>> \in P
  <2> HIDE DEF P, D, Stop, out, item, next, m, N, listed
  <2>1. StepsKeep(D, Stop, out, next, listed, item, P)
    BY <1>8, <1>9 DEF StepsKeep
  <2> QED BY <1>2, <1>4, <1>6, <2>1, WalkKeeps
<1> HIDE DEF P, D
<1> QED BY <1>1, <1>2, <1>7, <1>10

\* the capacity after a resize to n items
Room(n) == IF n >= capacity THEN Buffers!Enough(n) ELSE capacity

LEMMA RoomIs ==
  ASSUME BufferInv, NEW n \in 0 .. MaxPushed + 1
  PROVE  /\ Room(n) \in Nat /\ Room(n) > n
         /\ DOMAIN Buffers!Resized(n) = 0 .. Room(n) - 1
         /\ \A i \in 0 .. Room(n) - 1 : i # n /\ i < capacity /\ is_alloced => Buffers!Resized(n)[i] = data[i]
<1>1. capacity \in Nat /\ n \in Nat /\ Buffers!Enough(n) \in Nat /\ Buffers!Enough(n) > n
  BY EnoughIs, BufferConstants DEF BufferInv
<1>2. Room(n) \in Nat /\ Room(n) > n
  BY <1>1 DEF Room
<1>3. DOMAIN Buffers!Resized(n) = 0 .. Room(n) - 1
  BY DEF Buffers!Resized, Room
<1>4. ASSUME NEW i \in 0 .. Room(n) - 1, i # n, i < capacity, is_alloced
      PROVE  Buffers!Resized(n)[i] = data[i]
  <2>1. ~(i >= capacity)
    BY <1>1, <1>4
  <2> QED BY <1>4, <2>1 DEF Buffers!Resized, Room
<1> QED BY <1>2, <1>3, <1>4

\* Cells that begin with the items, and are as many as a resize makes, are a
\* buffer with them.
LEMMA TakeItems ==
  ASSUME BufferInv, NEW room \in 0 .. MaxPushed + 1, NEW n \in 0 .. room, NEW cells_, NEW items \in Seq(Item),
         Len(items) = n, DOMAIN cells_ = 0 .. Room(room) - 1,
         \A i \in 1 .. n : cells_[i - 1] = items[i],
         Buffers!Take(cells_, room, n), pushed' = items
  PROVE  BufferInv'
<1>1. Room(room) \in Nat /\ Room(room) > room /\ capacity \in Nat /\ is_alloced \in BOOLEAN
      /\ room \in Nat /\ n \in Nat /\ n <= room
  BY RoomIs, BufferConstants DEF BufferInv
<1>2. data' = cells_ /\ size' = n /\ capacity' = Room(room)
      /\ is_alloced' = (is_alloced \/ room >= capacity)
      /\ blocks' = IF room >= capacity /\ ~is_alloced THEN blocks + 1 ELSE blocks
  BY DEF Buffers!Take, Room
<1>3. is_alloced' \in BOOLEAN /\ blocks' = IF is_alloced' THEN 1 ELSE 0
  <2>1. blocks = IF is_alloced THEN 1 ELSE 0
    BY DEF BufferInv
  <2>2. CASE is_alloced
    BY <1>2, <2>1, <2>2
  <2>3. CASE ~is_alloced /\ room >= capacity
    <3>1. blocks = 0
      BY <2>1, <2>3
    <3>2. is_alloced' = TRUE
      BY <1>2, <2>3
    <3>3. blocks' = blocks + 1
      BY <1>2, <2>3
    <3> QED BY <3>1, <3>2, <3>3
  <2>4. CASE ~is_alloced /\ ~(room >= capacity)
    BY <1>2, <2>1, <2>4
  <2> QED BY <2>2, <2>3, <2>4
<1>4. size' \in Nat /\ capacity' \in Nat /\ size' < capacity' /\ DOMAIN data' = 0 .. capacity' - 1
  BY <1>1, <1>2
<1>5. pushed' \in Seq(Item) /\ Len(pushed') = size' /\ \A i \in 1 .. size' : data'[i - 1] = pushed'[i]
  BY <1>2
<1> QED BY <1>3, <1>4, <1>5 DEF BufferInv

LEMMA BufferInit == Buffers!Init => BufferInv
<1> SUFFICES ASSUME Buffers!Init PROVE BufferInv
  OBVIOUS
<1>1. capacity \in Nat /\ DOMAIN data = 0 .. capacity - 1 /\ size = 0 /\ is_alloced = FALSE
      /\ blocks = 0 /\ pushed = <<>>
  BY BufferConstants DEF Buffers!Init
<1>2. <<>> \in Seq(Item) /\ Len(<<>>) = 0 /\ \A i \in 1 .. 0 : FALSE
  OBVIOUS
<1>3. size < capacity \/ (size = 0 /\ capacity = 0)
  BY <1>1
<1>4. is_alloced \in BOOLEAN /\ blocks = IF is_alloced THEN 1 ELSE 0
  BY <1>1
<1>5. pushed \in Seq(Item) /\ Len(pushed) = size /\ size \in Nat
  BY <1>1, <1>2
<1>6. \A i \in 1 .. size : data[i - 1] = pushed[i]
  BY <1>1
<1> QED BY <1>1, <1>3, <1>4, <1>5, <1>6 DEF BufferInv

LEMMA ConvertText ==
  ASSUME BufferInv, NEW text \in Seq(Item), Len(text) <= MaxPushed, Buffers!Convert(text)
  PROVE  BufferInv'
<1> DEFINE n == Len(text)
           R == Buffers!Resized(n)
           w == Buffers!Written(R, text)
<1>1. n \in Nat /\ n \in 0 .. MaxPushed + 1 /\ n \in 0 .. n
  BY BufferConstants
<1>2. Buffers!Take(w, n, n) /\ pushed' = text
  BY DEF Buffers!Convert
<1>3. Room(n) \in Nat /\ Room(n) > n /\ DOMAIN R = 0 .. Room(n) - 1
  <2> HIDE DEF n
  <2> QED BY <1>1, RoomIs
<1>4. DOMAIN w = 0 .. Room(n) - 1 /\ \A i \in 0 .. Room(n) - 1 : i < n => w[i] = text[i + 1]
  <2> HIDE DEF R
  <2> QED BY <1>3 DEF Buffers!Written
<1> HIDE DEF n, w, R
<1>5. ASSUME NEW i \in 1 .. n PROVE w[i - 1] = text[i]
  <2>1. i - 1 \in 0 .. Room(n) - 1 /\ i - 1 < n /\ i - 1 + 1 = i
    BY <1>1, <1>3
  <2> QED BY <1>4, <2>1
<1>6. Len(text) = n
  BY DEF n
<1> QED BY <1>1, <1>2, <1>4, <1>5, <1>6, TakeItems

LEMMA NormalizeText ==
  ASSUME BufferInv, NEW text \in Seq(Item), Len(text) <= MaxPushed,
         Buffers!wio_normalize_allocate_path(MaxPushed + 1, text)
  PROVE  BufferInv'
<1> DEFINE n == Len(text)
           room == MaxPushed + 1
           R == Buffers!Resized(room)
           t == Append(text, Buffers!Zero)
           x == Buffers!Written(R, t)
           w == [x EXCEPT ![n] = Buffers!Zero]
<1>1. n \in Nat /\ room \in 0 .. MaxPushed + 1 /\ n \in 0 .. room /\ MaxPushed \in Nat
  BY BufferConstants
<1>2. Buffers!Take(w, room, n) /\ pushed' = text
  BY DEF Buffers!wio_normalize_allocate_path
<1>3. Room(room) \in Nat /\ Room(room) > room /\ DOMAIN R = 0 .. Room(room) - 1
  <2> HIDE DEF room
  <2> QED BY <1>1, RoomIs
<1>4. Len(t) = n + 1 /\ \A i \in 1 .. n : t[i] = text[i]
  <2> DEFINE S == Item \cup {Buffers!Zero}
  <2>1. text \in Seq(S) /\ Buffers!Zero \in S
    OBVIOUS
  <2> HIDE DEF S
  <2> QED BY <2>1, AppendProperties
<1> HIDE DEF t, R
<1>5. DOMAIN x = 0 .. Room(room) - 1
      /\ \A i \in 0 .. Room(room) - 1 : i < n + 1 => x[i] = t[i + 1]
  BY <1>3, <1>4 DEF Buffers!Written
<1> HIDE DEF n, x, room
<1>6. DOMAIN w = 0 .. Room(room) - 1
  BY <1>5
<1>7. ASSUME NEW i \in 1 .. n PROVE w[i - 1] = text[i]
  <2> DEFINE k == i - 1
  <2>1. k \in 0 .. Room(room) - 1 /\ k < n + 1 /\ k + 1 = i /\ k # n
    BY <1>1, <1>3
  <2> HIDE DEF k
  <2>2. w[k] = x[k]
    BY <1>5, <2>1
  <2>3. w[k] = text[i]
    BY <1>4, <1>5, <2>1, <2>2
  <2> QED BY <2>3 DEF k
<1> HIDE DEF w
<1>8. Len(text) = n
  BY DEF n
<1> QED BY <1>1, <1>2, <1>6, <1>7, <1>8, TakeItems

LEMMA PushItem ==
  ASSUME BufferInv, NEW e \in Item, size < MaxPushed, Buffers!push(e)
  PROVE  BufferInv'
<1> DEFINE n == size + 1
           R == Buffers!Resized(n)
           w == [R EXCEPT ![size] = e]
           items == Append(pushed, e)
<1>1. /\ size \in Nat /\ capacity \in Nat /\ n \in 0 .. MaxPushed + 1 /\ n \in 0 .. n /\ n \in Nat
      /\ pushed \in Seq(Item) /\ Len(pushed) = size
      /\ size < capacity \/ (size = 0 /\ capacity = 0)
  BY BufferConstants DEF BufferInv
<1>2. Buffers!Take(w, n, n) /\ pushed' = items /\ (capacity = 0 \/ is_alloced)
  BY DEF Buffers!push
<1>3. Room(n) \in Nat /\ Room(n) > n /\ DOMAIN R = 0 .. Room(n) - 1
      /\ \A i \in 0 .. Room(n) - 1 : i # n /\ i < capacity /\ is_alloced => R[i] = data[i]
  <2> HIDE DEF n
  <2> QED BY <1>1, RoomIs
<1>4. items \in Seq(Item) /\ Len(items) = n /\ items[n] = e /\ \A i \in 1 .. size : items[i] = pushed[i]
  BY <1>1, AppendProperties
<1> HIDE DEF R, items
<1>5. DOMAIN w = 0 .. Room(n) - 1
  BY <1>3
<1>6. ASSUME NEW i \in 1 .. n PROVE w[i - 1] = items[i]
  <2> DEFINE k == i - 1
  <2>1. CASE i = n
    <3>1. k = size /\ k \in 0 .. Room(n) - 1
      BY <1>1, <1>3, <2>1
    <3> HIDE DEF k, n
    <3>2. w[k] = e
      BY <1>3, <3>1
    <3> QED BY <1>4, <2>1, <3>2 DEF k
  <2>2. CASE i # n
    <3>1. k \in 0 .. Room(n) - 1 /\ k # size /\ k # n /\ k < capacity /\ i \in 1 .. size /\ capacity # 0
      BY <1>1, <1>3, <2>2
    <3> HIDE DEF k, n
    <3>2. w[k] = R[k]
      BY <1>3, <3>1
    <3>3. R[k] = data[k]
      BY <1>2, <1>3, <3>1
    <3>4. data[k] = pushed[i]
      BY <3>1 DEF BufferInv, k
    <3> QED BY <1>4, <3>1, <3>2, <3>3, <3>4 DEF k
  <2> QED BY <2>1, <2>2
<1> HIDE DEF w, n
<1> QED BY <1>1, <1>2, <1>4, <1>5, <1>6, TakeItems

LEMMA BufferStep == BufferInv /\ Buffers!Next => BufferInv'
<1> SUFFICES ASSUME BufferInv, Buffers!Next PROVE BufferInv'
  OBVIOUS
<1>1. ASSUME NEW n \in 0 .. MaxPushed, NEW text \in [1 .. n -> Item]
      PROVE  text \in Seq(Item) /\ Len(text) = n /\ n \in Nat /\ n <= MaxPushed
  <2>1. n \in Nat /\ n <= MaxPushed
    BY BufferConstants
  <2> QED BY <2>1
<1>2. ASSUME NEW n \in 0 .. MaxPushed, NEW text \in [1 .. n -> Item], Buffers!Convert(text)
      PROVE  BufferInv'
  BY <1>1, <1>2, ConvertText
<1>3. ASSUME NEW n \in 0 .. MaxPushed, NEW text \in [1 .. n -> Item],
             Buffers!wio_normalize_allocate_path(MaxPushed + 1, text)
      PROVE  BufferInv'
  BY <1>1, <1>3, NormalizeText
<1>4. ASSUME NEW n \in 0 .. MaxPushed, NEW text \in [1 .. n -> Item], NEW i \in 0 .. n,
             Buffers!wio_w_concat(SubSeq(text, 1, i), SubSeq(text, i + 1, n), <<>>)
      PROVE  BufferInv'
  <2> DEFINE a == SubSeq(text, 1, i)
             b == SubSeq(text, i + 1, n)
             k == n - i
  <2>1. text \in Seq(Item) /\ Len(text) = n /\ n \in Nat /\ n <= MaxPushed /\ i \in Nat /\ k \in Nat /\ i + k = n
    BY <1>1
  <2> HIDE DEF k
  <2>2. a \in Seq(Item) /\ Len(a) = i
    BY <2>1, FirstItems
  <2>3. b \in Seq(Item) /\ Len(b) = k
    <3>1. SubSeq(text, i + 1, i + k) \in Seq(Item) /\ Len(SubSeq(text, i + 1, i + k)) = k
      BY <2>1, PartIs
    <3> QED BY <2>1, <3>1
  <2> HIDE DEF a, b
  <2>4. a \o b \in Seq(Item) /\ Len(a \o b) = n
    BY <2>1, <2>2, <2>3, ConcatProperties
  <2> DEFINE c == a \o b
             d == c \o <<>>
  <2>5. d \in Seq(Item) /\ Len(d) = n
    <3>1. c \in Seq(Item) /\ Len(c) = n /\ <<>> \in Seq(Item) /\ Len(<<>>) = 0
      BY <2>4
    <3> HIDE DEF c
    <3> QED BY <2>1, <3>1, ConcatProperties
  <2>6. Buffers!Convert(d)
    BY <1>4 DEF Buffers!wio_w_concat, a, b
  <2> HIDE DEF d
  <2> QED BY <2>1, <2>5, <2>6, ConvertText
<1>5. ASSUME Buffers!pop PROVE BufferInv'
  <2> DEFINE n == size - 1
             u == SubSeq(pushed, 1, n)
  <2>1. /\ size \in Nat /\ size > 0 /\ capacity \in Nat /\ size < capacity /\ n \in 0 .. size /\ n \in Nat
        /\ n < capacity /\ pushed \in Seq(Item) /\ Len(pushed) = size
    BY <1>5 DEF BufferInv, Buffers!pop
  <2>2. size' = n /\ pushed' = u /\ UNCHANGED <<data, capacity, is_alloced, blocks>>
    BY <1>5 DEF Buffers!pop
  <2>3. \A i \in 1 .. n : i \in 1 .. size
    BY <2>1
  <2> HIDE DEF n
  <2>4. u \in Seq(Item) /\ Len(u) = n /\ \A i \in 1 .. n : u[i] = pushed[i]
    BY <2>1, FirstItems
  <2> HIDE DEF u
  <2> QED BY <2>1, <2>2, <2>3, <2>4 DEF BufferInv
<1>6. ASSUME Buffers!deinit PROVE BufferInv'
  <2>1. DOMAIN data' = {} /\ size' = 0 /\ capacity' = 0 /\ is_alloced' = FALSE /\ pushed' = <<>>
    BY <1>6 DEF Buffers!deinit
  <2>2. blocks' = 0
    <3>1. blocks = (IF is_alloced THEN 1 ELSE 0) /\ is_alloced \in BOOLEAN
      BY DEF BufferInv
    <3>2. blocks' = IF is_alloced THEN blocks - 1 ELSE blocks
      BY <1>6 DEF Buffers!deinit
    <3> QED BY <3>1, <3>2
  <2>3. pushed' \in Seq(Item) /\ Len(pushed') = size'
    BY <2>1
  <2>4. \A i \in 1 .. size' : data'[i - 1] = pushed'[i]
    BY <2>1
  <2>5. DOMAIN data' = 0 .. capacity' - 1
    BY <2>1
  <2>6. is_alloced' \in BOOLEAN /\ blocks' = IF is_alloced' THEN 1 ELSE 0
    BY <2>1, <2>2
  <2> QED BY <2>1, <2>3, <2>4, <2>5, <2>6 DEF BufferInv
<1>7. ASSUME NEW e \in Item, size < MaxPushed, Buffers!push(e) PROVE BufferInv'
  BY <1>7, PushItem
<1> QED BY <1>2, <1>3, <1>4, <1>5, <1>6, <1>7 DEF Buffers!Next

LEMMA BufferInvSound == BufferInv => Buffers!BufferSound
<1> SUFFICES ASSUME BufferInv PROVE Buffers!BufferSound
  OBVIOUS
<1>1. capacity > 0 => size < capacity
  BY DEF BufferInv
<1> QED BY <1>1 DEF BufferInv, Buffers!BufferSound

-----------------------------------------------------------------------------
(* Listing *)

\* an entry of a directory
EntryOf(d, e) == \E i \in 1 .. Len(tree[d]) : e = tree[d][i]

Names == Listing!Entries(DOMAIN tree)

Searches == [path : DOMAIN tree, next : Nat, cut : BOOLEAN]

PathsOf(q) == {q[i].path : i \in 1 .. Len(q)}

ItemsOf(v) == {v[i] : i \in 1 .. Len(v)}

\* The searches of the queue up to the one that is read from are over or were
\* cut; each is of another directory, which one before it found.
QueueInv(q, r) ==
  /\ q \in Seq(Searches) /\ Len(q) > 0 /\ q[1].path = Root /\ r \in 1 .. Len(q) + 1
  /\ \A i \in 1 .. Len(q) : /\ q[i].next \in 1 .. Len(tree[q[i].path]) + 1
                            /\ i < r /\ ~q[i].cut => q[i].next = Len(tree[q[i].path]) + 1
  /\ \A i, j \in 1 .. Len(q) : q[i].path = q[j].path => i = j
  /\ \A i \in 2 .. Len(q) : \E h \in 1 .. i - 1 : \E j \in 1 .. q[h].next - 1 :
       q[i].path = tree[q[h].path][j]

\* v is what the searches have returned, each entry once and a directory before
\* what is in it; its directories are queued if they are to be listed.
ListedInv(v, q) ==
  /\ v \in Seq(Names) /\ \A k, l \in 1 .. Len(v) : v[k] = v[l] => k = l
  /\ \A k \in 1 .. Len(v) : \E i \in 1 .. Len(q) : \E j \in 1 .. q[i].next - 1 :
       v[k] = tree[q[i].path][j]
  /\ \A i \in 1 .. Len(q) : \A j \in 1 .. q[i].next - 1 : tree[q[i].path][j] \in ItemsOf(v)
  /\ \A k, l \in 1 .. Len(v) : v[k] \in DOMAIN tree /\ EntryOf(v[k], v[l]) => k < l
  /\ Len(q) > 1 => recursive
  /\ \A k \in 1 .. Len(v) : recursive /\ v[k] \in DOMAIN tree => v[k] \in PathsOf(q)

ListingInv ==
  /\ tree \in Trees /\ recursive \in BOOLEAN
  /\ phase \in {"idle", "listing", "listed", "failed", "freed"}
  /\ phase = "idle" => /\ reading_from = 1 /\ entries = <<>>
                       /\ paths = {} /\ strings = {} /\ handles = {} /\ patterns = {} /\ queue = <<>>
  /\ phase = "listing" => /\ QueueInv(queue, reading_from) /\ ListedInv(entries, queue)
                          /\ handles \subseteq PathsOf(queue) /\ paths = PathsOf(queue) \ {Root}
                          /\ strings = ItemsOf(entries)
  /\ phase = "listed" => /\ QueueInv(queue, reading_from) /\ reading_from = Len(queue) + 1
                         /\ \E v : /\ ListedInv(v, queue) /\ strings = ItemsOf(v)
                                   /\ entries = Append(v, "terminator")
                         /\ handles = {} /\ paths = {}
  /\ phase = "failed" => queue = <<>> /\ entries = <<>> /\ handles \subseteq {Root}
  /\ phase \in {"failed", "freed"} => strings = {} /\ paths = {} /\ (entries # <<>> => handles = {})
  /\ patterns \subseteq {Root} \cup PathsOf(queue)

LEMMA TreeIs ==
  ASSUME tree \in Trees
  PROVE  /\ IsFiniteSet(DOMAIN tree) /\ Root \in DOMAIN tree
         /\ \A d \in DOMAIN tree : Len(tree[d]) \in Nat
         /\ \A d \in DOMAIN tree : \A i \in 1 .. Len(tree[d]) :
              tree[d][i] \in Names /\ tree[d][i] # Root /\ tree[d][i] # "terminator"
         /\ \A d, e \in DOMAIN tree : \A i \in 1 .. Len(tree[d]), j \in 1 .. Len(tree[e]) :
              tree[d][i] = tree[e][j] => d = e /\ i = j
         /\ \A e \in Names : e # "terminator"
<1>1. /\ IsFiniteSet(DOMAIN tree) /\ Root \in DOMAIN tree
      /\ \A d \in DOMAIN tree :
           /\ Len(tree[d]) \in Nat
           /\ \A i \in 1 .. Len(tree[d]) : tree[d][i] \notin {Root, "terminator"}
      /\ \A d, e \in DOMAIN tree : \A i \in 1 .. Len(tree[d]), j \in 1 .. Len(tree[e]) :
           tree[d][i] = tree[e][j] => d = e /\ i = j
  BY ListingAssumption
<1>2. \A d \in DOMAIN tree : \A i \in 1 .. Len(tree[d]) : tree[d][i] \in Names
  BY DEF Names, Listing!Entries
<1>3. \A e \in Names : \E d \in DOMAIN tree : \E i \in 1 .. Len(tree[d]) : e = tree[d][i]
  BY DEF Names, Listing!Entries
<1>4. \A e \in Names : e # "terminator"
  BY <1>1, <1>3
<1> QED BY <1>1, <1>2, <1>4

LEMMA EntriesAre ==
  ASSUME NEW S
  PROVE  /\ \A e \in Listing!Entries(S) : \E d \in S : EntryOf(d, e)
         /\ \A d \in S : \A e : EntryOf(d, e) => e \in Listing!Entries(S)
<1>1. Listing!Entries(S) = UNION {{tree[d][i] : i \in 1 .. Len(tree[d])} : d \in S}
  BY DEF Listing!Entries
<1> QED BY <1>1 DEF EntryOf

\* Of a finished listing the queue has the directories below the root ...
LEMMA AllBelow ==
  ASSUME tree \in Trees, NEW v, QueueInv(queue, Len(queue) + 1), ListedInv(v, queue), recursive
  PROVE  /\ Listing!Entries(PathsOf(queue)) \subseteq Listing!Below
         /\ Listing!NoneCut => Listing!Below = Listing!Entries(PathsOf(queue))
<1> DEFINE D == SUBSET DOMAIN tree
           more(dirs) == dirs \cup (Listing!Entries(dirs) \cap DOMAIN tree)
           Q == PathsOf(queue)
           All == Listing!Entries(Q)
           Whole == Listing!NoneCut
           Stop == {dirs \in D : more(dirs) = dirs}
           out == [dirs \in D |-> Listing!Entries(dirs)]
           item == out
           next == [dirs \in D |-> more(dirs)]
           M == Cardinality(DOMAIN tree)
           m == [dirs \in D |-> M - Cardinality(dirs)]
           listed == FALSE
           Walk(w) == w = [dirs \in D |-> IF more(dirs) = dirs THEN Listing!Entries(dirs) ELSE w[more(dirs)]]
           g == CHOOSE w : Walk(w)
<1>1. Listing!Below = g[{Root}]
  BY DEF Listing!Below
<1>2. IsFiniteSet(DOMAIN tree) /\ Root \in DOMAIN tree
  BY TreeIs
<1>3. \A dirs \in D : more(dirs) \in D
  OBVIOUS
<1>4. Descends(D, Stop, next, m, M)
  <2>1. M \in Nat /\ \A dirs \in D : Cardinality(dirs) \in Nat /\ Cardinality(dirs) <= M
    BY <1>2, FS_Subset, FS_CardinalityType
  <2>2. m \in [D -> 0 .. M]
    <3> HIDE DEF M, D
    <3>1. \A dirs \in D : M - Cardinality(dirs) \in 0 .. M
      BY <2>1
    <3> QED BY <3>1
  <2>3. ASSUME NEW x \in D \ Stop PROVE next[x] \in D /\ m[next[x]] < m[x]
    <3> DEFINE y == more(x)
               a == Cardinality(x)
               b == Cardinality(y)
    <3>1. x \in D /\ y \in D /\ next[x] = y /\ x \subseteq y /\ x # y
      BY <1>3
    <3>2. m[x] = M - a /\ m[y] = M - b
      BY <3>1
    <3>3. a <= b /\ a # b
      <4>1. IsFiniteSet(y)
        BY <1>2, <3>1, FS_Subset
      <4> HIDE DEF y
      <4> QED BY <3>1, <4>1, FS_Subset
    <3>4. a \in Nat /\ b \in Nat
      BY <2>1, <3>1
    <3> HIDE DEF M, m, D, next, y, a, b
    <3>5. m[y] < m[x]
      BY <2>1, <3>2, <3>3, <3>4
    <3> QED BY <3>1, <3>5
  <2> HIDE DEF M, m, D, next, Stop
  <2> QED BY <2>1, <2>2, <2>3 DEF Descends
<1>5. \A w : IsWalk(D, Stop, out, next, listed, item, w) <=> Walk(w)
  <2> TAKE w
  <2>1. \A x \in D : (IF x \in Stop THEN out[x] ELSE Passing(listed, item, x, w[next[x]]))
                       = IF more(x) = x THEN Listing!Entries(x) ELSE w[more(x)]
    BY DEF Passing
  <2> HIDE DEF Stop, out, next, item, listed, D, more
  <2> QED BY <2>1 DEF IsWalk
<1>6. IsWalk(D, Stop, out, next, listed, item, g)
  <2> HIDE DEF D, Stop, out, next, m, item, listed, M
  <2>1. \E w : Walk(w)
    <3> HIDE DEF Walk
    <3> QED BY <1>4, <1>5, WalkExists
  <2>2. Walk(g)
    <3> HIDE DEF Walk
    <3> QED BY <2>1
  <2> HIDE DEF Walk, g
  <2> QED BY <1>5, <2>2
<1> HIDE DEF g
<1> DEFINE P == {p \in D \X SUBSET Listing!Entries(DOMAIN tree) :
                   Root \in p[1] => All \subseteq p[2] /\ (Whole /\ p[1] \subseteq Q => p[2] = All)}
<1>7. \A x \in D : \A u \in SUBSET Listing!Entries(DOMAIN tree) :
        <<x, u>> \in P <=> (Root \in x => All \subseteq u /\ (Whole /\ x \subseteq Q => u = All))
  <2> HIDE DEF D, Q, All, Whole
  <2> QED OBVIOUS
<1>8. /\ queue \in Seq(Searches) /\ queue[1].path = Root /\ Len(queue) \in Nat /\ Len(queue) > 0
      /\ \A i \in 1 .. Len(queue) : /\ queue[i].path \in DOMAIN tree /\ queue[i].next \in Nat
                                    /\ queue[i].next \in 1 .. Len(tree[queue[i].path]) + 1
                                    /\ Whole => queue[i].next = Len(tree[queue[i].path]) + 1
      /\ \A i \in 2 .. Len(queue) : \E h \in 1 .. i - 1 : \E j \in 1 .. queue[h].next - 1 :
           queue[i].path = tree[queue[h].path][j]
  <2>1. \A i \in 1 .. Len(queue) : queue[i] \in Searches /\ i < Len(queue) + 1
    BY DEF QueueInv
  <2>2. Whole => \A i \in 1 .. Len(queue) : ~queue[i].cut
    BY DEF Listing!NoneCut
  <2>3. \A i \in 1 .. Len(queue) : queue[i].path \in DOMAIN tree /\ queue[i].next \in Nat
    BY <2>1 DEF Searches
  <2> HIDE DEF Whole
  <2> QED BY <2>1, <2>2, <2>3 DEF QueueInv
<1>9. \A i \in 1 .. Len(queue) : /\ \A j \in 1 .. queue[i].next - 1 : j \in 1 .. Len(tree[queue[i].path])
                                 /\ Whole => queue[i].next - 1 = Len(tree[queue[i].path])
  <2> HIDE DEF Whole
  <2> SUFFICES ASSUME NEW i \in 1 .. Len(queue)
               PROVE  /\ \A j \in 1 .. queue[i].next - 1 : j \in 1 .. Len(tree[queue[i].path])
                      /\ Whole => queue[i].next - 1 = Len(tree[queue[i].path])
    OBVIOUS
  <2>1. Len(tree[queue[i].path]) \in Nat
    BY <1>8, TreeIs
  <2> QED BY <1>8, <2>1
<1>10. ASSUME NEW x \in D, more(x) = x, Root \in x PROVE Q \subseteq x
  <2> DEFINE Out == {i \in 1 .. Len(queue) : queue[i].path \notin x}
  <2>1. ASSUME Out # {} PROVE FALSE
    <3>1. Out \in SUBSET Nat
      OBVIOUS
    <3>2. PICK i \in Out : \A k \in Out : i <= k
      <4> HIDE DEF Out
      <4> QED BY <2>1, <3>1, SmallestElement
    <3>3. i # 1
      BY <1>8, <1>10
    <3>4. i \in 2 .. Len(queue)
      BY <1>8, <3>3
    <3>5. PICK h \in 1 .. i - 1 : \E j \in 1 .. queue[h].next - 1 : queue[i].path = tree[queue[h].path][j]
      BY <1>8, <3>4
    <3>6. h \in 1 .. Len(queue) /\ ~(i <= h)
      BY <1>8, <3>4
    <3>7. queue[h].path \in x
      BY <3>2, <3>6
    <3>8. EntryOf(queue[h].path, queue[i].path)
      BY <1>9, <3>5, <3>6 DEF EntryOf
    <3>9. queue[i].path \in more(x)
      BY <1>8, <3>4, <3>7, <3>8, EntriesAre
    <3> QED BY <1>10, <3>9
  <2> QED BY <1>10, <2>1 DEF PathsOf
<1>11. ASSUME Whole, NEW x \in D, x \subseteq Q PROVE more(x) \subseteq Q
  <2> SUFFICES ASSUME NEW e \in Listing!Entries(x) \cap DOMAIN tree PROVE e \in Q
    BY <1>11
  <2>1. PICK d \in x : EntryOf(d, e)
    BY EntriesAre
  <2>2. PICK i \in 1 .. Len(queue) : queue[i].path = d
    BY <1>11, <2>1 DEF PathsOf
  <2>3. PICK j \in 1 .. queue[i].next - 1 : e = tree[queue[i].path][j]
    BY <1>9, <1>11, <2>1, <2>2 DEF EntryOf
  <2>4. e \in ItemsOf(v)
    BY <2>3 DEF ListedInv
  <2> QED BY <2>4 DEF ListedInv, ItemsOf
<1>12. \A x \in D : Listing!Entries(x) \subseteq Listing!Entries(DOMAIN tree)
  BY EntriesAre
<1>13. \A x \in D \cap Stop : <<x, out[x]>> \in P
  <2> SUFFICES ASSUME NEW x \in D, more(x) = x PROVE <<x, out[x]>> \in P
    OBVIOUS
  <2>1. out[x] = Listing!Entries(x)
    OBVIOUS
  <2>2. Root \in x => All \subseteq out[x]
    <3>1. ASSUME Root \in x PROVE Q \subseteq x
      BY <1>10, <3>1
    <3>2. ASSUME Root \in x, NEW e \in All PROVE e \in out[x]
      BY <2>1, <3>1, <3>2, EntriesAre
    <3> QED BY <3>2
  <2>3. Root \in x /\ Whole /\ x \subseteq Q => out[x] = All
    BY <1>10, <2>1
  <2> HIDE DEF P, D, out, All, Q, Whole
  <2> QED BY <1>7, <1>12, <2>1, <2>2, <2>3
<1>14. \A x \in D \ Stop : \A u : <<next[x], u>> \in P => <<x, Passing(listed, item, x, u)>> \in P
  <2> SUFFICES ASSUME NEW x \in D \ Stop, NEW u, <<next[x], u>> \in P PROVE <<x, u>> \in P
    BY DEF Passing
  <2> DEFINE y == more(x)
  <2>1. x \in D /\ y \in D /\ next[x] = y /\ x \subseteq y
    BY <1>3
  <2>2. u \in SUBSET Listing!Entries(DOMAIN tree)
    OBVIOUS
  <2>3. Whole /\ x \subseteq Q => y \subseteq Q
    BY <1>11
  <2> HIDE DEF P, D, All, Q, y, next, Whole
  <2> QED BY <1>7, <2>1, <2>2, <2>3
<1>15. <<{Root}, g[{Root}]>> \in P
  <2>1. {Root} \in D
    BY <1>2
  <2> HIDE DEF P, D, Stop, out, item, next, m, M, listed
  <2>2. StepsKeep(D, Stop, out, next, listed, item, P)
    BY <1>13, <1>14 DEF StepsKeep
  <2> QED BY <1>4, <1>6, <2>1, <2>2, WalkKeeps
<1>16. {Root} \subseteq Q
  <2>1. 1 \in 1 .. Len(queue)
    BY <1>8
  <2> QED BY <1>8, <2>1 DEF PathsOf
<1>17. All \subseteq g[{Root}] /\ (Whole => g[{Root}] = All)
  <2> HIDE DEF Q, All, D, Whole
  <2> QED BY <1>15, <1>16
<1> QED BY <1>1, <1>17

\* what the record of a search is
LEMMA SearchIs ==
  ASSUME NEW q \in Seq(Searches), NEW i \in 1 .. Len(q)
  PROVE  q[i].path \in DOMAIN tree /\ q[i].next \in Nat /\ q[i].cut \in BOOLEAN
<1>1. q[i] \in Searches
  OBVIOUS
<1> QED BY <1>1 DEF Searches

\* ... and the listing is as promised.
LEMMA ListedAll ==
  ASSUME tree \in Trees, recursive \in BOOLEAN,
         NEW v, QueueInv(queue, Len(queue) + 1), ListedInv(v, queue), entries = Append(v, "terminator")
  PROVE  Listing!ListedOnce
<1> DEFINE T == "terminator"
           n == Len(v)
           w == SubSeq(entries, 1, Len(entries) - 1)
<1>1. v \in Seq(Names) /\ n \in Nat /\ v \in Seq(Names \cup {T}) /\ T \in Names \cup {T}
  <2>1. v \in Seq(Names)
    BY DEF ListedInv
  <2> QED BY <2>1
<1>2. /\ Len(entries) = n + 1 /\ entries[n + 1] = T
      /\ \A i \in 1 .. n : entries[i] = v[i]
      /\ entries \in Seq(Names \cup {T})
  <2> HIDE DEF T
  <2>1. entries = Append(v, T)
    BY DEF T
  <2> QED BY <1>1, <2>1, AppendProperties
<1>3. w = v
  <2>1. SubSeq(entries, 1, n) \in Seq(Names \cup {T}) /\ Len(SubSeq(entries, 1, n)) = n
        /\ \A i \in 1 .. n : SubSeq(entries, 1, n)[i] = entries[i]
    <3> HIDE DEF T
    <3>1. n \in 0 .. Len(entries)
      BY <1>1, <1>2
    <3> QED BY <1>2, <3>1, FirstItems
  <2>2. Len(entries) - 1 = n
    BY <1>1, <1>2
  <2>3. SubSeq(entries, 1, n) = v
    <3> HIDE DEF T
    <3> QED BY <1>1, <1>2, <2>1, SeqEqual
  <2> QED BY <2>2, <2>3
<1> HIDE DEF w
<1>4. /\ queue \in Seq(Searches) /\ Len(queue) \in Nat /\ Len(queue) > 0 /\ queue[1].path = Root
      /\ \A i \in 1 .. Len(queue) :
           /\ queue[i].path \in DOMAIN tree
           /\ \A j \in 1 .. queue[i].next - 1 : j \in 1 .. Len(tree[queue[i].path])
           /\ Listing!NoneCut => queue[i].next - 1 = Len(tree[queue[i].path])
  <2>1. queue \in Seq(Searches) /\ \A i \in 1 .. Len(queue) : i < Len(queue) + 1
    BY DEF QueueInv
  <2>2. ASSUME NEW i \in 1 .. Len(queue)
        PROVE  /\ queue[i].path \in DOMAIN tree
               /\ \A j \in 1 .. queue[i].next - 1 : j \in 1 .. Len(tree[queue[i].path])
               /\ Listing!NoneCut => queue[i].next - 1 = Len(tree[queue[i].path])
    <3>1. queue[i].path \in DOMAIN tree /\ queue[i].next \in Nat
      BY <2>1, SearchIs
    <3>2. /\ queue[i].next \in 1 .. Len(tree[queue[i].path]) + 1
          /\ Listing!NoneCut => queue[i].next = Len(tree[queue[i].path]) + 1
      BY <2>1 DEF QueueInv, Listing!NoneCut
    <3>3. Len(tree[queue[i].path]) \in Nat
      BY <3>1, TreeIs
    <3> QED BY <3>1, <3>2, <3>3
  <2> QED BY <2>1, <2>2 DEF QueueInv
<1> DEFINE E == Listing!Entries(PathsOf(queue))
           Whole == Listing!NoneCut
<1>5. ItemsOf(v) \subseteq E /\ (Whole => ItemsOf(v) = E)
  <2>1. ASSUME NEW k \in 1 .. n PROVE v[k] \in Listing!Entries(PathsOf(queue))
    <3>1. PICK i \in 1 .. Len(queue) : \E j \in 1 .. queue[i].next - 1 : v[k] = tree[queue[i].path][j]
      BY DEF ListedInv
    <3>2. EntryOf(queue[i].path, v[k])
      BY <1>4, <3>1 DEF EntryOf
    <3> QED BY <3>2, EntriesAre DEF PathsOf
  <2>2. ASSUME Whole, NEW e \in Listing!Entries(PathsOf(queue)) PROVE e \in ItemsOf(v)
    <3>1. PICK d \in PathsOf(queue) : EntryOf(d, e)
      BY EntriesAre
    <3>2. PICK i \in 1 .. Len(queue) : queue[i].path = d
      BY DEF PathsOf
    <3>3. PICK j \in 1 .. Len(tree[queue[i].path]) : e = tree[queue[i].path][j]
      BY <3>1, <3>2 DEF EntryOf
    <3> QED BY <1>4, <2>2, <3>3 DEF ListedInv
  <2> QED BY <2>1, <2>2 DEF ItemsOf
<1> DEFINE All == IF recursive THEN Listing!Below ELSE Listing!Entries({Root})
<1>6. ItemsOf(v) \subseteq All /\ (Whole => ItemsOf(v) = All)
  <2>1. CASE recursive
    <3>1. E \subseteq Listing!Below /\ (Whole => Listing!Below = E)
      BY <2>1, AllBelow
    <3> HIDE DEF E, Whole
    <3> QED BY <1>5, <2>1, <3>1
  <2>2. CASE ~recursive
    <3>0. ~(Len(queue) > 1)
      BY <2>2, Zenon DEF ListedInv
    <3>1. Len(queue) = 1
      <4> DEFINE q == queue
                 l == Len(q)
      <4>1. q \in Seq(Searches) /\ l > 0
        BY <1>4
      <4>2. l \in Nat
        <5> HIDE DEF q
        <5> QED BY <4>1
      <4>3. l > 0 /\ ~(l > 1)
        BY <1>4, <3>0
      <4> HIDE DEF l
      <4>4. l = 1
        BY <4>2, <4>3
      <4> QED BY <4>4 DEF l
    <3>2. PathsOf(queue) = {Root}
      BY <1>4, <3>1 DEF PathsOf
    <3> QED BY <1>5, <2>2, <3>2
  <2> QED BY <2>1, <2>2
<1> HIDE DEF All, Whole, E
<1>7. /\ entries[Len(entries)] = T
      /\ {w[i] : i \in 1 .. Len(w)} \subseteq All
      /\ Whole => {w[i] : i \in 1 .. Len(w)} = All
  BY <1>2, <1>3, <1>6 DEF ItemsOf
<1>8. \A i, j \in 1 .. Len(w) : i # j => w[i] # w[j]
  BY <1>3 DEF ListedInv
<1>9. \A i, j \in 1 .. Len(w) :
        w[i] \in DOMAIN tree /\ (\E k \in 1 .. Len(tree[w[i]]) : tree[w[i]][k] = w[j]) => i < j
  BY <1>3 DEF ListedInv, EntryOf
<1> HIDE DEF n
<1> QED BY <1>7, <1>8, <1>9 DEF Listing!ListedOnce, Listing!Terminator, Listing!IsDirectory, w, All, Whole

LEMMA ListingInvSound == ListingInv => Listing!ListedOnce /\ Listing!EntriesReturned
<1> SUFFICES ASSUME ListingInv PROVE Listing!ListedOnce /\ Listing!EntriesReturned
  OBVIOUS
<1>1. Listing!EntriesReturned
  BY DEF ListingInv, Listing!EntriesReturned, PathsOf
<1>2. CASE phase = "listed"
  <2>1. PICK v : ListedInv(v, queue) /\ entries = Append(v, "terminator")
    BY <1>2 DEF ListingInv
  <2>2. QueueInv(queue, Len(queue) + 1)
    BY <1>2 DEF ListingInv
  <2>3. tree \in Trees /\ recursive \in BOOLEAN
    BY DEF ListingInv
  <2> QED BY <1>1, <2>1, <2>2, <2>3, ListedAll
<1>3. CASE phase # "listed"
  BY <1>1, <1>3 DEF Listing!ListedOnce
<1> QED BY <1>2, <1>3

LEMMA ListingInit == Listing!Init => ListingInv
<1>1. {} \subseteq {Root} \cup PathsOf(queue)
  OBVIOUS
<1> QED BY <1>1 DEF Listing!Init, ListingInv

LEMMA StartListing ==
  ASSUME ListingInv, Listing!Start
  PROVE  ListingInv'
<1>0. PICK cut \in BOOLEAN :
        /\ Listing!Begins(Root, cut)
        /\ IF Listing!Has(Listing!Search(Root, cut))
           THEN phase' = "listing" /\ queue' = <<Listing!Search(Root, cut)>>
           ELSE phase' = "failed" /\ UNCHANGED queue
  BY DEF Listing!Start
<1>1. /\ tree \in Trees /\ recursive \in BOOLEAN /\ entries = <<>> /\ reading_from = 1
      /\ paths = {} /\ strings = {} /\ queue = <<>>
      /\ tree' = tree /\ recursive' = recursive /\ reading_from' = reading_from
      /\ entries' = entries /\ paths' = paths /\ strings' = strings
  BY DEF ListingInv, Listing!Start
<1>2. handles' \subseteq {Root} /\ patterns' \subseteq {Root}
  <2>1. handles = {} /\ patterns = {}
    BY DEF ListingInv, Listing!Start
  <2> QED BY <1>0, <2>1 DEF Listing!Begins
<1>3. CASE ~Listing!Has(Listing!Search(Root, cut))
  <2>1. phase' = "failed" /\ queue' = <<>>
    BY <1>0, <1>1, <1>3
  <2> QED BY <1>1, <1>2, <2>1 DEF ListingInv
<1>4. CASE Listing!Has(Listing!Search(Root, cut))
  <2> DEFINE s == [path |-> Root, next |-> 1, cut |-> cut]
             q == <<s>>
  <2>1. phase' = "listing" /\ queue' = q
    BY <1>0, <1>4 DEF Listing!Search
  <2>2. s \in Searches /\ s.path = Root /\ s.next = 1
    BY <1>1, TreeIs DEF Searches
  <2>3. Len(tree[Root]) \in Nat
    BY <1>1, TreeIs
  <2> HIDE DEF s
  <2>4. q \in Seq(Searches) /\ Len(q) = 1 /\ q[1] = s
    BY <2>2
  <2> HIDE DEF q
  <2>5. QueueInv(q, 1)
    <3>1. \A i \in 1 .. 1 : i = 1
      OBVIOUS
    <3>2. \A i \in 2 .. 1 : FALSE
      OBVIOUS
    <3>3. 1 \in 1 .. Len(tree[Root]) + 1 /\ 1 \in 1 .. 2 /\ ~(1 < 1) /\ 1 + 1 = 2 /\ 1 > 0
      BY <2>3
    <3> QED BY <2>2, <2>4, <3>1, <3>2, <3>3 DEF QueueInv
  <2>6. ListedInv(<<>>, q)
    <3>1. <<>> \in Seq(Names) /\ Len(<<>>) = 0 /\ (\A i \in 1 .. 0 : FALSE) /\ ~(1 > 1)
      OBVIOUS
    <3>2. \A i \in 1 .. 1 : i = 1
      OBVIOUS
    <3>3. \A j \in 1 .. 1 - 1 : FALSE
      OBVIOUS
    <3> QED BY <2>2, <2>4, <3>1, <3>2, <3>3 DEF ListedInv
  <2>7. PathsOf(q) = {Root}
    BY <2>2, <2>4 DEF PathsOf
  <2>8. ItemsOf(<<>>) = {}
    BY DEF ItemsOf
  <2>9. Searches' = Searches /\ Names' = Names
    BY <1>1 DEF Searches, Names, Listing!Entries
  <2>10. QueueInv(queue, reading_from)'
    BY <1>1, <2>1, <2>5, <2>9 DEF QueueInv
  <2>11. ListedInv(entries, queue)'
    BY <1>1, <2>1, <2>6, <2>9 DEF ListedInv, EntryOf, ItemsOf, PathsOf
  <2>12. (PathsOf(queue) = {Root} /\ ItemsOf(entries) = {})'
    BY <1>1, <2>1, <2>7, <2>8 DEF PathsOf, ItemsOf
  <2> QED BY <1>1, <1>2, <2>1, <2>10, <2>11, <2>12 DEF ListingInv
<1> QED BY <1>3, <1>4

\* the invariants of a tree that does not change
LEMMA ListedStays ==
  ASSUME NEW v, NEW q, ListedInv(v, q), tree' = tree, recursive' = recursive
  PROVE  /\ ListedInv(v, q)'
         /\ entries' = v /\ queue' = q => ListedInv(entries, queue)'
<1>1. Names' = Names /\ (PathsOf(q))' = PathsOf(q) /\ (ItemsOf(v))' = ItemsOf(v)
  BY DEF Names, Listing!Entries, PathsOf, ItemsOf
<1>2. \A k, l \in 1 .. Len(v) : (v[k] \in DOMAIN tree /\ EntryOf(v[k], v[l]) => k < l)'
  BY DEF ListedInv, EntryOf
<1>3. v \in Seq(Names') /\ \A k, l \in 1 .. Len(v) : v[k] = v[l] => k = l
  BY <1>1 DEF ListedInv
<1>4. \A k \in 1 .. Len(v) : \E i \in 1 .. Len(q) : \E j \in 1 .. q[i].next - 1 :
        v[k] = tree'[q[i].path][j]
  BY DEF ListedInv
<1>5. \A i \in 1 .. Len(q) : \A j \in 1 .. q[i].next - 1 : tree'[q[i].path][j] \in ItemsOf(v)
  BY DEF ListedInv
<1>6. Len(q) > 1 => recursive'
  BY Zenon DEF ListedInv
<1>7. \A k \in 1 .. Len(v) : recursive' /\ v[k] \in DOMAIN tree' => v[k] \in PathsOf(q)
  BY Zenon DEF ListedInv
<1>8. ListedInv(v, q)'
  BY <1>1, <1>2, <1>3, <1>4, <1>5, <1>6, <1>7 DEF ListedInv
<1>9. ASSUME entries' = v, queue' = q PROVE ListedInv(entries, queue)'
  BY <1>8, <1>9 DEF ListedInv, ItemsOf, PathsOf, EntryOf
<1> QED BY <1>8, <1>9

\* a search that has come one entry further
Moved(q, r, stops) == [q EXCEPT ![r] = [path |-> @.path, next |-> @.next + 1, cut |-> stops]]

LEMMA EntriesMovedAre ==
  ASSUME NEW q \in Seq(Searches), NEW r \in 1 .. Len(q), NEW stops \in BOOLEAN
  PROVE  /\ Moved(q, r, stops) \in Seq(Searches) /\ Len(Moved(q, r, stops)) = Len(q)
         /\ \A i \in 1 .. Len(q) :
              /\ Moved(q, r, stops)[i].path = q[i].path
              /\ Moved(q, r, stops)[i].next = IF i = r THEN q[i].next + 1 ELSE q[i].next
         /\ \A i \in 1 .. Len(q) : i # r => Moved(q, r, stops)[i] = q[i]
<1> DEFINE n == Len(q)
           s == [path |-> q[r].path, next |-> q[r].next + 1, cut |-> stops]
           p == [i \in 1 .. n |-> IF i = r THEN s ELSE q[i]]
<1>1. n \in Nat /\ q = [i \in 1 .. n |-> q[i]] /\ \A i \in 1 .. n : q[i] \in Searches
  OBVIOUS
<1>2. q[r] \in Searches /\ q[r].path \in DOMAIN tree /\ q[r].next \in Nat
  BY SearchIs
<1>3. s.path = q[r].path /\ s.next = q[r].next + 1 /\ s \in Searches
  BY <1>2 DEF Searches
<1>4. Moved(q, r, stops) = p
  <2>1. Moved(q, r, stops) = [q EXCEPT ![r] = s]
    BY DEF Moved
  <2>2. DOMAIN q = 1 .. n
    OBVIOUS
  <2> HIDE DEF n, s
  <2> QED BY <2>1, <2>2
<1> HIDE DEF s
<1>5. p \in Seq(Searches) /\ Len(p) = n
  <2>1. p \in [1 .. n -> Searches]
    BY <1>1, <1>3
  <2> HIDE DEF p
  <2> QED BY <1>1, <2>1
<1>6. \A i \in 1 .. n : /\ p[i].path = q[i].path /\ p[i].next = IF i = r THEN q[i].next + 1 ELSE q[i].next
                        /\ i # r => p[i] = q[i]
  BY <1>3
<1> QED BY <1>4, <1>5, <1>6

\* What a step of a search makes of the queue: the entry it returns is new, and
\* if it is a directory that is to be listed it is queued.
LEMMA VisitEntry ==
  ASSUME ListingInv, Listing!Visit
  PROVE  ListingInv'
<1> DEFINE q == queue
           r == reading_from
           v == entries
           n == Len(q)
           c == Len(v)
           p == q[r].path
           k == q[r].next
           e == tree[p][k]
           grows == Listing!IsDirectory(e) /\ recursive
           z == queue'
           w == entries'
<1>1. /\ tree \in Trees /\ recursive \in BOOLEAN /\ phase = "listing" /\ r <= n
      /\ QueueInv(q, r) /\ ListedInv(v, q) /\ handles \subseteq PathsOf(q) /\ paths = PathsOf(q) \ {Root}
      /\ strings = ItemsOf(v) /\ patterns \subseteq {Root} \cup PathsOf(q)
  BY DEF ListingInv, Listing!Visit
<1>0. PICK stops \in BOOLEAN, cut \in BOOLEAN :
        IF grows
        THEN queue' = Append(Listing!Moved(stops), Listing!Search(e, cut)) /\ paths' = paths \cup {e}
             /\ Listing!Begins(e, cut)
        ELSE queue' = Listing!Moved(stops) /\ UNCHANGED <<handles, paths, patterns>>
  BY DEF Listing!Visit
<1>2. /\ entries' = Append(v, e) /\ strings' = strings \cup {e}
      /\ tree' = tree /\ recursive' = recursive /\ phase' = phase /\ reading_from' = r
      /\ k <= Len(tree[p])
      /\ grows => /\ queue' = Append(Moved(q, r, stops), [path |-> e, next |-> 1, cut |-> cut])
                  /\ handles' \subseteq handles \cup {e} /\ paths' = paths \cup {e}
                  /\ patterns' \subseteq patterns \cup {e}
      /\ ~grows => queue' = Moved(q, r, stops) /\ handles' = handles /\ paths' = paths /\ patterns' = patterns
  <2>1. /\ entries' = Append(v, e) /\ strings' = strings \cup {e}
        /\ tree' = tree /\ recursive' = recursive /\ phase' = phase /\ reading_from' = r
        /\ k <= Len(tree[p])
    BY DEF Listing!Visit, Listing!Has
  <2>2. Listing!Moved(stops) = Moved(q, r, stops)
    BY DEF Listing!Moved, Moved
  <2>3. Listing!Search(e, cut) = [path |-> e, next |-> 1, cut |-> cut]
    BY DEF Listing!Search
  <2> HIDE DEF grows, e
  <2>4. Listing!Begins(e, cut) => handles' \subseteq handles \cup {e} /\ patterns' \subseteq patterns \cup {e}
    BY DEF Listing!Begins
  <2>5. grows => /\ queue' = Append(Moved(q, r, stops), [path |-> e, next |-> 1, cut |-> cut])
                 /\ handles' \subseteq handles \cup {e} /\ paths' = paths \cup {e}
                 /\ patterns' \subseteq patterns \cup {e}
    BY <1>0, <2>2, <2>3, <2>4
  <2>6. ~grows => queue' = Moved(q, r, stops) /\ handles' = handles /\ paths' = paths /\ patterns' = patterns
    BY <1>0, <2>2
  <2> QED BY <2>1, <2>5, <2>6
<1>3. /\ q \in Seq(Searches) /\ n \in Nat /\ r \in 1 .. n /\ p \in DOMAIN tree /\ k \in Nat
      /\ k \in 1 .. Len(tree[p]) /\ Len(tree[p]) \in Nat /\ q[1].path = Root
  <2>1. q \in Seq(Searches) /\ r \in 1 .. n + 1 /\ n \in Nat /\ q[1].path = Root
    BY <1>1 DEF QueueInv
  <2>2. r \in 1 .. n
    BY <1>1, <2>1
  <2>3. p \in DOMAIN tree /\ k \in Nat
    BY <2>1, <2>2, SearchIs
  <2>4. Len(tree[p]) \in Nat
    BY <1>1, <2>3, TreeIs
  <2>5. k \in 1 .. Len(tree[p]) + 1
    BY <1>1, <2>2 DEF QueueInv
  <2> HIDE DEF k, p, n, r, q
  <2>6. k \in 1 .. Len(tree[p])
    BY <1>2, <2>4, <2>5
  <2> QED BY <2>1, <2>2, <2>3, <2>4, <2>6
<1>4. v \in Seq(Names) /\ c \in Nat /\ e \in Names /\ e # Root /\ EntryOf(p, e)
  <2>1. v \in Seq(Names)
    BY <1>1 DEF ListedInv
  <2>2. e \in Names /\ e # Root
    BY <1>1, <1>3, TreeIs
  <2> QED BY <1>3, <2>1, <2>2 DEF EntryOf
<1> HIDE DEF e, k, p, grows, n, c
<1>5. ASSUME NEW i \in 1 .. n, NEW j \in 1 .. q[i].next - 1, e = tree[q[i].path][j]
      PROVE  FALSE
  <2>1. q[i].path \in DOMAIN tree /\ q[i].next \in Nat /\ q[i].next \in 1 .. Len(tree[q[i].path]) + 1
    BY <1>1, <1>3, SearchIs DEF QueueInv, n
  <2>2. Len(tree[q[i].path]) \in Nat
    BY <1>1, <2>1, TreeIs
  <2>3. j \in 1 .. Len(tree[q[i].path])
    BY <2>1, <2>2
  <2>4. q[i].path = p /\ j = k
    BY <1>1, <1>3, <1>5, <2>1, <2>3, TreeIs DEF e
  <2>5. i = r
    BY <1>1, <1>3, <2>4 DEF QueueInv, p, n
  <2> QED BY <1>3, <2>4, <2>5 DEF k
<1>6. \A i \in 1 .. c : v[i] # e
  <2> SUFFICES ASSUME NEW i \in 1 .. c, v[i] = e PROVE FALSE
    OBVIOUS
  <2>1. PICK a \in 1 .. n : \E j \in 1 .. q[a].next - 1 : v[i] = tree[q[a].path][j]
    BY <1>1 DEF ListedInv, c, n
  <2> QED BY <1>5, <2>1
<1>7. e \notin PathsOf(q)
  <2> SUFFICES ASSUME NEW i \in 1 .. n, q[i].path = e PROVE FALSE
    BY DEF PathsOf, n
  <2>1. i # 1
    BY <1>3, <1>4
  <2>2. i \in 2 .. n
    BY <1>3, <2>1
  <2>3. PICK h \in 1 .. i - 1 : \E j \in 1 .. q[h].next - 1 : q[i].path = tree[q[h].path][j]
    BY <1>1, <2>2 DEF QueueInv, n
  <2>4. h \in 1 .. n
    BY <1>3, <2>2
  <2> QED BY <1>5, <2>3, <2>4
<1> DEFINE m == Moved(q, r, stops)
           s == [path |-> e, next |-> 1, cut |-> cut]
<1>8. /\ m \in Seq(Searches) /\ Len(m) = n
      /\ \A i \in 1 .. n : m[i].path = q[i].path /\ m[i].next = IF i = r THEN q[i].next + 1 ELSE q[i].next
      /\ \A i \in 1 .. n : i # r => m[i] = q[i]
  BY <1>3, EntriesMovedAre DEF n
<1>9. grows => e \in DOMAIN tree /\ s \in Searches
  BY DEF grows, Listing!IsDirectory, Searches
<1> DEFINE b == Len(z)
<1>10. /\ z \in Seq(Searches) /\ b = (IF grows THEN n + 1 ELSE n)
       /\ \A i \in 1 .. n : z[i].path = q[i].path /\ z[i].next = IF i = r THEN q[i].next + 1 ELSE q[i].next
       /\ \A i \in 1 .. n : i # r => z[i] = q[i]
       /\ grows => z[n + 1].path = e /\ z[n + 1].next = 1
  <2>1. CASE grows
    <3>1. z = Append(m, s) /\ s \in Searches
      BY <1>2, <1>9, <2>1
    <3>2. s.path = e /\ s.next = 1
      OBVIOUS
    <3> HIDE DEF m, s
    <3>3. z \in Seq(Searches) /\ Len(z) = n + 1 /\ (\A i \in 1 .. n : z[i] = m[i]) /\ z[n + 1] = s
      BY <1>8, <3>1, AppendProperties
    <3> QED BY <1>8, <2>1, <3>2, <3>3
  <2>2. CASE ~grows
    BY <1>2, <1>8, <2>2
  <2> QED BY <2>1, <2>2
<1> HIDE DEF m, s
<1>11. /\ w \in Seq(Names) /\ Len(w) = c + 1 /\ w[c + 1] = e
       /\ \A i \in 1 .. c : w[i] = v[i]
  BY <1>2, <1>4, AppendProperties DEF c
<1> HIDE DEF q, v, r, z, w, b
<1>12. b \in Nat /\ b >= n /\ b <= n + 1 /\ \A i \in 1 .. b : i \in 1 .. n \/ (grows /\ i = n + 1)
  <2>1. b \in Nat /\ b >= n /\ b <= n + 1
    BY <1>3, <1>10
  <2> QED BY <1>3, <1>10, <2>1
\* what was found, and what is found now
<1>13. \A i \in 1 .. n : \A j \in 1 .. q[i].next - 1 : j \in 1 .. z[i].next - 1
  <2> SUFFICES ASSUME NEW i \in 1 .. n, NEW j \in 1 .. q[i].next - 1 PROVE j \in 1 .. z[i].next - 1
    OBVIOUS
  <2>1. q[i].next \in Nat
    BY <1>3, SearchIs DEF n
  <2>2. z[i].next = q[i].next + 1 \/ z[i].next = q[i].next
    BY <1>10
  <2> QED BY <2>1, <2>2
<1>14. r \in 1 .. n /\ z[r].path = p /\ z[r].next - 1 = k /\ k \in 1 .. z[r].next - 1
  <2>1. z[r].path = p /\ z[r].next = k + 1
    BY <1>3, <1>10 DEF p, k
  <2> QED BY <1>3, <2>1
<1>15. ASSUME NEW i \in 1 .. b, NEW j \in 1 .. z[i].next - 1
       PROVE  \/ i \in 1 .. n /\ j \in 1 .. q[i].next - 1 /\ z[i].path = q[i].path
              \/ i = r /\ j = k
  <2>1. CASE i \in 1 .. n /\ i # r
    BY <1>10, <2>1
  <2>2. CASE i = r
    <3>1. q[r].next = k /\ z[r].path = q[r].path /\ j \in 1 .. k
      BY <1>3, <1>14, <2>2 DEF p, k
    <3>2. j = k \/ j \in 1 .. k - 1
      BY <1>3, <3>1
    <3> QED BY <1>3, <2>2, <3>1, <3>2
  <2>3. CASE grows /\ i = n + 1
    <3>1. z[i].next = 1
      BY <1>10, <2>3
    <3>2. FALSE
      BY <3>1
    <3> QED BY <3>2
  <2> QED BY <1>12, <2>1, <2>2, <2>3
<1>16. QueueInv(z, r)
  <2>1. z \in Seq(Searches) /\ b > 0 /\ z[1].path = Root /\ r \in 1 .. b + 1
    <3>1. 1 \in 1 .. n /\ b > 0 /\ r \in 1 .. b + 1
      BY <1>3, <1>12
    <3> QED BY <1>3, <1>10, <3>1
  <2>2. ASSUME NEW i \in 1 .. b
        PROVE  /\ z[i].next \in 1 .. Len(tree[z[i].path]) + 1
               /\ i < r /\ ~z[i].cut => z[i].next = Len(tree[z[i].path]) + 1
    <3>1. CASE i \in 1 .. n /\ i # r
      BY <1>1, <1>10, <3>1 DEF QueueInv, n
    <3>2. CASE i = r
      <4>1. z[i].path = p /\ z[i].next = k + 1
        BY <1>3, <1>10, <3>2 DEF p, k
      <4>2. k + 1 \in 1 .. Len(tree[p]) + 1 /\ ~(i < r)
        BY <1>3, <3>2
      <4> QED BY <4>1, <4>2
    <3>3. CASE grows /\ i = n + 1
      <4>1. z[i].next = 1 /\ z[i].path = e /\ e \in DOMAIN tree
        BY <1>9, <1>10, <3>3
      <4>2. Len(tree[e]) \in Nat
        BY <1>1, <4>1, TreeIs
      <4>3. ~(i < r)
        BY <1>3, <3>3
      <4> QED BY <4>1, <4>2, <4>3
    <3> QED BY <1>12, <3>1, <3>2, <3>3
  <2>3. ASSUME NEW i \in 1 .. b, NEW j \in 1 .. b, z[i].path = z[j].path PROVE i = j
    <3>1. \A a \in 1 .. n : z[a].path = q[a].path /\ z[a].path # e
      BY <1>7, <1>10 DEF PathsOf, n
    <3>2. CASE i \in 1 .. n /\ j \in 1 .. n
      BY <1>1, <2>3, <3>1, <3>2 DEF QueueInv, n
    <3>3. CASE i \notin 1 .. n \/ j \notin 1 .. n
      BY <1>10, <1>12, <2>3, <3>1, <3>3
    <3> QED BY <3>2, <3>3
  <2>4. ASSUME NEW i \in 2 .. b
        PROVE  \E h \in 1 .. i - 1 : \E j \in 1 .. z[h].next - 1 : z[i].path = tree[z[h].path][j]
    <3>1. CASE i \in 1 .. n
      <4>1. i \in 2 .. n
        BY <1>3, <3>1
      <4>2. PICK h \in 1 .. i - 1 : \E j \in 1 .. q[h].next - 1 : q[i].path = tree[q[h].path][j]
        BY <1>1, <4>1 DEF QueueInv, n
      <4>3. PICK j \in 1 .. q[h].next - 1 : q[i].path = tree[q[h].path][j]
        BY <4>2
      <4>4. h \in 1 .. n
        BY <1>3, <4>1
      <4>5. z[h].path = q[h].path /\ z[i].path = q[i].path /\ j \in 1 .. z[h].next - 1
        BY <1>10, <1>13, <3>1, <4>4
      <4> QED BY <4>3, <4>5
    <3>2. CASE grows /\ i = n + 1
      <4>1. z[i].path = e
        BY <1>10, <3>2
      <4>2. e = tree[z[r].path][k]
        BY <1>14 DEF e
      <4>3. r \in 1 .. i - 1
        BY <1>3, <3>2
      <4> QED BY <1>14, <4>1, <4>2, <4>3
    <3>3. i \in 1 .. b
      BY <1>12
    <3> QED BY <1>12, <3>1, <3>2, <3>3
  <2> QED BY <2>1, <2>2, <2>3, <2>4 DEF QueueInv, b
<1>17. PathsOf(z) = IF grows THEN PathsOf(q) \cup {e} ELSE PathsOf(q)
  <2>1. \A i \in 1 .. n : z[i].path = q[i].path /\ i \in 1 .. b
    BY <1>3, <1>10, <1>12
  <2>2. CASE grows
    <3>1. n + 1 \in 1 .. b /\ z[n + 1].path = e
      BY <1>3, <1>10, <2>2
    <3>2. \A i \in 1 .. b : i \in 1 .. n \/ i = n + 1
      BY <1>12
    <3>3. \A x \in PathsOf(z) : x \in PathsOf(q) \cup {e}
      BY <2>1, <3>1, <3>2 DEF PathsOf, b, n
    <3>4. \A x \in PathsOf(q) \cup {e} : x \in PathsOf(z)
      BY <2>1, <3>1 DEF PathsOf, b, n
    <3> QED BY <2>2, <3>3, <3>4
  <2>3. CASE ~grows
    <3>1. b = n
      BY <1>10, <2>3
    <3> QED BY <2>1, <2>3, <3>1 DEF PathsOf, b, n
  <2> QED BY <2>2, <2>3
<1>18. ItemsOf(w) = ItemsOf(v) \cup {e}
  <2>1. c + 1 \in 1 .. c + 1 /\ \A i \in 1 .. c + 1 : i \in 1 .. c \/ i = c + 1
    BY <1>4
  <2>2. \A i \in 1 .. c : i \in 1 .. c + 1
    BY <1>4
  <2>3. \A x \in ItemsOf(w) : x \in ItemsOf(v) \cup {e}
    BY <1>11, <2>1 DEF ItemsOf, c
  <2>4. \A x \in ItemsOf(v) \cup {e} : x \in ItemsOf(w)
    BY <1>11, <2>1, <2>2 DEF ItemsOf, c
  <2> QED BY <2>3, <2>4
<1>19. ListedInv(w, z)
  <2>1. \A i \in 1 .. c + 1 : (i \in 1 .. c /\ w[i] = v[i]) \/ (i = c + 1 /\ w[i] = e)
    BY <1>4, <1>11
  <2>2. ASSUME NEW i \in 1 .. c + 1, NEW j \in 1 .. c + 1, w[i] = w[j] PROVE i = j
    <3>1. \A x, y \in 1 .. c : v[x] = v[y] => x = y
      BY <1>1 DEF ListedInv, c
    <3> QED BY <1>6, <2>1, <2>2, <3>1
  <2>3. ASSUME NEW i \in 1 .. c + 1
        PROVE  \E a \in 1 .. b : \E j \in 1 .. z[a].next - 1 : w[i] = tree[z[a].path][j]
    <3>1. CASE i \in 1 .. c /\ w[i] = v[i]
      <4>1. PICK a \in 1 .. n : \E j \in 1 .. q[a].next - 1 : v[i] = tree[q[a].path][j]
        BY <1>1, <3>1 DEF ListedInv, c, n
      <4>2. PICK j \in 1 .. q[a].next - 1 : v[i] = tree[q[a].path][j]
        BY <4>1
      <4>3. j \in 1 .. z[a].next - 1 /\ z[a].path = q[a].path /\ a \in 1 .. b
        BY <1>3, <1>10, <1>12, <1>13
      <4> QED BY <3>1, <4>2, <4>3
    <3>2. CASE w[i] = e
      <4>1. r \in 1 .. b
        BY <1>3, <1>12
      <4>2. e = tree[z[r].path][k]
        BY <1>14 DEF e
      <4> QED BY <1>14, <3>2, <4>1, <4>2
    <3> QED BY <2>1, <3>1, <3>2
  <2>4. ASSUME NEW a \in 1 .. b, NEW j \in 1 .. z[a].next - 1
        PROVE  tree[z[a].path][j] \in ItemsOf(w)
    <3>1. CASE a \in 1 .. n /\ j \in 1 .. q[a].next - 1 /\ z[a].path = q[a].path
      <4>1. tree[q[a].path][j] \in ItemsOf(v)
        BY <1>1, <3>1 DEF ListedInv, n
      <4> QED BY <1>18, <3>1, <4>1
    <3>2. CASE a = r /\ j = k
      <4>1. tree[z[a].path][j] = e
        BY <1>14, <3>2 DEF e
      <4> QED BY <1>18, <4>1
    <3> QED BY <1>15, <3>1, <3>2
  <2>5. ASSUME NEW i \in 1 .. c + 1, NEW j \in 1 .. c + 1, w[i] \in DOMAIN tree, EntryOf(w[i], w[j])
        PROVE  i < j
    <3>1. ASSUME i = c + 1, w[i] = e, NEW a \in DOMAIN tree, NEW x \in 1 .. Len(tree[a]),
                 w[j] = tree[a][x]
          PROVE  a = e
      <4>1. PICK y \in 1 .. Len(tree[e]) : w[j] = tree[e][y]
        BY <2>5, <3>1 DEF EntryOf
      <4>2. e \in DOMAIN tree
        BY <2>5, <3>1
      <4> QED BY <1>1, <3>1, <4>1, <4>2, TreeIs
    <3>2. CASE i = c + 1 /\ w[i] = e /\ w[j] = e
      <4>1. p = e
        BY <1>3, <3>1, <3>2 DEF e
      <4>2. p \in PathsOf(q)
        BY <1>3 DEF PathsOf, p, n
      <4> QED BY <1>7, <4>1, <4>2
    <3>3. CASE i = c + 1 /\ w[i] = e /\ j \in 1 .. c /\ w[j] = v[j]
      <4>1. PICK a \in 1 .. n : \E x \in 1 .. q[a].next - 1 : v[j] = tree[q[a].path][x]
        BY <1>1, <3>3 DEF ListedInv, c, n
      <4>2. PICK x \in 1 .. q[a].next - 1 : v[j] = tree[q[a].path][x]
        BY <4>1
      <4>3. q[a].path \in DOMAIN tree /\ q[a].next \in Nat /\ q[a].next \in 1 .. Len(tree[q[a].path]) + 1
        BY <1>1, <1>3, SearchIs DEF QueueInv, n
      <4>4. Len(tree[q[a].path]) \in Nat
        BY <1>1, <4>3, TreeIs
      <4>5. x \in 1 .. Len(tree[q[a].path])
        BY <4>3, <4>4
      <4>6. q[a].path = e
        BY <3>1, <3>3, <4>2, <4>3, <4>5
      <4> QED BY <1>7, <4>6 DEF PathsOf, n
    <3>4. CASE i \in 1 .. c /\ j \in 1 .. c
      BY <1>1, <1>11, <2>5, <3>4 DEF ListedInv, c
    <3>5. CASE i \in 1 .. c /\ j = c + 1
      BY <1>4, <3>5
    <3> QED BY <2>1, <3>2, <3>3, <3>4, <3>5
  <2>6. b > 1 => recursive
    <3>1. CASE grows
      BY <3>1, Zenon DEF grows
    <3>2. CASE ~grows
      <4>1. b = n
        BY <1>10, <3>2
      <4> QED BY <1>1, <4>1, Zenon DEF ListedInv, n
    <3> QED BY <3>1, <3>2
  <2>7. ASSUME NEW i \in 1 .. c + 1, recursive, w[i] \in DOMAIN tree PROVE w[i] \in PathsOf(z)
    <3>1. CASE i \in 1 .. c /\ w[i] = v[i]
      <4>1. v[i] \in PathsOf(q)
        BY <1>1, <2>7, <3>1 DEF ListedInv, c
      <4> QED BY <1>17, <3>1, <4>1
    <3>2. CASE w[i] = e
      <4>1. grows
        BY <2>7, <3>2 DEF grows, Listing!IsDirectory
      <4> QED BY <1>17, <3>2, <4>1
    <3> QED BY <2>1, <3>1, <3>2
  <2> QED BY <1>11, <2>2, <2>3, <2>4, <2>5, <2>6, <2>7 DEF ListedInv, b
<1>20. /\ handles' \subseteq PathsOf(z) /\ paths' = PathsOf(z) \ {Root} /\ strings' = ItemsOf(w)
       /\ patterns' \subseteq {Root} \cup PathsOf(z)
  BY <1>1, <1>2, <1>4, <1>17, <1>18 DEF v, q
<1>21. Searches' = Searches /\ Names' = Names
  BY <1>2 DEF Searches, Names, Listing!Entries
<1>22. QueueInv(queue, reading_from)'
  BY <1>2, <1>16, <1>21 DEF QueueInv, z, r
<1>23. ListedInv(entries, queue)'
  BY <1>2, <1>19, ListedStays DEF z, w
<1>24. (PathsOf(queue))' = PathsOf(z) /\ (ItemsOf(entries))' = ItemsOf(w)
  BY DEF PathsOf, ItemsOf, z, w
<1> QED BY <1>1, <1>2, <1>20, <1>22, <1>23, <1>24 DEF ListingInv

LEMMA NextSearch ==
  ASSUME ListingInv, Listing!NextDirectory
  PROVE  ListingInv'
<1>1. /\ QueueInv(queue, reading_from) /\ ListedInv(entries, queue) /\ tree \in Trees
      /\ handles \subseteq PathsOf(queue) /\ paths = PathsOf(queue) \ {Root} /\ strings = ItemsOf(entries)
  BY DEF ListingInv, Listing!NextDirectory
<1>2. /\ phase = "listing" /\ reading_from' = reading_from + 1 /\ reading_from <= Len(queue)
      /\ ~queue[reading_from].cut => ~(queue[reading_from].next <= Len(tree[queue[reading_from].path]))
      /\ UNCHANGED <<tree, recursive, phase, queue, entries, handles, paths, strings, patterns>>
  BY DEF Listing!NextDirectory, Listing!Has
<1> DEFINE q == queue
           r == reading_from
           n == Len(q)
<1>3. q \in Seq(Searches) /\ n \in Nat /\ r \in 1 .. n
  <2>1. q \in Seq(Searches) /\ n \in Nat /\ r \in 1 .. n + 1
    BY <1>1 DEF QueueInv
  <2> QED BY <1>2, <2>1
<1> HIDE DEF n, r, q
<1>4. ~q[r].cut => q[r].next = Len(tree[q[r].path]) + 1
  <2> HAVE ~q[r].cut
  <2>1. /\ q[r].next \in 1 .. Len(tree[q[r].path]) + 1 /\ q[r].path \in DOMAIN tree /\ q[r].next \in Nat
        /\ ~(q[r].next <= Len(tree[q[r].path]))
    BY <1>1, <1>2, <1>3, SearchIs DEF QueueInv, q, r, n
  <2>2. Len(tree[q[r].path]) \in Nat
    BY <1>1, <2>1, TreeIs
  <2> QED BY <2>1, <2>2
<1>5. QueueInv(q, r + 1)
  <2>1. ASSUME NEW i \in 1 .. n
        PROVE  i < r + 1 /\ ~q[i].cut => q[i].next = Len(tree[q[i].path]) + 1
    <3>1. i < r /\ ~q[i].cut => q[i].next = Len(tree[q[i].path]) + 1
      BY <1>1 DEF QueueInv, n, q, r
    <3>2. i < r + 1 => i < r \/ i = r
      BY <1>3
    <3> QED BY <1>4, <3>1, <3>2
  <2>2. r + 1 \in 1 .. n + 1
    BY <1>3
  <2> QED BY <1>1, <2>1, <2>2 DEF QueueInv, q, n
<1>6. QueueInv(queue, reading_from)'
  <2>1. Searches' = Searches
    BY <1>2 DEF Searches
  <2> QED BY <1>2, <1>5, <2>1 DEF QueueInv, q, r
<1>7. ListedInv(entries, queue)'
  <2>1. ListedInv(entries', queue')
    BY <1>1, <1>2
  <2> QED BY <1>2, <2>1, ListedStays
<1>8. (PathsOf(queue))' = PathsOf(queue) /\ (ItemsOf(entries))' = ItemsOf(entries)
  BY <1>2 DEF PathsOf, ItemsOf
<1> QED BY <1>1, <1>2, <1>6, <1>7, <1>8 DEF ListingInv

LEMMA CloseListing ==
  ASSUME ListingInv, Listing!Close
  PROVE  ListingInv'
<1>1. /\ QueueInv(queue, reading_from) /\ ListedInv(entries, queue) /\ tree \in Trees /\ recursive \in BOOLEAN
      /\ handles \subseteq PathsOf(queue) /\ paths = PathsOf(queue) \ {Root} /\ strings = ItemsOf(entries)
      /\ patterns \subseteq {Root} \cup PathsOf(queue)
  BY DEF ListingInv, Listing!Close
<1>2. /\ reading_from > Len(queue) /\ phase' = "listed"
      /\ handles' = {} /\ paths' = {} /\ entries' = Append(entries, "terminator")
      /\ UNCHANGED <<tree, recursive, queue, reading_from, strings, patterns>>
  BY <1>1 DEF Listing!Close, Listing!Freed, Listing!Terminator, PathsOf
<1>3. reading_from = Len(queue) + 1
  <2>1. Len(queue) \in Nat /\ reading_from \in 1 .. Len(queue) + 1
    BY <1>1 DEF QueueInv
  <2> QED BY <1>2, <2>1
<1>4. QueueInv(queue, reading_from)'
  <2>1. Searches' = Searches
    BY <1>2 DEF Searches
  <2> QED BY <1>1, <1>2, <2>1 DEF QueueInv
<1>5. (\E v : ListedInv(v, queue) /\ strings = ItemsOf(v) /\ entries = Append(v, "terminator"))'
  <2>1. PICK v : v = entries
    OBVIOUS
  <2>2. ListedInv(v, queue) /\ strings' = ItemsOf(v) /\ entries' = Append(v, "terminator")
    BY <1>1, <1>2, <2>1
  <2>3. PICK q : q = queue
    OBVIOUS
  <2>4. ListedInv(v, q)' /\ queue' = q
    BY <1>2, <2>2, <2>3, ListedStays
  <2>5. ListedInv(v, queue)'
    BY <2>4 DEF ListedInv, PathsOf
  <2> QED BY <2>2, <2>5 DEF ItemsOf
<1>6. tree' \in Trees /\ recursive' \in BOOLEAN /\ reading_from' = Len(queue') + 1
  BY <1>1, <1>2, <1>3
<1>7. patterns' \subseteq {Root} \cup (PathsOf(queue))'
  BY <1>1, <1>2 DEF PathsOf
<1> QED BY <1>2, <1>4, <1>5, <1>6, <1>7 DEF ListingInv

LEMMA FreeListing ==
  ASSUME ListingInv, Listing!directory_list_contents_free
  PROVE  ListingInv'
<1>1. /\ phase \in {"listed", "failed"} /\ phase' = "freed" /\ strings' = strings \ Listing!FreedStrings
      /\ tree \in Trees /\ recursive \in BOOLEAN
      /\ UNCHANGED <<tree, recursive, queue, entries, handles, paths, patterns>> /\ paths = {}
      /\ entries # <<>> => handles = {}
  BY DEF ListingInv, Listing!directory_list_contents_free
<1>2. strings' = {}
  <2>1. CASE phase = "failed"
    BY <1>1, <2>1 DEF ListingInv
  <2>2. CASE phase = "listed"
    <3> DEFINE T == "terminator"
    <3>1. PICK v : ListedInv(v, queue) /\ strings = ItemsOf(v) /\ entries = Append(v, T)
      BY <2>2 DEF ListingInv
    <3> DEFINE c == Len(v)
    <3>2. v \in Seq(Names) /\ c \in Nat /\ v \in Seq(Names \cup {T}) /\ T \in Names \cup {T}
      <4>1. v \in Seq(Names)
        BY <3>1 DEF ListedInv
      <4> QED BY <4>1
    <3>3. \A i \in 1 .. c : v[i] # T
      BY <1>1, <3>2, TreeIs
    <3> HIDE DEF T
    <3>4. Len(entries) = c + 1 /\ \A i \in 1 .. c : entries[i] = v[i]
      BY <3>1, <3>2, AppendProperties
    <3> HIDE DEF c
    <3>5. ASSUME NEW i \in 1 .. c PROVE v[i] \in Listing!FreedStrings
      <4>1. i \in 1 .. Len(entries) /\ \A k \in 1 .. i : k \in 1 .. c
        BY <3>2, <3>4
      <4>2. \A k \in 1 .. i : entries[k] # Listing!Terminator
        BY <3>3, <3>4, <4>1 DEF Listing!Terminator, T
      <4>3. i \in {j \in 1 .. Len(entries) : \A k \in 1 .. j : entries[k] # Listing!Terminator}
        BY <4>1, <4>2
      <4>4. entries[i] \in Listing!FreedStrings
        BY <4>3 DEF Listing!FreedStrings
      <4> QED BY <3>4, <4>4
    <3>6. strings \subseteq Listing!FreedStrings
      BY <3>1, <3>5 DEF ItemsOf, c
    <3> QED BY <1>1, <3>6
  <2> QED BY <1>1, <2>1, <2>2
<1>3. patterns' \subseteq {Root} \cup (PathsOf(queue))'
  BY <1>1 DEF ListingInv, PathsOf
<1> QED BY <1>1, <1>2, <1>3 DEF ListingInv

LEMMA ListingStep == ListingInv /\ Listing!Next => ListingInv'
BY StartListing, VisitEntry, NextSearch, CloseListing, FreeListing DEF Listing!Next

LEMMA ListingStays ==
  ASSUME ListingInv, UNCHANGED Listing!vars
  PROVE  ListingInv'
<1>1. UNCHANGED <<tree, recursive, phase, queue, reading_from, entries, handles, paths, strings, patterns>>
  BY DEF Listing!vars
<1>2. Searches' = Searches /\ (PathsOf(queue))' = PathsOf(queue)
  BY <1>1 DEF Searches, PathsOf
<1>3. QueueInv(queue, reading_from) => QueueInv(queue, reading_from)'
  BY <1>1, <1>2 DEF QueueInv
<1>4. \A v, q : ListedInv(v, q) => ListedInv(v, q)'
  BY <1>1, ListedStays
<1>8. (patterns \subseteq {Root} \cup PathsOf(queue))'
  BY <1>1, <1>2 DEF ListingInv
<1>5. CASE phase = "listing"
  <2>1. QueueInv(queue, reading_from)' /\ phase' = "listing"
    BY <1>1, <1>3, <1>5 DEF ListingInv
  <2>2. ListedInv(entries, queue)'
    <3>1. ListedInv(entries', queue')
      BY <1>1, <1>5 DEF ListingInv
    <3> QED BY <1>1, <3>1, ListedStays
  <2>3. (handles \subseteq PathsOf(queue) /\ paths = PathsOf(queue) \ {Root} /\ strings = ItemsOf(entries))'
    BY <1>1, <1>5 DEF ListingInv, PathsOf, ItemsOf
  <2> QED BY <1>1, <1>8, <2>1, <2>2, <2>3 DEF ListingInv
<1>6. CASE phase = "listed"
  <2>1. QueueInv(queue, reading_from)' /\ phase' = "listed" /\ reading_from' = Len(queue') + 1
    BY <1>1, <1>3, <1>6 DEF ListingInv
  <2>2. (\E v : ListedInv(v, queue) /\ strings = ItemsOf(v) /\ entries = Append(v, "terminator"))'
    <3>1. PICK v : ListedInv(v, queue) /\ strings = ItemsOf(v) /\ entries = Append(v, "terminator")
      BY <1>6 DEF ListingInv
    <3>2. PICK q : q = queue
      OBVIOUS
    <3>3. ListedInv(v, q)' /\ queue' = q
      BY <1>1, <1>4, <3>1, <3>2
    <3>4. ListedInv(v, queue)'
      BY <3>3 DEF ListedInv, PathsOf
    <3> QED BY <1>1, <3>1, <3>4 DEF ItemsOf
  <2> QED BY <1>1, <1>6, <1>8, <2>1, <2>2 DEF ListingInv
<1>7. CASE phase \notin {"listing", "listed"}
  BY <1>1, <1>7, <1>8 DEF ListingInv
<1> QED BY <1>5, <1>6, <1>7

-----------------------------------------------------------------------------
(* Benchmarks *)

LEMMA BenchConstants ==
  /\ max_time_ns \in Nat /\ min_batch_size \in Nat /\ min_batch_size > 0
  /\ min_end_checks \in Nat /\ min_end_checks > 0
  /\ WarmUps \subseteq Int /\ HUGE \in Nat /\ \A t \in Ticks : t \in Nat /\ t <= HUGE
  /\ batch_of_clock_accuracy_multiple \in Nat
  /\ \A runs \in ClockRuns : runs \in Seq(Nat) /\ Len(runs) \in Nat /\ Len(runs) > 0
<1>1. \A runs \in ClockRuns : runs \in Seq(Nat) /\ runs # <<>>
  BY BenchAssumption
<1>2. \A runs \in ClockRuns : runs \in Seq(Nat) /\ Len(runs) \in Nat /\ Len(runs) > 0
  BY <1>1, EmptySeq
<1>3. \A t \in Ticks : t \in Nat /\ t <= HUGE
  BY BenchAssumption
<1> QED BY <1>2, <1>3, BenchAssumption

LEMMA GreaterIs ==
  /\ \A a, b \in Int : Bench!Greater(a, b) \in Int /\ Bench!Greater(a, b) >= a /\ Bench!Greater(a, b) >= b
  /\ \A a \in Int, b \in Nat : Bench!Greater(a, b) \in Nat
BY DEF Bench!Greater

\* The readings of the clock can be added up.
LEMMA ClockSum ==
  ASSUME NEW runs \in Seq(Nat)
  PROVE  \E f : f = [n \in 0 .. Len(runs) |->
                       IF n = 0 THEN Bench!Nothing ELSE Bench!Added(f[n - 1], runs[n])]
<1> DEFINE N == Len(runs)
           Step(f, n) == IF n = 0 THEN Bench!Nothing ELSE Bench!Added(f[n - 1], runs[n])
           Upto(k) == \E f : \A n \in 0 .. N : n < k => f[n] = Step(f, n)
           Missing == {k \in Nat : ~Upto(k)}
<1>1. N \in Nat /\ \A n \in 0 .. N : n # 0 => n - 1 \in 0 .. N
  OBVIOUS
<1> HIDE DEF N
<1>2. ASSUME Missing # {} PROVE FALSE
  <2>1. PICK k \in Missing : \A n \in Missing : k <= n
    <3>1. Missing \in SUBSET Nat
      OBVIOUS
    <3> HIDE DEF Missing
    <3> QED BY <1>2, <3>1, SmallestElement
  <2>2. k \in Nat /\ ~Upto(k)
    OBVIOUS
  <2>3. k # 0
    <3>1. \A n \in 0 .. N : ~(n < 0)
      OBVIOUS
    <3>2. Upto(0)
      BY <3>1
    <3> QED BY <2>2, <3>2
  <2>4. k - 1 \in Nat /\ k - 1 < k
    BY <2>2, <2>3
  <2>5. Upto(k - 1)
    <3>1. ~(k <= k - 1)
      BY <2>4
    <3>2. k - 1 \notin Missing
      BY <2>1, <3>1
    <3> QED BY <2>4, <3>2
  <2>6. PICK f : \A n \in 0 .. N : n < k - 1 => f[n] = Step(f, n)
    BY <2>5
  <2> DEFINE g == [n \in 0 .. N |-> Step(f, n)]
  <2>7. ASSUME NEW n \in 0 .. N, n < k PROVE g[n] = Step(g, n)
    <3>1. CASE n = 0
      BY <3>1
    <3>2. CASE n # 0
      <4> DEFINE p == n - 1
      <4>1. p \in 0 .. N /\ p < k - 1
        BY <1>1, <2>2, <2>7, <3>2
      <4>2. f[p] = Step(f, p)
        <5> HIDE DEF p, Step
        <5> QED BY <2>6, <4>1
      <4>3. g[p] = Step(f, p)
        <5> HIDE DEF p, Step
        <5> QED BY <4>1
      <4>4. g[n] = Bench!Added(f[p], runs[n]) /\ Step(g, n) = Bench!Added(g[p], runs[n])
        BY <3>2
      <4> HIDE DEF g, Step, p
      <4> QED BY <4>2, <4>3, <4>4
    <3> QED BY <3>1, <3>2
  <2>8. Upto(k)
    <3> HIDE DEF g
    <3> QED BY <2>7
  <2> QED BY <2>2, <2>8
<1>3. N + 1 \in Nat /\ \A n \in 0 .. N : n < N + 1
  BY <1>1
<1>4. Upto(N + 1)
  <2>1. N + 1 \notin Missing
    BY <1>2
  <2> QED BY <1>3, <2>1
<1>5. PICK f : \A n \in 0 .. N : f[n] = Step(f, n)
  BY <1>3, <1>4
<1> DEFINE g == [n \in 0 .. N |-> f[n]]
<1>6. \A n \in 0 .. N : g[n] = Step(g, n)
  <2> SUFFICES ASSUME NEW n \in 0 .. N PROVE f[n] = Step(g, n)
    OBVIOUS
  <2>1. CASE n = 0
    BY <1>5, <2>1
  <2>2. CASE n # 0
    <3>1. g[n - 1] = f[n - 1]
      BY <1>1, <2>2
    <3> HIDE DEF g
    <3> QED BY <1>5, <2>2, <3>1
  <2> QED BY <2>1, <2>2
<1>7. g = [n \in 0 .. N |-> g[n]]
  OBVIOUS
<1> HIDE DEF g
<1>8. g = [n \in 0 .. N |-> Step(g, n)]
  BY <1>6, <1>7
<1> QED BY <1>8 DEF N

LEMMA ClockAverage ==
  ASSUME NEW runs \in Seq(Nat), Len(runs) > 0
  PROVE  Bench!calculate_clock_stats(runs).average \in Nat
<1> DEFINE N == Len(runs)
           Sums(f) == f = [n \in 0 .. N |->
                             IF n = 0 THEN Bench!Nothing ELSE Bench!Added(f[n - 1], runs[n])]
           first == CHOOSE f : Sums(f)
           average == first[N].sum \div N
<1>1. \E f : Sums(f)
  BY ClockSum
<1>2. Sums(first)
  <2> HIDE DEF Sums
  <2> QED BY <1>1
<1>3. N \in Nat /\ N > 0
  OBVIOUS
<1> HIDE DEF first, N
<1>4. ASSUME NEW n \in 0 .. N PROVE first[n].sum \in Nat
  <2> DEFINE Wrong == {k \in 0 .. N : ~(first[k].sum \in Nat)}
  <2>1. ASSUME Wrong # {} PROVE FALSE
    <3>1. Wrong \in SUBSET Nat
      OBVIOUS
    <3>2. PICK k \in Wrong : \A l \in Wrong : k <= l
      <4> HIDE DEF Wrong
      <4> QED BY <2>1, <3>1, SmallestElement
    <3>3. k \in 0 .. N /\ ~(first[k].sum \in Nat)
      OBVIOUS
    <3>4. first[k] = IF k = 0 THEN Bench!Nothing ELSE Bench!Added(first[k - 1], runs[k])
      BY <1>2
    <3>5. k # 0
      BY <3>3, <3>4 DEF Bench!Nothing
    <3> DEFINE p == k - 1
    <3>6. p \in 0 .. N /\ ~(k <= p) /\ k \in 1 .. N
      BY <1>3, <3>3, <3>5
    <3>7. first[p].sum \in Nat
      BY <3>2, <3>6
    <3>8. first[k].sum = first[p].sum + runs[k]
      BY <3>4, <3>5 DEF Bench!Added
    <3>9. runs[k] \in Nat
      BY <3>6 DEF N
    <3> HIDE DEF p
    <3> QED BY <3>3, <3>7, <3>8, <3>9
  <2> QED BY <2>1
<1>5. first[N].sum \in Nat
  BY <1>3, <1>4
<1>6. average \in Nat
  BY <1>3, <1>5
<1>7. Bench!calculate_clock_stats(runs).average = IF average = 0 THEN 1 ELSE average
  BY DEF Bench!calculate_clock_stats, first, N
<1> HIDE DEF average
<1> QED BY <1>6, <1>7

-----------------------------------------------------------------------------
(* Sums of squares *)

\* Counting from an estimate does not touch the deviation ...
LEMMA VarianceShifted ==
  ASSUME NEW n \in Int, NEW q \in Int, NEW s \in Int, NEW e \in Int
  PROVE  n * (q + 2 * e * s + n * e * e) - (s + e * n) * (s + e * n) = n * q - s * s
OBVIOUS

\* ... which is the root of no negative number.
LEMMA VarianceGrows ==
  ASSUME NEW n \in Nat, NEW q \in Int, NEW s \in Int, NEW d \in Int,
         n * q >= s * s, n = 0 => s = 0 /\ q = 0
  PROVE  (n + 1) * (q + d * d) >= (s + d) * (s + d)
<1> DEFINE x == q + n * (d * d) - 2 * (s * d)
           y == n * d
<1>1. (n + 1) * (q + d * d) - (s + d) * (s + d) = (n * q - s * s) + x
  OBVIOUS
<1>2. x \in Int /\ y \in Int
  OBVIOUS
<1>3. n * x = (n * q - s * s) + (s - y) * (s - y)
  OBVIOUS
<1>4. n * x >= 0
  <2>1. (s - y) * (s - y) >= 0
    <3> DEFINE z == s - y
    <3>1. z \in Int
      BY <1>2
    <3> HIDE DEF z
    <3>2. z * z >= 0
      BY <3>1
    <3> QED BY <3>2 DEF z
  <2>2. n * q - s * s >= 0
    OBVIOUS
  <2> HIDE DEF x, y
  <2> QED BY <1>2, <1>3, <2>1, <2>2
<1>5. x >= 0
  <2>1. CASE n = 0
    <3>1. q = 0 /\ s = 0
      BY <2>1
    <3>2. x = 0
      BY <2>1, <3>1
    <3> QED BY <3>2
  <2>2. CASE n > 0
    <3> HIDE DEF x
    <3> QED BY <1>2, <1>4, <2>2
  <2> QED BY <2>1, <2>2
<1> HIDE DEF x
<1> QED BY <1>1, <1>2, <1>5

-----------------------------------------------------------------------------
(* What was counted *)

\* The times that count were measured, and are the deltas with the estimate e.
Counted(st, e) ==
  LET n == st.count
      d == st.deltas
      m == st.measured
  IN  /\ n \in Nat /\ m.sum \in Nat /\ {d.sum, d.squares, d.least, d.greatest} \subseteq Int
      /\ {m.squares, m.least, m.greatest} \subseteq Int
      /\ m.sum = d.sum + e * n
      /\ m.squares = d.squares + 2 * e * d.sum + n * e * e
      /\ n = 0 => d.sum = 0 /\ d.squares = 0 /\ d.least = HUGE /\ m.least = HUGE
      /\ n > 0 => m.least = d.least + e /\ m.least >= 0
      /\ d.greatest + e = Bench!Greater(m.greatest, e)
      /\ d.least * n <= d.sum /\ d.sum <= d.greatest * n
      /\ n * d.squares >= d.sum * d.sum

BenchInv ==
  /\ Counted(Bench!Rejected, mean_time_estimate)
  /\ mean_time_estimate \in Nat /\ total_time \in Nat
  /\ batch_size \in Nat /\ batch_size > 0 /\ batch_time_ns \in Nat /\ batch_time_ns > 0
  /\ to_time \in Int /\ to_time <= max_time_ns /\ (to_time = max_time_ns \/ mean_time_estimate = 0)
  /\ returned \in BOOLEAN /\ (returned => total_time > max_time_ns)

LEMMA NothingCounted ==
  ASSUME NEW e \in Nat
  PROVE  Counted(Bench!NoStats, e)
<1>1. /\ Bench!NoStats.count = 0
      /\ Bench!NoStats.deltas = Bench!Nothing /\ Bench!NoStats.measured = Bench!Nothing
  BY DEF Bench!NoStats
<1>2. /\ Bench!Nothing.sum = 0 /\ Bench!Nothing.squares = 0
      /\ Bench!Nothing.least = HUGE /\ Bench!Nothing.greatest = 0
  BY DEF Bench!Nothing
<1>3. HUGE \in Int
  BY BenchConstants
<1>4. 0 = 0 + e * 0 /\ 0 = 0 + 2 * e * 0 + 0 * e * e /\ HUGE * 0 <= 0 /\ 0 <= 0 * 0 /\ 0 * 0 >= 0 * 0
  BY <1>3
<1>5. 0 + e = Bench!Greater(0, e)
  BY DEF Bench!Greater
<1>6. ~(0 > 0) /\ 0 \in Nat /\ 0 \in Int
  OBVIOUS
<1> QED BY <1>1, <1>2, <1>3, <1>4, <1>5, <1>6 DEF Counted

LEMMA OneMoreCounted ==
  ASSUME NEW st, NEW e \in Nat, Counted(st, e), NEW t \in Nat, t <= HUGE,
         NEW more, more.count = st.count + 1,
         more.deltas = Bench!Added(st.deltas, t - e), more.measured = Bench!Added(st.measured, t)
  PROVE  Counted(more, e)
<1> DEFINE n == st.count
           s == st.deltas.sum
           q == st.deltas.squares
           lo == st.deltas.least
           hi == st.deltas.greatest
           S == st.measured.sum
           Q == st.measured.squares
           L == st.measured.least
           G == st.measured.greatest
           d == t - e
           lo2 == IF lo < d THEN lo ELSE d
           hi2 == IF hi > d THEN hi ELSE d
           L2 == IF L < t THEN L ELSE t
           G2 == IF G > t THEN G ELSE t
<1>1. /\ n \in Nat /\ S \in Nat /\ s \in Int /\ q \in Int /\ lo \in Int /\ hi \in Int
      /\ Q \in Int /\ L \in Int /\ G \in Int /\ d \in Int
      /\ S = s + e * n /\ Q = q + 2 * e * s + n * e * e
      /\ n = 0 => s = 0 /\ q = 0 /\ lo = HUGE /\ L = HUGE
      /\ n > 0 => L = lo + e /\ L >= 0
      /\ hi + e = IF G > e THEN G ELSE e
      /\ lo * n <= s /\ s <= hi * n /\ n * q >= s * s
  BY DEF Counted, Bench!Greater
<1>2. /\ more.count = n + 1
      /\ more.deltas.sum = s + d /\ more.deltas.squares = q + d * d
      /\ more.deltas.least = lo2 /\ more.deltas.greatest = hi2
      /\ more.measured.sum = S + t /\ more.measured.squares = Q + t * t
      /\ more.measured.least = L2 /\ more.measured.greatest = G2
  BY DEF Bench!Added, Bench!Lesser, Bench!Greater
<1>3. d + e = t /\ HUGE \in Nat
  BY BenchConstants
<1> HIDE DEF n, s, q, lo, hi, S, Q, L, G, d
<1>4. lo2 \in Int /\ hi2 \in Int /\ L2 \in Int /\ G2 \in Int /\ n + 1 \in Nat /\ S + t \in Nat
      /\ s + d \in Int /\ d * d \in Int /\ t * t \in Int /\ q + d * d \in Int /\ Q + t * t \in Int
  BY <1>1
<1>5. S + t = (s + d) + e * (n + 1)
  <2>1. e * (n + 1) = e * n + e
    BY <1>1
  <2> DEFINE en == e * n
             en2 == e * (n + 1)
  <2>2. en \in Int /\ S = s + en /\ en2 = en + e
    BY <1>1, <2>1
  <2> HIDE DEF en, en2
  <2>3. S + t = (s + d) + en2
    BY <1>1, <1>3, <2>2
  <2> QED BY <2>3 DEF en2
<1>6. Q + t * t = (q + d * d) + 2 * e * (s + d) + (n + 1) * e * e
  <2>1. t * t = d * d + 2 * e * d + e * e
    <3>1. t = d + e
      BY <1>1, <1>3
    <3>2. (d + e) * (d + e) = d * d + 2 * e * d + e * e
      BY <1>1
    <3> QED BY <3>1, <3>2
  <2>2. (q + 2 * e * s + n * e * e) + (d * d + 2 * e * d + e * e)
          = (q + d * d) + 2 * e * (s + d) + (n + 1) * e * e
    BY <1>1
  <2> QED BY <1>1, <2>1, <2>2
<1>7. L2 = lo2 + e /\ L2 >= 0
  <2>1. CASE n = 0
    <3>1. d <= HUGE /\ lo = HUGE /\ L = HUGE
      BY <1>1, <1>3, <2>1
    <3> QED BY <1>1, <1>3, <3>1
  <2>2. CASE n > 0
    <3>1. L = lo + e /\ L >= 0
      BY <1>1, <2>2
    <3> QED BY <1>1, <1>3, <3>1
  <2> QED BY <1>1, <2>1, <2>2
<1>8. hi2 + e = IF G2 > e THEN G2 ELSE e
  <2>1. hi + e = IF G > e THEN G ELSE e
    BY <1>1
  <2> QED BY <1>1, <1>3, <2>1
<1>9. lo2 * (n + 1) <= s + d
  <2>1. lo2 <= lo /\ lo2 <= d
    BY <1>1
  <2>2. lo2 * n <= lo * n
    BY <1>1, <1>4, <2>1
  <2>3. lo2 * (n + 1) = lo2 * n + lo2
    BY <1>1, <1>4
  <2>4. lo2 * n \in Int /\ lo * n \in Int /\ lo * n <= s
    BY <1>1, <1>4
  <2> DEFINE a == lo2 * n
             b == lo * n
             c == lo2 * (n + 1)
  <2>5. a \in Int /\ b \in Int /\ b <= s /\ a <= b /\ c = a + lo2
    BY <2>2, <2>3, <2>4
  <2> HIDE DEF a, b, c, lo2
  <2>6. c <= s + d
    BY <1>1, <1>4, <2>1, <2>5
  <2> QED BY <2>6 DEF c
<1>10. s + d <= hi2 * (n + 1)
  <2>1. hi <= hi2 /\ d <= hi2
    BY <1>1
  <2>2. hi * n <= hi2 * n
    BY <1>1, <1>4, <2>1
  <2>3. hi2 * (n + 1) = hi2 * n + hi2
    BY <1>1, <1>4
  <2>4. hi2 * n \in Int /\ hi * n \in Int /\ s <= hi * n
    BY <1>1, <1>4
  <2> DEFINE a == hi2 * n
             b == hi * n
             c == hi2 * (n + 1)
  <2>5. a \in Int /\ b \in Int /\ s <= b /\ b <= a /\ c = a + hi2
    BY <2>2, <2>3, <2>4
  <2> HIDE DEF a, b, c, hi2
  <2>6. s + d <= c
    BY <1>1, <1>4, <2>1, <2>5
  <2> QED BY <2>6 DEF c
<1>11. (n + 1) * (q + d * d) >= (s + d) * (s + d)
  BY <1>1, VarianceGrows
<1>12. n + 1 # 0
  BY <1>1
<1> HIDE DEF lo2, hi2, L2, G2
<1>13. hi2 + e = Bench!Greater(G2, e)
  BY <1>8 DEF Bench!Greater
<1> QED BY <1>2, <1>4, <1>5, <1>6, <1>7, <1>9, <1>10, <1>11, <1>12, <1>13 DEF Counted

\* What is kept is counted.
LEMMA KeptCounted ==
  ASSUME NEW st, NEW e, Counted(st, e), Bench!Keep(st)
  PROVE  Counted(Bench!Rejected', e)
<1> DEFINE r == Bench!Rejected'
<1>1. /\ r.count = st.count /\ r.measured = st.measured
      /\ r.deltas.sum = st.deltas.sum /\ r.deltas.squares = st.deltas.squares
      /\ r.deltas.least = st.deltas.least /\ r.deltas.greatest = st.deltas.greatest
  BY DEF Bench!Keep, Bench!Rejected, Bench!Deltas
<1> HIDE DEF r
<1>2. Counted(r, e)
  BY <1>1 DEF Counted
<1> QED BY <1>2 DEF r

LEMMA BenchInit == Bench!Init => BenchInv
<1> SUFFICES ASSUME Bench!Init PROVE BenchInv
  OBVIOUS
<1>1. PICK runs \in ClockRuns :
        batch_time_ns = Bench!Greater(batch_of_clock_accuracy_multiple
                                        * Bench!calculate_clock_stats(runs).average, 1)
  BY DEF Bench!Init
<1> DEFINE a == Bench!calculate_clock_stats(runs).average
           b == batch_of_clock_accuracy_multiple * a
<1>2. a \in Nat /\ batch_of_clock_accuracy_multiple \in Nat
  BY BenchConstants, ClockAverage
<1>3. b \in Int /\ batch_time_ns = Bench!Greater(b, 1)
  <2> HIDE DEF a
  <2> QED BY <1>1, <1>2 DEF a
<1> HIDE DEF b
<1>4. batch_time_ns \in Nat /\ batch_time_ns > 0
  BY <1>3 DEF Bench!Greater
<1>5. /\ total_time = 0 /\ batch_size = min_batch_size /\ mean_time_estimate = 0 /\ returned = FALSE
      /\ batch_count = Bench!NoStats.count /\ measured = Bench!NoStats.measured
      /\ time_sum = Bench!Nothing.sum /\ squared_time_sum = Bench!Nothing.squares
      /\ min_batch_time = Bench!Nothing.least /\ max_batch_time = Bench!Nothing.greatest
  BY DEF Bench!Init
<1>6. to_time \in Int /\ to_time <= max_time_ns
  <2>1. PICK w \in WarmUps : to_time = IF w > max_time_ns \/ w <= 0 THEN max_time_ns ELSE w
    BY DEF Bench!Init
  <2>2. w \in Int /\ max_time_ns \in Int
    BY BenchConstants
  <2> QED BY <2>1, <2>2
<1>7. Bench!Rejected = Bench!NoStats
  BY <1>5 DEF Bench!Rejected, Bench!Deltas, Bench!NoStats, Bench!Nothing
<1>8. Counted(Bench!Rejected, mean_time_estimate)
  <2>1. Counted(Bench!NoStats, 0)
    BY NothingCounted
  <2> QED BY <1>5, <1>7, <2>1
<1> QED BY <1>4, <1>5, <1>6, <1>8, BenchConstants DEF BenchInv

LEMMA BatchCounted ==
  ASSUME BenchInv, NEW t \in Nat, t <= HUGE, NEW rejects \in BOOLEAN,
         NEW st, st = IF rejects THEN Bench!Rejected ELSE Bench!Accepted(t)
  PROVE  Counted(st, mean_time_estimate)
<1>1. Counted(Bench!Rejected, mean_time_estimate) /\ mean_time_estimate \in Nat
  BY DEF BenchInv
<1>2. CASE rejects
  BY <1>1, <1>2
<1>3. CASE ~rejects
  <2> DEFINE r == Bench!Rejected
             e == mean_time_estimate
  <2>1. st = Bench!Accepted(t)
    BY <1>3
  <2>2. /\ st.count = r.count + 1 /\ st.deltas = Bench!Added(r.deltas, t - e)
        /\ st.measured = Bench!Added(r.measured, t)
    BY <2>1 DEF Bench!Accepted, Bench!Rejected
  <2> HIDE DEF r, e
  <2>3. Counted(r, e) /\ e \in Nat
    BY <1>1 DEF r, e
  <2>4. Counted(st, e)
    BY <2>2, <2>3, OneMoreCounted
  <2> QED BY <2>4 DEF e
<1> QED BY <1>2, <1>3

\* The estimate and the new size of a batch are numbers of the kind they should be.
LEMMA EstimateIs ==
  ASSUME NEW st, Counted(st, 0), BenchInv, NEW total \in Nat, total <= max_time_ns
  PROVE  /\ st.deltas.sum \div Bench!iterations(st) \in Nat
         /\ Bench!NewBatchSize(st, total) \in Nat /\ Bench!NewBatchSize(st, total) > 0
<1> DEFINE sum == st.deltas.sum
           n == st.count
           N == Bench!iterations(st)
           remaining == max_time_ns - total
           checks == Bench!Greater(remaining \div batch_time_ns, min_end_checks)
           den == Bench!Greater(total * checks, 1)
<1>1. n \in Nat /\ sum \in Nat /\ batch_size \in Nat /\ batch_time_ns \in Nat /\ batch_time_ns > 0
  <2>1. n \in Nat /\ sum \in Int /\ st.measured.sum \in Nat /\ st.measured.sum = sum + 0 * n
    BY DEF Counted
  <2> HIDE DEF sum, n
  <2>2. sum \in Nat
    BY <2>1
  <2> QED BY <2>1, <2>2 DEF BenchInv
<1> HIDE DEF sum, n
<1>2. N \in Nat /\ N > 0
  <2> DEFINE x == n * batch_size
  <2>1. x \in Int /\ N = Bench!Greater(x, 1)
    BY <1>1 DEF Bench!iterations, n
  <2> HIDE DEF x
  <2> QED BY <2>1 DEF Bench!Greater
<1> HIDE DEF N
<1>3. sum \div N \in Nat
  BY <1>1, <1>2
<1>4. remaining \in Nat
  BY BenchConstants
<1> HIDE DEF remaining
<1>5. checks \in Nat
  <2> DEFINE x == remaining \div batch_time_ns
  <2>1. x \in Int
    BY <1>1, <1>4
  <2> HIDE DEF x
  <2> QED BY <2>1, BenchConstants, GreaterIs DEF x
<1> HIDE DEF checks
<1>6. den \in Nat /\ den > 0
  <2> DEFINE x == total * checks
  <2>1. x \in Int
    BY <1>5
  <2> HIDE DEF x
  <2>2. Bench!Greater(x, 1) \in Nat /\ Bench!Greater(x, 1) > 0
    BY <2>1 DEF Bench!Greater
  <2> QED BY <2>2 DEF x
<1> HIDE DEF den
<1> DEFINE y == N * remaining
           z == y \div den
<1>7. z \in Int
  <2>1. y \in Int
    BY <1>2, <1>4
  <2> HIDE DEF y
  <2> QED BY <1>6, <2>1
<1>8. Bench!NewBatchSize(st, total) = Bench!Greater(z, min_batch_size)
  BY DEF Bench!NewBatchSize, den, checks, remaining, N
<1> HIDE DEF z
<1>9. Bench!Greater(z, min_batch_size) \in Nat /\ Bench!Greater(z, min_batch_size) > 0
  BY <1>7, BenchConstants DEF Bench!Greater
<1> QED BY <1>3, <1>8, <1>9 DEF sum, N

LEMMA BenchStep == BenchInv /\ Bench!Next => BenchInv'
<1> SUFFICES ASSUME BenchInv, NEW t \in Ticks, NEW rejects \in BOOLEAN, Bench!Batch(t, rejects)
             PROVE  BenchInv'
  BY DEF Bench!Next
<1> DEFINE total == total_time + t
           st == IF rejects THEN Bench!Rejected ELSE Bench!Accepted(t)
<1>1. t \in Nat /\ t <= HUGE /\ total_time \in Nat /\ total \in Nat /\ max_time_ns \in Nat /\ to_time \in Int
  BY BenchConstants DEF BenchInv
<1>2. /\ total_time' = total /\ batch_time_ns' = batch_time_ns
      /\ \/ /\ total > to_time /\ total <= max_time_ns /\ Bench!EndWarmUp(st, total)
         \/ /\ ~(total > to_time /\ total <= max_time_ns)
            /\ Bench!Keep(st) /\ returned' = (total > to_time)
            /\ UNCHANGED <<to_time, batch_size, mean_time_estimate>>
  BY DEF Bench!Batch
<1>3. Counted(st, mean_time_estimate)
  BY <1>1, BatchCounted
<1> HIDE DEF total, st
<1>4. CASE total > to_time /\ total <= max_time_ns /\ Bench!EndWarmUp(st, total)
  <2>1. mean_time_estimate = 0
    <3>1. to_time # max_time_ns
      BY <1>1, <1>4
    <3> QED BY <3>1 DEF BenchInv
  <2>2. /\ mean_time_estimate' = st.deltas.sum \div Bench!iterations(st)
        /\ batch_size' = Bench!NewBatchSize(st, total) /\ Bench!Keep(Bench!NoStats)
        /\ to_time' = max_time_ns /\ returned' = returned
    BY <1>4 DEF Bench!EndWarmUp
  <2>3. mean_time_estimate' \in Nat /\ batch_size' \in Nat /\ batch_size' > 0
    BY <1>1, <1>3, <1>4, <2>1, <2>2, EstimateIs
  <2>4. Counted(Bench!Rejected', mean_time_estimate')
    BY <2>2, <2>3, NothingCounted, KeptCounted
  <2>5. ~returned /\ returned \in BOOLEAN
    BY DEF Bench!Batch, BenchInv
  <2>6. returned' \in BOOLEAN /\ ~returned'
    BY <2>2, <2>5
  <2>7. to_time' \in Int /\ to_time' <= max_time_ns
    BY <1>1, <2>2
  <2>8. batch_time_ns' \in Nat /\ batch_time_ns' > 0 /\ total_time' \in Nat
    BY <1>1, <1>2 DEF BenchInv
  <2> QED BY <2>2, <2>3, <2>4, <2>6, <2>7, <2>8 DEF BenchInv, Counted
<1>5. CASE /\ ~(total > to_time /\ total <= max_time_ns)
           /\ Bench!Keep(st) /\ returned' = (total > to_time)
           /\ UNCHANGED <<to_time, batch_size, mean_time_estimate>>
  <2>1. Counted(Bench!Rejected', mean_time_estimate')
    <3>1. Counted(Bench!Rejected', mean_time_estimate)
      BY <1>3, <1>5, KeptCounted
    <3> QED BY <1>5, <3>1
  <2>2. returned' \in BOOLEAN /\ (returned' => total_time' > max_time_ns)
    <3>1. CASE total > to_time
      <4>1. total > max_time_ns
        BY <1>1, <1>5, <3>1
      <4>2. returned' = TRUE /\ total_time' = total
        BY <1>2, <1>5, <3>1
      <4> QED BY <4>1, <4>2
    <3>2. CASE ~(total > to_time)
      <4> DEFINE over == total > to_time
      <4>1. over = FALSE
        BY <1>1, <3>2
      <4>2. returned' = over
        BY <1>5
      <4>3. returned' = FALSE
        BY <4>1, <4>2
      <4> QED BY <4>3
    <3> QED BY <3>1, <3>2
  <2>3. total_time' \in Nat /\ batch_time_ns' \in Nat /\ batch_time_ns' > 0
    BY <1>1, <1>2 DEF BenchInv
  <2>4. mean_time_estimate' \in Nat /\ batch_size' \in Nat /\ batch_size' > 0
        /\ to_time' \in Int /\ to_time' <= max_time_ns /\ (to_time' = max_time_ns \/ mean_time_estimate' = 0)
    BY <1>5 DEF BenchInv
  <2> QED BY <2>1, <2>2, <2>3, <2>4 DEF BenchInv
<1> QED BY <1>2, <1>4, <1>5

LEMMA BenchSound == BenchInv => Bench!MeasuredRight
<1> SUFFICES ASSUME BenchInv PROVE Bench!MeasuredRight
  OBVIOUS
<1> DEFINE n == batch_count
           e == mean_time_estimate
           s == time_sum
           q == squared_time_sum
           lo == min_batch_time
           hi == max_batch_time
           S == measured.sum
           Q == measured.squares
           L == measured.least
           r == Bench!process_stats(2)
           z == batch_size * 2
<1>1. Counted(Bench!Rejected, e) /\ e \in Nat /\ z \in Nat /\ z > 0
      /\ (returned => total_time > max_time_ns)
  BY DEF BenchInv
<1>2. /\ n \in Nat /\ S \in Nat /\ s \in Int /\ q \in Int /\ lo \in Int /\ hi \in Int
      /\ Q \in Int /\ L \in Int
      /\ S = s + e * n /\ Q = q + 2 * e * s + n * e * e
      /\ n = 0 => s = 0
      /\ n > 0 => L = lo + e /\ L >= 0
      /\ hi + e = Bench!Greater(measured.greatest, e)
      /\ lo * n <= s /\ s <= hi * n /\ n * q >= s * s
  BY <1>1 DEF Counted, Bench!Rejected, Bench!Deltas
<1>3. /\ r.mean = (IF z * n = 0 THEN 0 ELSE s + e * n)
      /\ r.min = (IF z * n = 0 THEN 0 ELSE (lo + e) * n)
      /\ r.max = (IF z * n = 0 THEN 0 ELSE (hi + e) * n)
      /\ r.varience = (IF n > 1 THEN n * q - s * s ELSE 0)
  BY DEF Bench!process_stats
<1> HIDE DEF n, e, s, q, lo, hi, S, Q, L, r, z
<1>4. r.varience = IF n > 1 THEN n * Q - S * S ELSE 0
  <2>1. n * (q + 2 * e * s + n * e * e) - (s + e * n) * (s + e * n) = n * q - s * s
    BY <1>1, <1>2, VarianceShifted
  <2> QED BY <1>2, <1>3, <2>1
<1>5. r.varience >= 0
  <2>1. n * q - s * s >= 0
    BY <1>2
  <2> QED BY <1>3, <2>1
<1>6. CASE n = 0
  <2>1. z * n = 0 /\ S = 0
    BY <1>1, <1>2, <1>6
  <2>2. r.mean = 0 /\ r.min = 0 /\ r.max = 0
    BY <1>3, <2>1
  <2>3. r.mean = S /\ 0 <= r.min /\ r.min <= r.mean /\ r.mean <= r.max /\ ~(n > 0)
    BY <1>6, <2>1, <2>2
  <2> QED BY <1>1, <1>2, <1>4, <1>5, <2>3 DEF Bench!MeasuredRight, n, e, s, lo, hi, S, Q, L, r
<1>7. CASE n > 0
  <2>1. z * n # 0
    BY <1>1, <1>2, <1>7
  <2>2. r.mean = S /\ r.min = (lo + e) * n /\ r.max = (hi + e) * n
    BY <1>2, <1>3, <2>1
  <2>3. (lo + e) * n = lo * n + e * n /\ (hi + e) * n = hi * n + e * n
    BY <1>1, <1>2
  <2>4. r.min = L * n /\ r.max = Bench!Greater(measured.greatest, e) * n
    BY <1>2, <1>7, <2>2
  <2>5. 0 <= r.min
    <3>1. L * n >= 0
      BY <1>2, <1>7
    <3> QED BY <2>4, <3>1
  <2>6. r.min <= r.mean /\ r.mean <= r.max
    <3> DEFINE a == lo * n
               b == hi * n
               c == e * n
    <3>1. a \in Int /\ b \in Int /\ c \in Int /\ a <= s /\ s <= b
          /\ r.min = a + c /\ r.max = b + c /\ r.mean = s + c
      BY <1>1, <1>2, <2>2, <2>3
    <3> HIDE DEF a, b, c
    <3> QED BY <1>2, <3>1
  <2> QED BY <1>1, <1>2, <1>4, <1>5, <2>2, <2>4, <2>5, <2>6
      DEF Bench!MeasuredRight, n, e, s, lo, hi, S, Q, L, r
<1> QED BY <1>2, <1>6, <1>7

-----------------------------------------------------------------------------
(* The components together *)

\* a behaviour is about one component, which begins in its initial state
LEMMA InitKind ==
  Init => /\ kind = "array" => Arrays(FALSE)!Init
          /\ kind = "string" => Arrays(FALSE)!Init
          /\ kind = "owners" => Owners!Init
          /\ kind = "singly" => Lists(FALSE)!Init
          /\ kind = "doubly" => Lists(TRUE)!Init
          /\ kind = "index" => Index!Init
          /\ kind = "reads" => Reads!Init
          /\ kind = "descriptors" => Descriptors!Init
          /\ kind = "windows" => Windows!Init
          /\ kind = "buffer" => Buffers!Init
          /\ kind = "listing" => Listing!Init
          /\ kind = "benchmark" => Bench!Init
BY DEF Init

\* and makes its steps, or none
LEMMA NextKind ==
  [Next]_vars => /\ kind' = kind
                 /\ kind = "array" => Arrays(FALSE)!Next \/ UNCHANGED Arrays(FALSE)!vars
                 /\ kind = "string" => Arrays(TRUE)!Next \/ UNCHANGED Arrays(FALSE)!vars
                 /\ kind = "owners" => Owners!Next \/ UNCHANGED Owners!vars
                 /\ kind = "singly" => Lists(FALSE)!Next \/ UNCHANGED chain
                 /\ kind = "doubly" => Lists(TRUE)!Next \/ UNCHANGED chain
                 /\ kind = "index" => Index!Next \/ UNCHANGED <<indeces, rows>>
                 /\ kind = "reads" => Reads!Next \/ UNCHANGED Reads!vars
                 /\ kind = "descriptors" => Descriptors!Next \/ UNCHANGED Descriptors!vars
                 /\ kind = "windows" => Windows!Next \/ UNCHANGED Windows!vars
                 /\ kind = "buffer" => Buffers!Next \/ UNCHANGED Buffers!vars
                 /\ kind = "listing" => Listing!Next \/ UNCHANGED Listing!vars
                 /\ kind = "benchmark" => Bench!Next \/ UNCHANGED Bench!vars
<1> SUFFICES ASSUME [Next]_vars
             PROVE  /\ kind' = kind
                    /\ kind = "array" => Arrays(FALSE)!Next \/ UNCHANGED Arrays(FALSE)!vars
                    /\ kind = "string" => Arrays(TRUE)!Next \/ UNCHANGED Arrays(FALSE)!vars
                    /\ kind = "owners" => Owners!Next \/ UNCHANGED Owners!vars
                    /\ kind = "singly" => Lists(FALSE)!Next \/ UNCHANGED chain
                    /\ kind = "doubly" => Lists(TRUE)!Next \/ UNCHANGED chain
                    /\ kind = "index" => Index!Next \/ UNCHANGED <<indeces, rows>>
                    /\ kind = "reads" => Reads!Next \/ UNCHANGED Reads!vars
                    /\ kind = "descriptors" => Descriptors!Next \/ UNCHANGED Descriptors!vars
                    /\ kind = "windows" => Windows!Next \/ UNCHANGED Windows!vars
                    /\ kind = "buffer" => Buffers!Next \/ UNCHANGED Buffers!vars
                    /\ kind = "listing" => Listing!Next \/ UNCHANGED Listing!vars
                    /\ kind = "benchmark" => Bench!Next \/ UNCHANGED Bench!vars
  OBVIOUS
<1>1. CASE Next
  BY <1>1 DEF Next
<1>2. CASE UNCHANGED vars
  <2>0. UNCHANGED <<data, size, capacity, stopped, arrays, heap, default, swaps, wrong, chain, indeces, rows>>
    BY <1>2 DEF vars, cells, owner_vars, index_vars
  <2>1. UNCHANGED <<kind, read_vars, buffer, files, table_vars, disk_vars, handles>>
        /\ UNCHANGED <<block_vars, list_vars, bench_vars>>
    BY <1>2 DEF vars
  <2>2. UNCHANGED Reads!vars
    BY <2>1 DEF read_vars, Reads!vars
  <2>3. UNCHANGED Descriptors!vars
    BY <2>1 DEF table_vars, Descriptors!vars
  <2>4. UNCHANGED Windows!vars
    BY <2>1 DEF disk_vars, Windows!vars
  <2>5. UNCHANGED Arrays(FALSE)!vars /\ UNCHANGED Owners!vars
    BY <2>0 DEF Arrays!vars, Owners!vars
  <2>6. UNCHANGED Buffers!vars
    BY <2>0, <2>1 DEF block_vars, Buffers!vars
  <2>7. UNCHANGED Listing!vars
    BY <2>1 DEF list_vars, Listing!vars
  <2>8. UNCHANGED Bench!vars
    BY <2>1 DEF bench_vars, Bench!vars, Bench!stats
  <2> QED BY <2>0, <2>1, <2>2, <2>3, <2>4, <2>5, <2>6, <2>7, <2>8
<1> QED BY <1>1, <1>2

\* What is unchanged of an array keeps its invariant.
LEMMA ArrayStays ==
  ASSUME NEW string \in BOOLEAN, ArrayInv(string), UNCHANGED Arrays(FALSE)!vars
  PROVE  ArrayInv(string)'
<1>1. UNCHANGED <<data, size, capacity>>
  BY DEF Arrays!vars
<1> QED BY <1>1 DEF ArrayInv, Holds

LEMMA ArraysHold ==
  Spec => [](/\ kind = "array" => ArrayInv(FALSE)
             /\ kind = "string" => ArrayInv(TRUE))
<1> DEFINE Inv == (kind = "array" => ArrayInv(FALSE)) /\ (kind = "string" => ArrayInv(TRUE))
<1>1. Init => Inv
  BY InitKind, ArrayInit
<1>2. Inv /\ [Next]_vars => Inv'
  <2> SUFFICES ASSUME Inv, [Next]_vars PROVE Inv'
    OBVIOUS
  <2>1. ASSUME kind = "array" PROVE ArrayInv(FALSE)'
    <3>1. ArrayInv(FALSE)
      BY <2>1
    <3> QED BY <2>1, <3>1, NextKind, ArrayStep, ArrayStays
  <2>2. ASSUME kind = "string" PROVE ArrayInv(TRUE)'
    <3>1. ArrayInv(TRUE)
      BY <2>2
    <3> QED BY <2>2, <3>1, NextKind, ArrayStep, ArrayStays
  <2>3. kind' = kind
    BY NextKind
  <2> QED BY <2>1, <2>2, <2>3
<1> QED BY <1>1, <1>2, PTL DEF Spec

LEMMA OwnersHold == Spec => [](kind = "owners" => OwnersInv)
<1> DEFINE Inv == kind = "owners" => OwnersInv
<1>1. Init => Inv
  BY InitKind, OwnersInit
<1>2. Inv /\ [Next]_vars => Inv'
  <2> SUFFICES ASSUME Inv, [Next]_vars, kind' = "owners" PROVE OwnersInv'
    OBVIOUS
  <2>1. OwnersInv /\ (Owners!Next \/ UNCHANGED Owners!vars)
    BY NextKind
  <2>2. CASE UNCHANGED Owners!vars
    BY <2>1, <2>2 DEF Owners!vars, OwnersInv, Swapped
  <2> QED BY <2>1, <2>2, OwnersStep
<1> QED BY <1>1, <1>2, PTL DEF Spec

LEMMA ListsHold ==
  Spec => [](/\ kind = "singly" => ListInv(FALSE)
             /\ kind = "doubly" => ListInv(TRUE))
<1> DEFINE Inv == (kind = "singly" => ListInv(FALSE)) /\ (kind = "doubly" => ListInv(TRUE))
<1>1. Init => Inv
  BY InitKind, ListStarts
<1>2. Inv /\ [Next]_vars => Inv'
  <2> SUFFICES ASSUME Inv, [Next]_vars PROVE Inv'
    OBVIOUS
  <2>1. \A d \in BOOLEAN : ListInv(d) /\ UNCHANGED chain => ListInv(d)'
    BY DEF ListInv
  <2>2. \A d \in BOOLEAN : ListInv(d) /\ Lists(d)!Next => ListInv(d)'
    BY ListStep
  <2>3. ASSUME kind = "singly" PROVE ListInv(FALSE)'
    BY <2>1, <2>2, <2>3, NextKind
  <2>4. ASSUME kind = "doubly" PROVE ListInv(TRUE)'
    BY <2>1, <2>2, <2>4, NextKind
  <2>5. kind' = kind
    BY NextKind
  <2> QED BY <2>3, <2>4, <2>5
<1> QED BY <1>1, <1>2, PTL DEF Spec

LEMMA IndexHolds == Spec => [](kind = "index" => IndexInv)
<1> DEFINE Inv == kind = "index" => IndexInv
<1>1. Init => Inv
  BY InitKind, IndexInit
<1>2. Inv /\ [Next]_vars => Inv'
  <2> SUFFICES ASSUME Inv, [Next]_vars, kind' = "index" PROVE IndexInv'
    OBVIOUS
  <2>1. IndexInv /\ (Index!Next \/ UNCHANGED <<indeces, rows>>)
    BY NextKind
  <2>2. CASE UNCHANGED <<indeces, rows>>
    BY <2>1, <2>2 DEF IndexInv, IsReached, Zeros
  <2> QED BY <2>1, <2>2, IndexStep
<1> QED BY <1>1, <1>2, PTL DEF Spec

LEMMA ReadsHold == Spec => [](kind = "reads" => ReadsInv)
<1> DEFINE Inv == kind = "reads" => ReadsInv
<1>1. Init => Inv
  BY InitKind, ReadsInit
<1>2. Inv /\ [Next]_vars => Inv'
  <2> SUFFICES ASSUME Inv, [Next]_vars, kind' = "reads" PROVE ReadsInv'
    OBVIOUS
  <2>1. ReadsInv /\ (Reads!Next \/ UNCHANGED Reads!vars)
    BY NextKind
  <2>2. CASE UNCHANGED Reads!vars
    BY <2>1, <2>2 DEF Reads!vars, ReadsInv, Counts, IdleCall, ReadingFile, WritingFile,
       Reads!WholeRead, Reads!WritesInOrder
  <2> QED BY <2>1, <2>2, ReadsStep
<1> QED BY <1>1, <1>2, PTL DEF Spec

LEMMA DescriptorsHold == Spec => [](kind = "descriptors" => DescriptorsInv)
<1> DEFINE Inv == kind = "descriptors" => DescriptorsInv
<1>1. Init => Inv
  BY InitKind, DescriptorsInit
<1>2. Inv /\ [Next]_vars => Inv'
  <2> SUFFICES ASSUME Inv, [Next]_vars, kind' = "descriptors" PROVE DescriptorsInv'
    OBVIOUS
  <2>1. DescriptorsInv /\ (Descriptors!Next \/ UNCHANGED Descriptors!vars)
    BY NextKind
  <2>2. CASE UNCHANGED Descriptors!vars
    BY <2>1, <2>2 DEF Descriptors!vars, DescriptorsInv, Tables, Holders
  <2> QED BY <2>1, <2>2, DescriptorsStep
<1> QED BY <1>1, <1>2, PTL DEF Spec

LEMMA WindowsHold == Spec => [](kind = "windows" => WindowsInv)
<1> DEFINE Inv == kind = "windows" => WindowsInv
<1>1. Init => Inv
  BY InitKind, WindowsInit
<1>2. Inv /\ [Next]_vars => Inv'
  <2> SUFFICES ASSUME Inv, [Next]_vars, kind' = "windows" PROVE WindowsInv'
    OBVIOUS
  <2>1. WindowsInv /\ (Windows!Next \/ UNCHANGED Windows!vars)
    BY NextKind
  <2>2. CASE UNCHANGED Windows!vars
    <3>1. UNCHANGED <<disk, files, handles, call, buffer, state>>
      BY <2>2 DEF Windows!vars
    <3>2. OpenHandles'
      BY <2>1, <3>1 DEF WindowsInv, OpenHandles, Windows!HandlesOwned, Windows!is_open
    <3>3. CallInv'
      BY <2>1, <3>1 DEF WindowsInv, CallInv, Windows!Idle, Windows!is_open, Windows!Content, Windows!At
    <3>4. Windows!IoInPlace'
      BY <2>1, <3>1 DEF WindowsInv, Windows!IoInPlace, Windows!Idle, Windows!Content, Windows!Position, Windows!At
    <3> QED BY <3>2, <3>3, <3>4 DEF WindowsInv
  <2> QED BY <2>1, <2>2, WindowsStep
<1> QED BY <1>1, <1>2, PTL DEF Spec

LEMMA BuffersHold == Spec => [](kind = "buffer" => BufferInv)
<1> DEFINE Inv == kind = "buffer" => BufferInv
<1>1. Init => Inv
  BY InitKind, BufferInit
<1>2. Inv /\ [Next]_vars => Inv'
  <2> SUFFICES ASSUME Inv, [Next]_vars, kind' = "buffer" PROVE BufferInv'
    OBVIOUS
  <2>1. BufferInv /\ (Buffers!Next \/ UNCHANGED Buffers!vars)
    BY NextKind
  <2>2. CASE UNCHANGED Buffers!vars
    BY <2>1, <2>2 DEF Buffers!vars, BufferInv
  <2> QED BY <2>1, <2>2, BufferStep
<1> QED BY <1>1, <1>2, PTL DEF Spec

LEMMA ListingHolds == Spec => [](kind = "listing" => ListingInv)
<1> DEFINE Inv == kind = "listing" => ListingInv
<1>1. Init => Inv
  BY InitKind, ListingInit
<1>2. Inv /\ [Next]_vars => Inv'
  <2> SUFFICES ASSUME Inv, [Next]_vars, kind' = "listing" PROVE ListingInv'
    OBVIOUS
  <2>1. ListingInv /\ (Listing!Next \/ UNCHANGED Listing!vars)
    BY NextKind
  <2>2. CASE UNCHANGED Listing!vars
    BY <2>1, <2>2, ListingStays
  <2> QED BY <2>1, <2>2, ListingStep
<1> QED BY <1>1, <1>2, PTL DEF Spec

LEMMA BenchHolds == Spec => [](kind = "benchmark" => BenchInv)
<1> DEFINE Inv == kind = "benchmark" => BenchInv
<1>1. Init => Inv
  BY InitKind, BenchInit
<1>2. Inv /\ [Next]_vars => Inv'
  <2> SUFFICES ASSUME Inv, [Next]_vars, kind' = "benchmark" PROVE BenchInv'
    OBVIOUS
  <2>1. BenchInv /\ (Bench!Next \/ UNCHANGED Bench!vars)
    BY NextKind
  <2>2. CASE UNCHANGED Bench!vars
    BY <2>1, <2>2 DEF Bench!vars, Bench!stats, BenchInv, Counted, Bench!Rejected, Bench!Deltas
  <2> QED BY <2>1, <2>2, BenchStep
<1> QED BY <1>1, <1>2, PTL DEF Spec

\* Through every growth, truncation and overwriting an array has as many items
\* as its size in constructed cells and none behind them, its capacity is never
\* below its size, and a string with a block ends in its terminator. However
\* arrays are copied, moved, swapped and left, every block has one owner, which
\* gives it back to the allocator that it remembers.
THEOREM ArraysAreSound == Spec => []ArraySound
<1>1. (kind = "array" => ArrayInv(FALSE)) /\ (kind = "string" => ArrayInv(TRUE))
        /\ (kind = "owners" => OwnersInv) => ArraySound
  BY ArrayInvSound, OwnersSound DEF ArraySound
<1> QED BY <1>1, ArraysHold, OwnersHold, PTL

\* Each operation of an array, a string or a list does to its items what the
\* operation on sequences does that it stands for (an insertion in order only in
\* front of the last item or behind it): whatever grows, is linked anew or moves,
\* the others are there still, once and in order. An operation on some array
\* variables leaves what the others hold.
THEOREM ItemsAreFollowed == Spec => ItemsFollow
<1> DEFINE Inv == /\ kind = "array" => ArrayInv(FALSE)
                  /\ kind = "string" => ArrayInv(TRUE)
                  /\ kind = "singly" => ListInv(FALSE)
                  /\ kind = "doubly" => ListInv(TRUE)
                  /\ kind = "owners" => OwnersInv
           A == /\ (kind = "array" => Arrays(FALSE)!Follows)
                /\ (kind = "string" => Arrays(TRUE)!Follows)
                /\ (kind = "singly" => Lists(FALSE)!Follows)
                /\ (kind = "doubly" => Lists(TRUE)!Follows)
                /\ (kind = "owners" => Owners!ValueStep)
<1>1. Inv => A
  <2> SUFFICES ASSUME Inv PROVE A
    OBVIOUS
  <2>1. ASSUME kind = "array" PROVE Arrays(FALSE)!Follows
    BY <2>1, ArrayFollows
  <2>2. ASSUME kind = "string" PROVE Arrays(TRUE)!Follows
    BY <2>2, ArrayFollows
  <2>3. ASSUME kind = "singly" PROVE Lists(FALSE)!Follows
    BY <2>3, ListFollows
  <2>4. ASSUME kind = "doubly" PROVE Lists(TRUE)!Follows
    BY <2>4, ListFollows
  <2>5. ASSUME kind = "owners" PROVE Owners!ValueStep
    BY <2>5, OwnersFollow
  <2> QED BY <2>1, <2>2, <2>3, <2>4, <2>5
<1> QED BY <1>1, ArraysHold, ListsHold, OwnersHold, PTL DEF Spec, ItemsFollow

\* The links of a list agree in both directions and end in `first` and `last`
\* through all insertions, extractions and splices, and a search of the hash
\* index finds every row with the hash, once, whatever was removed before it.
THEOREM LinksAreSound == Spec => []LinksSound
<1>1. (kind = "singly" => ListInv(FALSE)) /\ (kind = "doubly" => ListInv(TRUE))
        /\ (kind = "index" => IndexInv) => LinksSound
  BY ListSound, IndexSound DEF LinksSound
<1> QED BY <1>1, ListsHold, IndexHolds, PTL

\* For every length of a file, chunk and short read, and whatever another process
\* does to the length: read_whole_file reports success only of a string as long as
\* the file was, and unless read went back to the start of its buffer the string
\* is the start of the file (that it may go back, after a short read, is what the
\* comment of read denies); what was written in parts is in the file, in order;
\* every open descriptor belongs to one File or was skipped by a long jump; and
\* outside of all guards the table of descriptors is the one the program began with.
THEOREM FilesAreSound == Spec => []FilesSound
<1>1. (kind = "reads" => ReadsInv) /\ (kind = "descriptors" => DescriptorsInv) => FilesSound
  BY DescriptorsSound DEF FilesSound, ReadsInv
<1> QED BY <1>1, ReadsHold, DescriptorsHold, PTL

\* On Windows every open handle belongs to one File through all moves and
\* assignments, and at every point of a read or a write in parts the buffer,
\* the file and the position agree, below the size that the mask cuts.
THEOREM WindowsFilesAreSound == Spec => []WindowsFilesSound
<1>1. (kind = "windows" => WindowsInv) => WindowsFilesSound
  BY DEF WindowsFilesSound, WindowsInv, OpenHandles
<1> QED BY <1>1, WindowsHold, PTL

\* The bytes of a file on Windows change only through a handle that was opened
\* for writing: opening, creating, copying and moving overwrite no file.
THEOREM WritersOnly == Spec => OnlyWritersWrite
<1>1. (kind = "windows" => WindowsInv) /\ [Next]_vars => [(kind = "windows" => Windows!WritersStep)]_vars
  <2> SUFFICES ASSUME kind = "windows", WindowsInv, [Next]_vars PROVE Windows!WritersStep
    OBVIOUS
  <2>1. Windows!Next \/ UNCHANGED disk
    BY NextKind DEF Windows!vars
  <2> QED BY <2>1, WritersWrite
<1> QED BY <1>1, WindowsHold, PTL DEF Spec, OnlyWritersWrite

\* However the system cuts the searches of a listing, one that is over reports
\* entries below the root, or of the root, once, each directory before what is in
\* it, all of them when no search was cut; its handles are closed and its paths
\* freed, though not its search patterns; and a buffer holds what was written to it in whichever memory it
\* is, with room for the zero behind it.
THEOREM ListingIsSound == Spec => []ListingSound
<1>1. (kind = "listing" => ListingInv) /\ (kind = "buffer" => BufferInv) => ListingSound
  BY ListingInvSound, BufferInvSound DEF ListingSound
<1> QED BY <1>1, ListingHolds, BuffersHold, PTL

\* What a benchmark reports is what was measured: from sums of differences from
\* an estimate that the warm up made, the mean, the least and the greatest time
\* and the variance of the accepted batches come out exactly, in order and not
\* negative, and it returns only when more time than the limit has passed.
THEOREM MeasuredIsRight == Spec => []MeasuredRight
<1>1. (kind = "benchmark" => BenchInv) => MeasuredRight
  BY BenchSound DEF MeasuredRight
<1> QED BY <1>1, BenchHolds, PTL
=============================================================================
