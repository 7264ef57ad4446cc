------------------------------ MODULE MC_Library ------------------------------
(****************************************************************************)
(* The containers over memory, the two layers of files, the listing of      *)
(* directories, the benchmark and the functions on slices, strings, paths   *)
(* and formats, each on its own: `kind` says which one a behaviour is       *)
(* about, and the variables of the others keep one value. A function is     *)
(* evaluated on the inputs that a client may pass it, one at a time.        *)
(****************************************************************************)
EXTENDS Integers, Sequences, FiniteSets, Formatting, Paths

CONSTANTS
  Item, Given, MaxItems, Capacities,                \* arrays
  Var, Allocator, Malloc, OwnedCapacities, MaxSwaps,
  Node, Null,                                       \* lists
  indeces_size, Row, Hash,                          \* the hash index
  MaxFile, MAX_READ_WRITE_CHUNK,                    \* files
  FileVar, Descriptor, GuardSize, MaxGuards,
  Path, Handle, Modes, Handed, MaxSize, MASK_LOW,    \* files on Windows
  Backings, FirstCapacity, MaxPushed,               \* buffers
  Trees, Root,                                      \* directories
  max_time_ns, WarmUps, ClockRuns, batch_of_clock_accuracy_multiple,
  min_batch_size, min_end_checks, Ticks, HUGE,      \* benchmarks
  Char         \* the characters of strings, numbers other than 0

VARIABLES
  kind,
  data, size, capacity,                     \* arrays and buffers
  stopped,                                  \* arrays
  arrays, heap, default, swaps, wrong,      \* several arrays and their allocators
  chain,                                    \* lists
  indeces, rows,                            \* the hash index
  file, position, op, processed, inner, ok, eof, whole, needed_size, overwritten,  \* reading and writing
  buffer,                                   \* ... and on Windows
  files,                                    \* the Files of either layer
  opened, lost, table, table_size, guards,  \* their descriptors
  disk, call, state,                        \* files on Windows
  handles,                                  \* ... and searches
  is_alloced, blocks, pushed,               \* buffers
  tree, recursive, phase, queue, reading_from, entries, paths, strings, patterns,
  to_time, batch_time_ns, total_time, batch_size, batch_count, time_sum, squared_time_sum,
  min_batch_time, max_batch_time, mean_time_estimate, measured, returned,   \* benchmarks
  input                                     \* of a function

-----------------------------------------------------------------------------
(* The components. *)

Arrays(IsString) == INSTANCE Array WITH Anywhere <- FALSE
Owners == INSTANCE ArrayOwners WITH IsString <- TRUE, Capacities <- OwnedCapacities
Lists(Double) == INSTANCE LinkedList
Index == INSTANCE HashIndex
Reads == INSTANCE Files
Descriptors == INSTANCE FileHandles
Windows == INSTANCE WindowsFiles WITH INVALID <- -1, Given <- Handed
Buffers == INSTANCE WindowsBuffer WITH MaxItems <- MaxPushed
Listing == INSTANCE DirectoryListing
Bench == INSTANCE Benchmark

-----------------------------------------------------------------------------
(* What the components rest on. *)

ASSUME ArrayAssumption ==
  Capacities \subseteq Nat /\ MaxItems \in Nat /\ Given \subseteq Seq(Item)

\* the first default allocator is one of the allocators
ASSUME OwnersAssumption ==
  IsFiniteSet(Var) /\ Malloc \in Allocator /\ OwnedCapacities \subseteq Nat

ASSUME ListAssumption == IsFiniteSet(Node) /\ Null \notin Node

ASSUME IndexAssumption ==
  indeces_size \in Nat \ {0} /\ Row \subseteq Nat /\ Hash \subseteq Nat

ASSUME BufferAssumption ==
  Backings \subseteq Nat /\ FirstCapacity \in Nat \ {0} /\ MaxPushed \in Nat

\* an entry is in one directory, at one place in it
ASSUME ListingAssumption ==
  \A t \in Trees :
    /\ IsFiniteSet(DOMAIN t) /\ Root \in DOMAIN t
    /\ \A d \in DOMAIN t :
         /\ Len(t[d]) \in Nat
         /\ \A i \in 1 .. Len(t[d]) : t[d][i] \notin {Root, "terminator"}
    /\ \A d, e \in DOMAIN t : \A i \in 1 .. Len(t[d]), j \in 1 .. Len(t[e]) :
         t[d][i] = t[e][j] => d = e /\ i = j

\* a chunk is not empty
ASSUME ReadsAssumption == MaxFile \in Nat /\ MAX_READ_WRITE_CHUNK \in Nat \ {0}

\* a File has -1 when it has no descriptor or handle
ASSUME DescriptorAssumption == Descriptor \subseteq Nat

\* Nothing is transferred that is larger than the mask leaves whole; beyond it
\* a size that is a multiple of MASK_LOW asks the system for nothing.
ASSUME WindowsAssumption ==
  /\ Handle \subseteq Nat /\ Handed \subseteq Seq(Nat)
  /\ MaxSize \in Nat /\ MASK_LOW \in Nat /\ MaxSize < MASK_LOW

\* what gather_bench_stats asserts; the first minimum is above all times, and
\* the clock was read at least once
ASSUME BenchAssumption ==
  /\ max_time_ns \in Nat /\ min_batch_size \in Nat \ {0} /\ min_end_checks \in Nat \ {0}
  /\ WarmUps \subseteq Int /\ HUGE \in Nat /\ Ticks \subseteq 0 .. HUGE
  /\ batch_of_clock_accuracy_multiple \in Nat
  /\ ClockRuns \subseteq Seq(Nat) \ {<<>>}

-----------------------------------------------------------------------------
(* The values of constants that a model checker needs a definition for *)

MCGiven == {<<>>} \cup {s \in [1 .. 2 -> Item] : s[1] # s[2]}

Mode(reads, writes, other_writes, create, create_else_fail) ==
  [reads |-> reads, writes |-> writes, other_reads |-> TRUE, other_writes |-> other_writes,
   create |-> create, create_else_fail |-> create_else_fail]

MCModes == {Mode(TRUE, FALSE, FALSE, FALSE, FALSE), Mode(TRUE, TRUE, FALSE, TRUE, FALSE),
            Mode(FALSE, TRUE, TRUE, FALSE, TRUE)}

MCHanded == {<<1, 2>>}

\* nested directories beside files, an empty directory, directories in a row
MCTrees ==
  {[r |-> <<"f", "d", "g">>, d |-> <<"h", "e">>, e |-> <<>>],
   [r |-> <<>>],
   [r |-> <<"d", "e">>, d |-> <<"c">>, c |-> <<"x">>, e |-> <<"y">>]}

\* the clock is slower than a batch, or not
MCClockRuns == {<<0, 1, 0>>, <<1, 3>>}

-----------------------------------------------------------------------------
(* Inputs of functions *)

SeqUpTo(S, n) == UNION {[1 .. m -> S] : m \in 0 .. n}

\* a memory of five cells, which holds two strings when one cell is 0
Memory(S) == [0 .. 4 -> S]

\* a root, or none, and what may follow it
Roots ==
  {<<>>, <<Sep>>, <<Lower, Colon>>,
   <<Upper, Colon, Sep>>, <<Long>>,
   <<Long, Sep>>, <<Long, Lower, Colon>>}
Accents == SeqUpTo({Accented, Dot, Sep}, 5)
Rests == SeqUpTo({"x", Dot, Sep}, 5)

\* paths with what the functions under test return for them
Normalized ==
  {[of |-> "path", path |-> path, as |-> as, long |-> long,
    out |-> path_normalize(path, as, long)] :
     path \in {root \o rest : root \in Roots, rest \in Rests},
     as \in {"same", "file", "directory"}, long \in BOOLEAN}
MadeFull ==
  {[of |-> "full", path |-> path, full |-> path_get_full(path),
    listed |-> [as \in {"file", "directory"} |->
      wio_malloc_full_path(normalize_convert_to_utf16(path), as)]] :
     path \in {root \o wio_utf16_to_utf8(rest) : root \in Roots, rest \in Accents}}

Inputs ==
  [of : {"split"}, s : SeqUpTo(Char, 4), separator : SeqUpTo(Char, 2) \ {<<>>}, max_parts : 0 .. 3]
    \cup [of : {"join"}, parts : SeqUpTo(SeqUpTo(Char, 2), 2), separator : SeqUpTo(Char, 1)]
    \cup [of : {"find"}, s : SeqUpTo(Char, 4), p : SeqUpTo(Char, 2)]
    \cup [of : {"strlen"}, memory : Memory({0, 1}), at : 0 .. 4]
    \cup [of : {"copy"}, to : 0 .. 4, from : 0 .. 4, n : 0 .. 5]
    \cup [of : {"alias"}, left : 0 .. 4, left_size : 1 .. 4, right : 0 .. 4, right_size : 1 .. 4,
          item_size : {1, 2, 4}]
    \cup [of : {"number"}, num : -8 .. 7, base : 2 .. 5,
          info : [pad_to : {0, 3, 6}, pad_with : {0, Space}, positive_marker : {<<>>, <<Plus>>},
                  count_markers_towards_pad : BOOLEAN, is_unsigned : BOOLEAN]]
    \cup [of : {"format"}, format : SeqUpTo({Open, Close, "x"}, 6),
          adapted : [1 .. 2 -> [given : {TRUE}, text : {<<"a">>, <<Open, Close>>}]
                                 \cup [given : {FALSE}, text : {<<>>}]]]
    \cup [of : {"print"}, into : SeqUpTo({"x"}, 1), estimated_size : 2 .. 3, text : SeqUpTo({"a", "b"}, 5)]
    \cup [of : {"range"}, parts : SeqUpTo(SeqUpTo({"a"}, 2), 3)]
    \cup Normalized \cup MadeFull

\* a slice lies inside its memory
Legal(i) == i.of = "copy" => i.to + i.n <= 5 /\ i.from + i.n <= 5

-----------------------------------------------------------------------------
(* The variables of each component, and the value they keep in the others. *)

cells == <<data, size, capacity>>
owner_vars == <<arrays, heap, default, swaps, wrong>>
index_vars == <<indeces, rows>>
read_vars == <<file, position, op, processed, inner, ok, eof, whole, needed_size, overwritten>>
table_vars == <<opened, lost, table, table_size, guards>>
disk_vars == <<disk, call, state>>
block_vars == <<is_alloced, blocks, pushed>>
list_vars == <<tree, recursive, phase, queue, reading_from, entries, paths, strings, patterns>>
bench_vars == <<to_time, batch_time_ns, total_time, batch_size, batch_count, time_sum,
                squared_time_sum, min_batch_time, max_batch_time, mean_time_estimate, measured, returned>>
vars == <<kind, cells, stopped, owner_vars, chain, index_vars, read_vars, buffer, files, table_vars,
          disk_vars, handles, block_vars, list_vars, bench_vars, input>>

NoCells == data = 0 /\ size = 0 /\ capacity = 0
NoArray == NoCells /\ stopped = FALSE
NoList == chain = 0
NoIndex == indeces = 0 /\ rows = 0
NoRead == /\ file = 0 /\ position = 0 /\ op = "none" /\ processed = 0 /\ inner = 0
          /\ ok = FALSE /\ eof = FALSE /\ whole = "none" /\ needed_size = 0 /\ overwritten = FALSE
NoFiles == files = 0
NoTable == opened = 0 /\ lost = 0 /\ table = 0 /\ table_size = 0 /\ guards = 0
NoDisk == disk = 0 /\ call = 0 /\ state = "none"
NoBlocks == is_alloced = FALSE /\ blocks = 0 /\ pushed = 0
NoListing == /\ tree = 0 /\ recursive = FALSE /\ phase = "none" /\ queue = 0 /\ reading_from = 0
             /\ entries = 0 /\ paths = 0 /\ strings = 0 /\ patterns = 0
NoBench == /\ to_time = 0 /\ batch_time_ns = 0 /\ total_time = 0 /\ batch_size = 0 /\ batch_count = 0
           /\ time_sum = 0 /\ squared_time_sum = 0 /\ min_batch_time = 0
           /\ max_batch_time = 0 /\ mean_time_estimate = 0 /\ measured = 0 /\ returned = FALSE
NoOwners == arrays = 0 /\ heap = 0 /\ default = 0 /\ swaps = 0 /\ wrong = FALSE
NoContainer == NoArray /\ NoOwners /\ NoList /\ NoIndex
NoSystem == NoRead /\ buffer = 0 /\ NoFiles /\ NoTable /\ NoDisk /\ handles = 0
NoInput == input = [of |-> "none"]

Init ==
  \/ /\ kind \in {"array", "string"} /\ Arrays(FALSE)!Init
     /\ NoOwners /\ NoList /\ NoIndex /\ NoSystem /\ NoBlocks /\ NoListing /\ NoBench /\ NoInput
  \/ /\ kind = "owners" /\ Owners!Init
     /\ NoArray /\ NoList /\ NoIndex /\ NoSystem /\ NoBlocks /\ NoListing /\ NoBench /\ NoInput
  \/ /\ \/ kind = "singly" /\ Lists(FALSE)!Init
        \/ kind = "doubly" /\ Lists(TRUE)!Init
     /\ NoArray /\ NoOwners /\ NoIndex /\ NoSystem /\ NoBlocks /\ NoListing /\ NoBench /\ NoInput
  \/ /\ kind = "index" /\ Index!Init
     /\ NoArray /\ NoOwners /\ NoList /\ NoSystem /\ NoBlocks /\ NoListing /\ NoBench /\ NoInput
  \/ /\ kind = "reads" /\ Reads!Init
     /\ NoContainer /\ NoFiles /\ NoTable /\ NoDisk /\ handles = 0
     /\ NoBlocks /\ NoListing /\ NoBench /\ NoInput
  \/ /\ kind = "descriptors" /\ Descriptors!Init
     /\ NoContainer /\ NoRead /\ buffer = 0 /\ NoDisk /\ handles = 0
     /\ NoBlocks /\ NoListing /\ NoBench /\ NoInput
  \/ /\ kind = "windows" /\ Windows!Init
     /\ NoContainer /\ NoRead /\ NoTable /\ NoBlocks /\ NoListing /\ NoBench /\ NoInput
  \/ /\ kind = "buffer" /\ Buffers!Init
     /\ stopped = FALSE /\ NoOwners /\ NoList /\ NoIndex /\ NoSystem /\ NoListing /\ NoBench /\ NoInput
  \/ /\ kind = "listing" /\ Listing!Init
     /\ NoContainer /\ NoRead /\ buffer = 0 /\ NoFiles /\ NoTable /\ NoDisk /\ NoBlocks /\ NoBench /\ NoInput
  \/ /\ kind = "benchmark" /\ Bench!Init
     /\ NoContainer /\ NoSystem /\ NoBlocks /\ NoListing /\ NoInput
  \/ /\ kind = "function" /\ NoContainer /\ NoSystem /\ NoBlocks /\ NoListing /\ NoBench /\ NoInput

container_vars == <<cells, stopped, owner_vars, chain, index_vars>>
system_vars == <<read_vars, buffer, files, table_vars, disk_vars, handles>>

Next ==
  /\ UNCHANGED kind
  /\ \/ /\ \/ kind = "array" /\ Arrays(FALSE)!Next
           \/ kind = "string" /\ Arrays(TRUE)!Next
        /\ UNCHANGED <<owner_vars, chain, index_vars, system_vars, block_vars, list_vars, bench_vars, input>>
     \/ /\ kind = "owners" /\ Owners!Next
        /\ UNCHANGED <<cells, stopped, chain, index_vars, system_vars, block_vars, list_vars, bench_vars, input>>
     \/ /\ \/ kind = "singly" /\ Lists(FALSE)!Next
           \/ kind = "doubly" /\ Lists(TRUE)!Next
        /\ UNCHANGED <<cells, stopped, owner_vars, index_vars, system_vars, block_vars, list_vars, bench_vars, input>>
     \/ /\ kind = "index" /\ Index!Next
        /\ UNCHANGED <<cells, stopped, owner_vars, chain, system_vars, block_vars, list_vars, bench_vars, input>>
     \/ /\ kind = "reads" /\ Reads!Next
        /\ UNCHANGED <<container_vars, files, table_vars, disk_vars, handles,
                       block_vars, list_vars, bench_vars, input>>
     \/ /\ kind = "descriptors" /\ Descriptors!Next
        /\ UNCHANGED <<container_vars, read_vars, buffer, disk_vars, handles,
                       block_vars, list_vars, bench_vars, input>>
     \/ /\ kind = "windows" /\ Windows!Next
        /\ UNCHANGED <<container_vars, read_vars, table_vars, block_vars, list_vars, bench_vars, input>>
     \/ /\ kind = "buffer" /\ Buffers!Next
        /\ UNCHANGED <<stopped, owner_vars, chain, index_vars, system_vars, list_vars, bench_vars, input>>
     \/ /\ kind = "listing" /\ Listing!Next
        /\ UNCHANGED <<container_vars, read_vars, buffer, files, table_vars, disk_vars,
                       block_vars, bench_vars, input>>
     \/ /\ kind = "benchmark" /\ Bench!Next
        /\ UNCHANGED <<container_vars, system_vars, block_vars, list_vars, input>>
     \/ /\ kind = "function" /\ input.of = "none"
        /\ input' \in {i \in Inputs : Legal(i)}
        /\ UNCHANGED <<container_vars, system_vars, block_vars, list_vars, bench_vars>>

\* a system call that was made returns, and the clock moves on
Progress ==
  \/ /\ kind = "reads" /\ Reads!Progress
     /\ UNCHANGED <<kind, container_vars, files, table_vars, disk_vars, handles,
                    block_vars, list_vars, bench_vars, input>>
  \/ /\ kind = "benchmark" /\ Bench!Advance
     /\ UNCHANGED <<kind, container_vars, system_vars, block_vars, list_vars, input>>

Spec == Init /\ [][Next]_vars /\ WF_vars(Progress)

-----------------------------------------------------------------------------
\* An item of an array or string is constructed once and destroyed once however
\* the array grows, shrinks and is overwritten; the capacity holds the items and
\* outlives their removal; and a string ends with its terminator in every state.
\* However arrays are copied, moved, swapped and left, and the default allocator
\* exchanged meanwhile, a block has one owner, which frees it where it came from.
ArraySound ==
  /\ kind = "array" => Arrays(FALSE)!Lifetimes /\ Arrays(FALSE)!CapacityKept
  /\ kind = "string" => Arrays(TRUE)!Lifetimes /\ Arrays(TRUE)!CapacityKept /\ Arrays(TRUE)!Terminated
  /\ kind = "owners" => Owners!BlocksOwned /\ Owners!DefaultRestored

\* Each operation of arrays, strings and lists does to the items what the operation
\* on sequences of that name does: a detour over capacity, links or several items
\* moved at once neither loses, repeats nor reorders one. Arrays insert in order in
\* front of their last item or behind it only (see Array_insert). Array variables
\* are values: no operation on some of them changes what another one holds.
ItemsFollow ==
  [][/\ (kind = "array" => Arrays(FALSE)!Follows)
     /\ (kind = "string" => Arrays(TRUE)!Follows)
     /\ (kind = "singly" => Lists(FALSE)!Follows)
     /\ (kind = "doubly" => Lists(TRUE)!Follows)
     /\ (kind = "owners" => Owners!ValueStep)]_vars

\* The links of a list agree in both directions and end in `first` and `last`,
\* and every row of a hash index is found by probing, through all removals.
LinksSound ==
  /\ kind = "singly" => Lists(FALSE)!LinksMatch
  /\ kind = "doubly" => Lists(TRUE)!LinksMatch
  /\ kind = "index" => Index!RowsFound

\* What is written in parts is in the file in order; what read_whole_file leaves
\* in a string came from the file, and is its start unless a short read was
\* followed by another; a descriptor belongs to one File; a guard puts back what
\* it found.
FilesSound ==
  /\ kind = "reads" => Reads!WholeRead /\ Reads!WritesInOrder
  /\ kind = "descriptors" => Descriptors!DescriptorsOwned /\ Descriptors!GuardsRestore

\* Every call that reads or writes returns, through chunks and parts and at the
\* end of a file that another process has shortened meanwhile; and so does every
\* benchmark, whatever its batches take and though all of them may be rejected.
CallsEnd ==
  /\ (kind = "reads" /\ op \in {"read_whole", "write"}) ~> op = "done"
  /\ kind = "benchmark" ~> returned

\* The statistics of a benchmark are those of the batches that were counted
\* since its warm-up, though they are kept as differences from an estimate.
MeasuredRight == kind = "benchmark" => Bench!MeasuredRight

\* On Windows no handle is leaked or shared, and in the midst of a read or a
\* write in parts the buffer, the file and the position agree.
WindowsFilesSound == kind = "windows" => Windows!HandlesOwned /\ Windows!IoInPlace

\* Opening, creating, copying and moving never overwrite a file that is there.
OnlyWritersWrite == [][(kind = "windows" => Windows!WritersStep)]_vars

\* A listing of a directory reports entries once, all of them unless a search
\* was cut, and gives back all but long search patterns and the handle of a root
\* with nothing in it; the buffers it and the conversions use keep what was put
\* in them.
ListingSound ==
  /\ kind = "listing" => Listing!ListedOnce /\ Listing!EntriesReturned
  /\ kind = "buffer" => Buffers!BufferSound

\* The functions on slices, strings and formats agree with their definitions:
\* parts joined again, what is found, lengths read in chunks, overlapping
\* copies, numbers read back, slots filled in order; the definitions of the
\* parts name the inputs of which nothing is claimed.
TextRight ==
  /\ input.of = "split" => SplitJoins(input.s, input.separator, input.max_parts)
  /\ input.of = "join" => JoinReserves(input.parts, input.separator)
  /\ input.of = "find" => FirstBeforeLast(input.s, input.p)
  /\ input.of = "strlen" => StrlenRight(input.memory, input.at, 5 - input.at, 2)
  /\ input.of = "copy" => CopyRight([a \in 0 .. 4 |-> a], input.to, input.from, input.n)
  /\ input.of = "number" => NumberReads(input.num, input.base, input.info)
  /\ input.of = "format" => SlotsFilled(input.format, input.adapted)
  /\ input.of = "print" => PrintedWhole(input.into, input.estimated_size, input.text)
  /\ input.of = "range" => RangeJoined(input.parts)
  /\ input.of = "alias" => AliasRight(input.left, input.left_size, input.right, input.right_size, input.item_size)

\* A normalised path denotes what the path did, its parts are inside it, and a
\* path that comes back from the system in absolute form denotes it still.
PathsRight ==
  /\ input.of = "path" =>
       Normalizes(input.path, input.as, input.long, input.out)
       /\ PartsNested(input.path)
  /\ input.of = "full" => FullPathRight(input.path, input.full, input.listed)
=============================================================================
