# Verification of jot

jot is a header-only C++ library of containers and allocators: hash tables, arrays whose items
keep stable handles, arenas and ring allocators, strings, files. It is single threaded. What
makes it hard is not concurrency but protocols over data: handles, free lists and links that
must survive every sequence of calls, operations that must undo themselves when an allocation
fails, counters of fixed width, and loops that end only because a counter elsewhere was right.

This directory holds TLA+ models of that code, the TLC configurations that check them and proofs
checked by TLAPS. All of it describes the release build (`NDEBUG`): the assertions of the code
are not guards of the models but properties of them.

## Inventory

| Component | Source | State | Operations | What makes it correct |
|---|---|---|---|---|
| Hash_Table | `hash_table.h` | `_keys`, `_values`, `_linker` (open addressing), sizes, gravestone and collision counters, seed | set, multi::add_another, find, multi::find_next, remove, mark_removed, rehash, reserve, move | links unique; no key lost; counters right; probes and growth end |
| Weak_Bucket_Array | `weak_bucket_array.h` | buckets of slots with a generation, free list | insert, remove, get, reserve | a handle finds its item or nothing; addresses are stable |
| Bucket_Array | `bucket_array.h` | buckets, use mask, free list, handle offset | insert, remove, get, reserve | handles stay valid; free and used slots are disjoint |
| Slot_Array | `slot_array.h` | dense items, slots, owners, free list | insert, remove, get, to_index, to_handle, reserve | the owner and slot tables are inverse |
| Array | `array.h` | data, size, capacity, allocator | construct, copy, move, swap; push, pop, insert, remove, resize, reserve, assign | sequences of the right contents; items live once; a block has one owner |
| Static_Array | `static_array.h` | items, size | as an array of fixed capacity | as above |
| Hash_Index | `hash_index.h` | open addressing table of row numbers | find, find_next, insert, remove, rehash | every row is found |
| Intrusive_List | `intrusive_list.h` | links inside the nodes | push, pop, insert, extract of nodes and chains | one chain, both directions agree |
| Memory | `memory.h` | counters, default allocators, the resize protocol | allocate, deallocate, resize, undo, Allocator_Swap, out of memory handler | all or nothing; counters match |
| Stack_Ring_Allocator | `allocator_stack_ring.h` | headers in a ring buffer, remainder, last block | allocate, deallocate, resize | live blocks are disjoint; frees in any order are reclaimed |
| Stack, Linear, Failing allocators | `allocator_stack.h`, `allocator_linear.h`, `allocator_failing.h` | buffer, top, last block | allocate, deallocate, resize | live blocks are disjoint; an empty buffer when all is freed |
| Arena_Allocator | `allocator_arena.h` | blocks in a list, available range, last allocation | allocate, resize, reset, add_external_block | live blocks are disjoint; reset reuses blocks; all goes back |
| Slices, strings | `slice.h`, `string.h` | none | search, split, join, copy, measure | agree with a declarative definition |
| Formatting | `format.h` | none | numbers, ranges, slots, `printf` | text is complete, numbers read back |
| Files | `file.h`, `whole_file.h` | descriptor, table of open descriptors | open, close, read, write, seek, guards | partial transfers are continued; descriptors have one owner |
| OS layer | `io.h`, `io_windows.h` | handles, buffers, search queue | open, read, write, copy, move, list directories, paths | no handle leaks; listings are complete; paths keep their meaning |
| Benchmark | `benchmark.h` | batches, sums, estimate | gather statistics | statistics are those of the counted batches; it ends |
| Other headers | time, stack traces, mathematics, hash functions, helpers | none or the system's | | not modelled, see below |

Interactions. Every container holds a pointer to an allocator and calls `allocate`, `resize` and
`deallocate` of it; `memory_resize_allocate`, `_deallocate` and `_undo` are the protocol by
which a container moves two arrays at once. A container that cannot get memory calls the global
out of memory handler, which by default stops the program. The allocators fall back on a parent
allocator when their own buffer is full. Strings are arrays; formats and paths build strings;
the OS layer has buffers of its own over `realloc`. Everything happens in the caller's thread,
inside the call.

The behaviours that are hard are listed, each at its line, under `hazards` in `PROJECT.json`.

## Modules

| Module | Models |
|---|---|
| `MultiMap` | what a hash table promises: a bag of key-value pairs |
| `HashTable` | `hash_table.h` in full detail, and its refinement of `MultiMap` |
| `MC_HashTable` | instances for TLC: hash functions with collisions, growth parameters |
| `HandleStore` | what an array with stable handles promises: a map from live handles to items |
| `LossyStore` | what is left of it when `get` and `remove` do not find every handle in use |
| `FreeList` | a list kept in the unused places of an array |
| `Buckets` | what the two bucket arrays share: blocks, buckets and the free list |
| `WeakBucketArray`, `BucketArray` | `weak_bucket_array.h` and `bucket_array.h`: `Buckets` with generations, with masks; the first refines `LossyStore`, the second `HandleStore` |
| `SlotArray` | `slot_array.h`, and its refinement of `HandleStore` |
| `ListLemmas` | facts on natural numbers, sequences, walks and linked lists for the proofs |
| `HashTable_proofs` | the theorems of `HashTable`: links and keys, contents, counters and room |
| `Buckets_proofs`, `WeakBucketArray_proofs`, `BucketArray_proofs`, `SlotArray_proofs` | the theorems of the arrays with handles |
| `Memory_proofs` | those of the linear, the stack, the malloc and the ring allocator, the resize protocol and the tests' allocator |
| `Library_proofs` | those of all components of `MC_Library` but the functions on text and paths |
| `Allocators` | what the allocators over a fixed buffer share: alignment, live blocks, the parent |
| `LinearAllocator`, `StackAllocator`, `StackRing` | the three allocators over a fixed buffer |
| `MallocAllocator`, `ResizeProtocol` | `memory.h`: the heap with its counters; several arrays resized at once, undone and freed |
| `Arena` | `allocator_arena.h`, over the chain of `IntrusiveList` |
| `TestingAllocator` | the allocator that the tests of `io_windows.h` run on |
| `MC_Memory` | the instances of all of these for TLC, and what must hold of them |
| `ItemSequence` | what arrays and lists promise: sequences and what each operation makes of them |
| `Array` | `array.h`, as an array of items and as a string |
| `ArrayOwners` | several arrays with their allocators: copies, moves, swaps, destructors, `Allocator_Swap` |
| `IntrusiveList`, `LinkedList` | the primitives on a chain of nodes; a client of them |
| `HashIndex` | `hash_index.h` and a client with rows |
| `Files`, `FileHandles` | `file.h`: the loops that read and write; who closes a descriptor |
| `WindowsFiles`, `WindowsBuffer`, `DirectoryListing`, `Paths` | `io_windows.h`: handles and positions; buffers; the walk over directories; paths |
| `TextOps`, `Formatting` | `slice.h`, `string.h` and `format.h` as operators |
| `Benchmark` | `benchmark.h`: the measuring loop |
| `MC_Library` | the instances of all from `Array` on for TLC, and what must hold of them |

`MultiMap`, `HandleStore`, `LossyStore` and `ItemSequence` are abstract; the others `EXTEND` one
another as listed: `WeakBucketArray` and `BucketArray` extend `Buckets`, which with `SlotArray`
extends `FreeList`. `MC_Memory` and `MC_Library` compose by choice: `kind` says which component
a behaviour is about, and the variables of the others keep one value. So one run covers many
small machines, and an invariant of such a module is a conjunction of implications, one for each
kind.

### HashTable

State. `linker`, `entries` (keys and values together: the code always moves them together), the
sizes and counters have the names of the fields. `linker` is a function from slot to link, with
`EMPTY_LINK` and `GRAVESTONE_LINK` as the two largest values of a `Word`-valued integer; `Word`
is 2^32 in the code and a constant here, and the arithmetic of `grow_if_overfull` wraps around
at it (`Sub`, `Mul`). Keys, values and seeds are model values or small numbers; the hash
function and the growth parameters are constants, as they are parameters in the code.

Steps. A call is one action, except where it loops over data: the compaction of `unsafe_rehash`
(`CompactMove`), its relinking (`RelinkEntry`) and the growth loop of `reserve_entries_failing`
(`GrowCapacity`) take one step per iteration. Between steps `pc` says where the call stands and
`call` keeps its arguments; `marks`, `fresh`, `relinked` and `fresh_collisions` are the local
variables of `unsafe_rehash`. `set` and `add_another` begin with `Insert` (that is
`grow_if_overfull`), run a rehash when it is needed and end with `FinishInsert` (the probe loop
and `push_new`). A probe loop is a formula for the slot where it stops; if there is no such slot
the action is not enabled, and `ProbeEnds` says that this does not happen.

Failures. `Fails` says which allocations may fail. When the linker cannot be allocated, the
table is untouched and the handler stops the program (`pc = "panic"`). When the entries cannot
be, `set_entries_capacity` goes on with pointers it has undone (`pc = "corrupt"`); nothing of
the table can be relied on then, the model ends there, and keeps the last good fields only to
say what was lost.

Faulty variants. Some definitions are followed by their correct form and commented as faulty:
each is a bug the code could plausibly have, and a property has to tell it from the code. They
are used by no action.

Refinement. `MultiMap` is a bag of pairs. A step of it could be mistaken for another: a rehash
that loses a pair looks like a removal. So `IsMultiMap` also says, with `BagAsCalled`, which
abstract step a step of the table is, by the call it belongs to: `remove(k)` and `mark_removed`
take out one pair of `k`, an insertion adds its own pair or replaces one of its key, and all
other steps leave the bag alone.

Left out: moving and swapping tables, the destructor, `Hash_Found` values a client keeps across
calls, and tables copied by construction.

### Buckets, WeakBucketArray, BucketArray

The two bucket arrays differ only in how a bucket tells its used items from the free ones, so
`Buckets` models what is common, from `weak_bucket_array.h`, whose text `bucket_array.h`
repeats: `add_buckets_failing`, `reserve`, `grow`, `to_index`, and the free list of `insert` and
`remove`. An item is the number bucket * `BUCKET_SIZE` + item. `data` is the memory of the
items: it maps the number of every item that has memory to an item or, when it is free, to the
link that the code writes into that memory. The last bucket of a block may be cut short, so
`data` has holes. `allocations` remembers the size of every block. `insert` is two steps:
`BeginInsertion` is `grow`, with the failures of its two allocations, and `FinishInsert` takes
the first free item.

`WeakBucketArray` adds the generations, modulo `2 * USED_BIT`. `issued` and `uses` are history:
every handle that was ever returned, and how often every item was inserted; clients use any
issued handle, current or stale, and `Remove` is enabled when the code's test finds it. The
items in place are `Store`, under the handle each was inserted with; `FoundHandles` are those of
the handles that pass the test of `get` and `remove`. Both are the state of `LossyStore`, in
which a removal may hide the handles of other items, and `StoreAsCalled` ties its steps to the
calls. The destructor computes the size of a block from the buckets (`FreedBytes`).
`BucketArray` adds the mask (`used`) and the number of items in each bucket, and its destructor
also says which items it has destroyed.

### SlotArray

`data` and `slots` are the two parts of the one allocation; `slots[i].item` is the code's union
of `item` and `next`. `NewSlots` is the copying and linking of `set_capacity_failing`, with
arbitrary numbers (`Junk`) in the slots that are not copied. The allocator may resize in place,
allocate or fail (`Outcomes`). `block` says whether the memory is still allocated; once it was
freed under the array, the behaviour ends. `live` is history: the slots whose handles clients
hold. Handles of removed items are not used, since `Slot_Array` does not claim to recognise
them; the same goes for `BucketArray`.

### Allocators and memory

A block a client holds is a record of address, size and alignment in `live`; addresses count
from the start of the buffer, the parent's memory lies beyond it. `last_block_to`,
`current_alloced`, `remainder_from` and so on are the fields of the same names. A header
(`slots`) occupies `SLOT` bytes and is forgotten as soon as a client owns one of its bytes, so
that a walk over headers that meets one which is gone is noticed. Sizes are in bytes; the ring's
division by `SIZE_MULT` is left out.

One call is one action, in which the loops over headers are recursive functions or sets of
addresses, but for `ResizeProtocol`, where a call on three arrays takes one step per array and
every step may be refused. The arena's blocks come from the parent at addresses of their own or
from the client (`add_external_block`), and their order is the chain of `IntrusiveList`.
`TestingAllocator` keeps what every unit of memory holds, so that a client that writes past a
block changes a kill zone.

The clients of these models do not do three things the code does not survive. They never shrink
a block of the linear or stack allocator: the end moves although `resize` answers false. While
older blocks lie behind the wrap, a client of the ring resizes none of these and does not grow
the last block over them; it does resize blocks in front of the wrap, and the last one up to it
(`ResizesApart`; with `ResizesAnytime = TRUE` it may do anything, and `RingSound` is false). A
client of the arena adds external blocks at the front of the chain or at its end (`AddsAnywhere
= TRUE` puts them in the middle, too, and `ArenaSound` is false). Each is under "What the code
does otherwise".

### Array, ItemSequence, ArrayOwners

`Array` keeps the cells of the block (`data`), `size` and `capacity`; a cell holds an item,
nothing, a terminator, or what is left of an item that was moved. `IsString` chooses the
specialisation for characters. `Items` is the sequence the array stands for, and `Follows` says
of each operation which operation of `ItemSequence` it is: a step of `push` appends its item,
one of `set_capacity` keeps the items that fit, a refused one changes none. `ValueStep` says the
same of the operations of `ArrayOwners`, and `Lists!Follows` of those of the lists.
`ArrayOwners` has several variables, of which each owns a block of an allocator (`heap`);
`wrong` records a block that was freed where it did not come from. Clients do not write through
the terminator that arrays without a block share (`TerminatorOwned`), and insert in front of the
last item or behind it unless `Anywhere` is true: see `array_insert`.

### IntrusiveList, LinkedList, HashIndex

The primitives are operators from one chain to another, as they are functions of a chain and a
node or two in the code; `Arena` uses the same ones. `LinkedList` is a client with one list.
`HashIndex` models the table, and the client that has rows with hashes and leaves one slot
empty, as every search needs.

### Files, FileHandles

`Files` takes a step for every system call inside `read`, `write` and `read_whole_file`, and
another process may change the file's length between two of them. `inner` is what one call of
`partial_read` or `partial_write` has transferred, `processed` what the loop around it has. The
system may transfer any part of what is asked of it. After a read that was shorter than its
chunk, `read` goes on at the front of the buffer, over what it has read: `overwritten` is
history, and says that this has happened. The properties claim of such a string only its length
and where its bytes come from, and of any other that it is the start of the file. An empty file
that is read into a string without a block puts the terminator where the library keeps a
constant, which may end the program (`whole = "crashed"`). `FileHandles` has descriptors, `File`
variables, and guards that swap the table of open descriptors, with long jumps that skip
destructors.

### WindowsFiles, WindowsBuffer, DirectoryListing, Paths

The functions of Windows are external: they do what `io_windows.h` relies on, and may fail.
`WindowsFiles` takes one step for every part of a transfer. It asks for as much as the code's
mask leaves of the rest (`MASK_LOW` stands for 0x100000, the first bit that 0x8FFFFF lacks); the
files of the run stay below it, see below. `WindowsBuffer` has the local buffers and the
concatenations that the other functions build names in. `DirectoryListing` walks the listed
trees breadth first, one step for every entry the system reports. A search the system refuses or
breaks off (`cut`) is over for the code, which goes on with the next directory and reports
success; a search of the root that returns nothing fails the listing. `Paths` has the
normalisation, the parsing and the conversion of paths; a character that takes two bytes in one
encoding and one in the other stands for all that change their length.

### TextOps, Formatting, Benchmark

The functions on text are operators; `MC_Library` evaluates them on every input in `Inputs`, one
at a time, against definitions that say what is meant. `Benchmark` takes one step for each batch
of runs, of which the clock measures one of `Ticks`; the statistics are compared with the list
of the batches (`measured`), which is history.

## What the runs check

### The hash table

Three keys: `k1` and `k2` have the same hash value under every seed, `k3` hashes to the slot
after theirs or wraps around to slot 0. Tables have at most 3 entries (`MaxEntries`), 6 in
`full_rotation`, and linkers that grow from 4 slots (`MCGrowth`) or from 2 (`SmallGrowth`, and
`TightGrowth`, which lets the linker be half full). These bounds are small but reach every case
of the code: collision chains over two and three slots, wrap around, reuse of a gravestone in
the middle of a chain, growth and cleaning rehashes, removal of the last, of a linked and of a
marked entry. `MaxShift` bounds only the linkers of explicit rehashes and is above what three
entries can ask for. `Word` is 1024: larger than any product the small tables compute, smaller
than any value that has wrapped around below zero.

| Run | Shows |
|---|---|
| `multimap` | all operations, with 4 slots and 3 entries: links are unique; the gravestone counter stays between the gravestones and the gravestones with the dead entries; the table is a bag of pairs, and every call, rehashes and compactions included, does to it what it is for |
| `reseed` | with failed allocations, rehashes to another seed and to the smallest size, in a half full linker, but no markings: the fields have their types, `find` finds every key, `find_next` visits every entry of a key, there are no dead entries, a rehash has room, every insertion finds a slot and every call returns |

Three runs find what the documentation, an assertion or a test says violated; the findings in
`PROJECT.json` quote the lines.

| Run | Violated | Why |
|---|---|---|
| `set_after_remove` | a key is stored once | `set` stops at the first gravestone, before its key |
| `entries_lost` | the resize protocol undoes what failed | `set_entries_capacity` does not return after the undo |
| `full_rotation` | every insertion finds a slot | removals and markings drive the gravestone counter above the size of the linker, the difference in the load test wraps around, and the linker fills up |

`full_rotation` is why `reseed` does not mark entries removed and why nothing is claimed in
`multimap` of calls that return: there, `MaxEntries` is too small for the table to fill up.
`mark_removed` counts two for a slot, the gravestone and the dead entry, and an insertion that
reuses the slot takes one off. Two keys and a linker that begins with 2 slots (`SmallGrowth`)
are enough. Nothing is claimed of three more things the comments say, since the code does
otherwise: `_gravestone_count` is not exactly the gravestones and the dead entries
(`GravestonesCounted` has the bounds that hold), `_hash_collisions` misses entries put over
gravestones (`CollisionsCounted` is proved of clients that do not remove), and iterating
`find_next` past the last entry of a key does not end when no slot is `EMPTY_LINK` any more
(`FindNextVisits` says only that no entry is missed).

### The arrays with handles

Two items, so that a handle that names the wrong item is noticed. Blocks hold three items of two
bytes in buckets of two, so every block has a bucket that is cut short and unused numbers; up to
`MaxIndex` there is room for two blocks in the table's first or second size. `USED_BIT` is 4 and
`MaxInserts` lets one item be used until its generation has come round. The slot array has up to
4 slots and an offset of 14 modulo 16, so that handles wrap around. Nothing is claimed with
bounds that the code's own constants would not allow: 8 or 256 items in a bucket, blocks of 4096
bytes, 128 items at least. The passing runs keep away from five things the code does not handle.
`slot_handles` reserves only when no slot is free (`ReservesAnytime = FALSE`): used slots beyond
the number of items are not copied, and with `ReservesAnytime = TRUE` the invariant
`ItemsFormLoops` is false. `weak_handles` and `bucket_handles` have no `handle_offset`: `insert`
passes `_first_free` to `to_index`, which takes the offset off, while `add_buckets_failing`
links indices without one, so `InsertInRange` is false with an offset (what it says is that an
insertion takes a place inside the memory; that nothing else uses that place is
`FreeListWhole`). They reserve no more than a doubled table has room for: `add_buckets_failing`
doubles the table once, however many buckets it adds, and a larger reservation makes
`BucketsFit` false. `weak_handles` does not claim that live handles are found, see
`weak_live_lost`. And `item_bytes` divides `BUCKET_GRANULARITY`, and all but one of the items of
a bucket take less than that: the destructor of `Weak_Bucket_Array` computes the size of a block
from its buckets, and for items of 3 bytes and blocks of 10 `BlocksFreed` is false. With the
code's own 4096 bytes, items of 36 bytes and a reservation of 500, 20480 bytes are allocated and
16384 freed; items of 1024 bytes and a reservation of 3 allocate 4096 and free 8192. The clients
use handles they were given: a zero handle is found in an item that was never used, because both
have generation 0.

| Run | Shows |
|---|---|
| `weak_handles` | the free list goes through exactly the unused memory; a stale handle is not found until generations may have come round; growing and its failures leave a consistent table; an insertion takes a place inside the memory; the destructor frees blocks with their size; what is found under a handle is the item it was returned for, and a call changes no item but its own |
| `bucket_handles` | the same for the free list and the handles; the destructor destroys what is in use in full and in short buckets |
| `slot_handles` | owners and slots are inverse after every exchange and reallocation; unused slots are the free list; there is a slot for every insertion; handles name their items wherever those are moved |

| Run | Violated | Why |
|---|---|---|
| `weak_live_lost` | a handle whose item was not removed is found | `get` and `remove` compare the bucket with the number of items |

### The allocators

The constants satisfy `AllocatorsAssumption`, which says what a client owes: it asks for at
least a byte (an empty block at the end of the buffer would not be recognised as one of the
buffer's), and alignments and the size of a header are powers of two, of which the model uses
that the smaller divides the larger. The buffer has 12 bytes with headers of 2. Requests fit
tightly, are aligned beyond a header or never fit; up to three blocks live at once, so one lies
between two others, and the ring wraps with stubs. `MaxCount` is above what three blocks with
resizes count. The arena's parent has two blocks, for chunks of 8 and 16 bytes with their
headers, and its client two of 12: a request of 3 fits all, one aligned to 8 does not fit a
chunk of 8, and a chain of three has a first, a middle and a last block. The resize protocol has
three arrays, so that one was resized in place and one was moved when the third is refused, and
capacities from 0 to 2.

| Run | Shows |
|---|---|
| `memory` | one property for each kind of allocator: live blocks are disjoint, aligned and inside their buffer; headers survive; what is freed in any order is there again; counters tell the truth; the heap gets back what it gave; several arrays are resized or none |

### Arrays, lists, text, files

Arrays hold up to 4 items in capacities of 0, 2 and 5, so that they grow and are moved; two
variables and two allocators with two swaps inside one another; lists have 4 nodes, the least
with a middle of two. The hash index has 4 slots and 3 rows, which may collide and wrap around.
Files have 5 bytes in chunks of 2: two full chunks and a short one. Windows has two names, two
handles and files of 2 bytes, which the system transfers in one part or two. Trees have a
directory in a directory, an empty one and two in a row. Strings have up to 4 characters and
separators of up to 2, memories 5 cells, formats 6 characters, and paths 5 behind each kind of
root: room for a name and "../" with something on both sides. Numbers have 4 bits, in bases 2 to
5. A benchmark lasts 8 ticks, with no, a short and a long warm-up.

| Run | Shows |
|---|---|
| `library` | every item lives once and contents follow the abstract sequence; blocks have one owner and are freed where they came from; links agree in both directions; rows are found; transfers in parts are in order, and end; no handle of a file leaks or is shared; only writers write; listings are complete unless a search was cut, and give back what the entries took; text, formats and paths are what their definitions say; statistics are those of the counted batches |

| Run | Violated | Why |
|---|---|---|
| `array_insert` | inserting moves all later items | the loop overwrites the last but one item and leaves the last moved out |

`library` keeps away from more that the code does not handle, by what its clients pass:
insertions in order in front of other items than the last (`array_insert`); lists of directories
that outgrow the first block of the queue; names that end in dots; a hash index without an empty
slot, and comparisons that accept an entry of -1, which is what the index asks about a
gravestone. Of other inputs less is claimed than the comments say: nothing of formats that have
an argument beside an escaped slot, or more slots than the array of arguments; of texts longer
than estimated only their length, not that they are printed whole; of slices of items larger
than a byte only that those that are said to alias do; of relative paths that climb more than
one directory above where they start that the result is in normal form, not that it is the same
path; of listed directories which directory the path names, not that it ends in a separator; of
strings that a second read has put over a first only their length. Each is under "What the code
does otherwise".

### Fairness

`CallsReturn` of the hash table assumes `WF_vars(Step)`: a call that has begun goes on. There is
one thread and no call waits for anything, so the code justifies it. It is claimed of clients
that do not use `mark_removed` only: `full_rotation` has an insertion that never returns.
`CallsEnd` of the library assumes `WF_vars(Progress)`: a system call that was made returns, and
the clock moves on between two batches of a benchmark that goes on measuring. Windows'
performance counter does so; the POSIX branch of `time.h` returns the nanoseconds inside the
second (lines 91-97) and is not claimed. Nothing is assumed of clients: they may stop calling at
any time. And nothing is assumed of files: another process may go on changing their length.

## What the code does otherwise

Disagreements met while modelling that have no run of their own. Where a constant or a property
reproduces one, it is named; the others are the reason for a restriction named above.

- `slot_array.h:218`: a reservation copies `_size` slots and links the rest, although used slots
  may lie beyond. With `ReservesAnytime = TRUE` the invariant `ItemsFormLoops` is false.
- `slot_array.h:241`: a block that was resized in place is deallocated. `MemoryHeld` in
  `SlotArray` is false.
- `bucket_array.h` and `weak_bucket_array.h`: the table is doubled once, however many buckets a
  reservation adds. `BucketsFit` is false with larger reservations.
- `hash_table.h:150-166`: `seed` returns `_max_hash_collisions`, and `swap` leaves
  `_linker_size`, the collision counters and the seed where they are.
- `array.h:420`: `push_multiple` grows first, so a slice of the array itself dangles.
- `allocator_linear.h:87`, `allocator_stack.h:123`: `resize` of the last block moves the end,
  and answers false.
- `allocator_stack.h:51`: passes the size for the alignment to the parent.
- `allocator_stack_ring.h:315`: a resize takes a block for the last one when it ends behind
  `last_block_to`, and compares the new end with the end of the buffer only. After a wrap the
  last block may grow over older blocks behind it, and each of these is taken for the last one.
  With `ResizesAnytime = TRUE` in `MC_Memory` the invariant `RingSound` is false.
- `allocator_arena.h:172-178`: an external block in the middle of the chain is linked behind
  `before` by hand and then inserted there again, after which it is its own next block and the
  rest of the chain is lost. With `AddsAnywhere <- TRUE` the invariant `ArenaSound` is false.
  And `is_invariant` (line 275) asserts that `used_blocks` is the length of the chain, but
  `add_external_block` does not count its block: with assertions the arena stops; `ArenaCounted`
  claims that equality only of arenas without external blocks.
- `hash_index.h`: `rehash` calls a function that is not declared and cannot be instantiated. And
  `find_hash` (lines 28-33) asks the client's comparison about gravestones, too, as the entry
  -1; the client of the model says no.
- `slice.h:121-127`: `is_aliasing` compares a distance in bytes with a number of items, so that
  slices of larger items that share some are said not to alias; `AliasRight` claims the converse
  of items of one byte only.
- `file.h:377`: the comment at 363-370 promises that `read` keeps trying, but the loop hands the
  same start of the buffer to every `partial_read`: after a short read the rest overwrites what
  came first, and the result is success. That `whole = "ok"` means that the string is the file
  is false in `Files`.
- `whole_file.h:27`: an empty file read into a string that never had a block makes
  `resize_for_overwrite` (`array.h:478-484`) put a terminator where the library keeps a constant
  shared by all such strings.
- `file.h:509`: a guard replaces the table of descriptors and not its size.
- `io_windows.h:225`: a transfer whose size has none of the bits of 0x8FFFFF, 1 MiB for one,
  asks for zero bytes and reports the end of the file. With `MASK_LOW` set to 2 in `MC_Library`,
  so that files reach it, `WindowsFilesSound` is false.
- `io_windows.h:471`: `wio_malloc_full_path` converts the terminator along with the text; the
  separator it then adds for a directory is behind it. `io.h:21` says "Returned directory paths
  always end in /".
- `io_windows.h:491-505`, `538`: the buffer of a search pattern is not freed when it has
  outgrown its local one, and the search of an empty root directory is not closed
  (`EntriesReturned` has these as the only things that are not given back); a search that cannot
  be opened or breaks off ends its directory, and the listing reports success; `554`: the loop
  keeps a pointer into the queue across a push.
- `io_windows.h:900`: "../../b" becomes "b", while the normal form of `io.h:39-46` allows any
  number of "../" at the start of a relative path; "a./b", whose first name ends in a dot,
  becomes "ab"; and "//a" keeps its second separator. The prefix of a long path is recognised
  with backslashes only, while `io.h:54` gives "//?/" as its example.
- `io_windows.h:1262`: `wio_testing_has_file_with` uses the result of `memcmp` as if it were
  true for equal contents.
- `format.h:207`: the second `snprintf` of a text that is longer than estimated has no room for
  the terminator, and the last character is lost, while the comments at lines 97 to 106 say that
  the formatted text is appended.
- `format.h:592`: with more slots than arguments the tail of the arguments starts beyond them;
  and "{{}}" takes an argument, whose text is lost, while the example at `format.h:44` has one
  beside two slots and the rules give arguments to "{}" only.
- `benchmark.h:158`: `iters * remaining` may overflow; the greatest time is not below the
  estimate of the warm-up even if all batches were.

## What is proved

### The hash table

`HashTable_proofs` proves, for every set of keys and values, every hash function, every growth
parameters that satisfy `GrowthAssumption`, every bound and every choice of operations and
failures:

- `TypeCorrect`: `Spec => []TypeOK`;
- `LinksStayUnique`: `Spec => []LinksUnique`;
- `KeysNeverLost`: `Spec => []KeysFound`.

The assumptions. `ClientAssumption` only types the constants. `GrowthAssumption` says that the
growth formula grows every capacity a table can have and stays below the two reserved links,
which the defaults of `Hash_Table_Growth` (3/2 and 8 more) do until the tables are near 2^32
entries, and that tables are smaller than the reserved links.

The argument. Neither uniqueness nor `KeysFound` is inductive. The inductive invariant `IInv`
says that the linker in use is `Good`: every link names an entry of the array, no other slot has
the same link, and the slot is `Reached` from the hash value of its entry's key without meeting
an empty slot. The new linker a rehash is filling is good for the entries it has linked so far,
under the new seed. Removing a link leaves a gravestone, so nothing becomes unreachable
(`GoodUnlink`); moving the last entry changes one link to an index that is free
(`GoodMoveLast`); an insertion puts its link in the first free slot (`GoodLinkNew`). That
compaction leaves no hole below the number of marked entries is `NoHoles`. `KeysFound` follows:
of the slots on the way to a reached slot that hold the key, `find` stops at the first one
(`ReachedFound`).

The second half of the module goes on from `IInv`:

- `Refinement` (`Spec => IsMultiMap`, assuming that the allocation of the entries does not fail,
  after which nothing of the table can be relied on): the pairs of the linked entries are the
  bag the abstract table holds. An action of `MultiMap` is the step of a call that links,
  unlinks or overwrites; growth, compaction and relinking are stutters, because compaction moves
  only marked entries away and every entry is linked again (`RelinkedLinks`). That each call
  makes the step it is for (`BagAsCalled`) comes from the same cases, one for each action.
- `EntriesAllLive`, assuming that `mark_removed` is not used: `AllLinked` says that every entry
  is linked, or is among those that are still to be relinked.
- `GravestonesAreCounted`, for tables whose slots and entries together are fewer than `Word`:
  `GravesBound` keeps both bounds through compaction, where they count the marked entries.
- `RehashesFit` and `InsertionsFindRoom`, assuming no `mark_removed`, growth parameters that
  make sense (`GrowthSane`) and products that do not overflow (`ArithmeticFits`): `Room` says
  that links and gravestones leave an empty slot, as the load test makes sure, and `NoGraves`
  that the linker a rehash fills has links only. `full_rotation` shows that the first assumption
  is needed.
- `KeysStoredOnce`, for a client that only uses `set`, `rehash` and `reserve`, by `OncePerKey`:
  `set` overwrites the entry that `find` stops at.
- `CollisionsAreCounted`, which no run checks, for a client that does not remove, by
  `AwayBound`: an entry that is away from the slot of its hash value was counted when it was put
  there.
- `EntriesVisited`: the slots on the way of a key that link entries of the key are those `find`
  and `find_next` stop at, by `Visits`, the same recursion that the model uses.

Only model-checked: `CallsReturn`, which is liveness.

### The arrays with handles

- `SlotArray_proofs`: `TypeCorrect`, `LoopsStayClosed`, `InsertionsFindSlots`,
  `FreeListComplete` and `HandlesStayStable` (`Spec => IsHandleStore`), for every offset and
  every outcome of the allocator, assuming `ReservesAnytime = FALSE`: TLC shows that
  `ItemsFormLoops` is false without it.
- `BucketArray_proofs`: `InsertionsInRange`, `FreeListComplete`, `AllDestroyed` and
  `HandlesStayStable`; `WeakBucketArray_proofs`: the first, second and fourth of these, the last
  about `LossyStore`, so that it claims nothing of the handles that `get` and `remove` do not
  find; `TypeCorrect`, `BlocksAllFreed` (for item sizes as above) and `StaleHandlesFail`
  (`WeakSpec => []StaleNotFound`). For all sizes of items, buckets, blocks and generations and
  every failing allocation, assuming `handle_offset = 0`, for the reason above. `BucketsFit` is
  not assumed: where the code writes past its table the model goes on as if there were room, and
  the theorems say nothing about memory that such a write damages.

The argument. That an insertion gets memory nothing else uses is not inductive: it says where
the list starts, not where it goes after the next insertion. The strengthening is `IsLinked`
(`ListLemmas`): every unused place has a depth, the depths are the numbers from 1 to the number
of free places, no two are the same, the first place is the deepest, and the link of a place
leads to the one below it, or to none from depth 1. `LinkedTake`, `LinkedGive` and `LinkedRange`
show that taking the first place, giving one back and putting a new block in front keep it; the
modules' invariants add that the used items are as many as are counted and are the others.
`StaleHandlesFail` rests on `UsesCounted`: the low bits of an item's generation are its changes
modulo `USED_BIT` and the high bit tells used from unused (`GenerationSteps`), so two uses less
than `USED_BIT` / 2 apart differ.

`FreeListComplete` says that the walk along the list, a recursive function, meets every unused
place: there is no induction over it, but `LinkedIsList` takes the smallest depth at which the
walk and the depths differ. `AllDestroyed` rests on `Covered` and `DestroyedAll`: the
destructor's loop over blocks and buckets meets every item that has memory. `BlocksAllFreed`
computes the size of a block back from the buckets it was divided into (`SizesRoundBack`).

Only model-checked here: `BucketsFit`, and what is false without the restrictions above.

### The allocators

`Memory_proofs` proves `LinearAllocatorSound`, `StackAllocatorSound` and `HeapsSound`, that is
`Spec => []LinearSound`, `[]StackSound` and `[]HeapSound` of `MC_Memory`, for every buffer,
every size of a header, every set of requests and every bound that satisfy
`AllocatorsAssumption`, and for the last also every number of arrays, set of capacities and
addresses and size of memory that satisfy `HeapAssumption`.

That the blocks are disjoint is not inductive: it does not say where the next one goes. The
linear allocator's `LinearInv` adds that the blocks end at or before `last_block_to`, and all
but the block at `last_block_from` at or before `last_block_from` (`BelowLast`), so that taking
back or growing the last one touches no other; that the parent's blocks are those held outside
of the buffer (`ParentHeld`); and the count. The sum of the sizes is a fold, about which the
prover has no induction, so `SizesTake` is proved from the smallest set on which it fails.

The stack's `StackInv` says that there is a set of addresses (`Stacked`) where blocks have begun
and whose headers are intact: each header leads to the next address below or to the start
(`Walkable`), the highest is the last block and used (`Top`), the used ones are the blocks that
are held (`UsedIsHeld`), and these end before the next header (`Between`). `WalkFinds` says that
the walk, a recursive function on pairs of addresses, stops at the highest address whose header
is used, by the smallest address where it does not. A set of addresses and not a list is enough,
since the walk goes down.

`HeapSound` is about three programs, each with an invariant of its own. `MallocInv`: every block
lies with its header inside one of the pieces malloc gave, and the address that `free` is going
to be given (`Original`) is where that piece begins (`HeapHolds`); the pieces are apart, so the
address tells which. `ResizeInv` follows a call over its phases: `HasNew`, `HasOld` and `Copied`
say for each array what it owns and where its bytes are when the call stands at `at`; `Fresh`,
that no new block is another array's, old or new, which is why undoing or freeing one array
leaves the others alone; `Kept`, that what was written is in the block those three point to.
`ZonesInv`: the marks on both sides of a block are its size or gone, and the block is damaged
exactly when one is gone; blocks with their marks are apart, so `realloc` marks and wipes nobody
else's.

The module also proves `RingAllocatorSound`, `Spec => []RingSound`, for every buffer, size of a
header, set of `RingRequests` and of resizes and number of blocks that satisfy
`AllocatorsAssumption` and `RingAssumption`, and of a client that resizes apart from older
blocks (`~ResizesAnytime`). `RingAssumption` says of the requests that their alignment divides a
header's or is larger, which powers of two do, and that the buffer ends at a multiple of a
header's size, which the code leaves to its client: the constructor's alignment is commented out
(`allocator_stack_ring.h:52`). It is needed because a resize tests the unrounded end of the
block against the buffer and stores the rounded one (lines 314 to 320).

The invariant `RingInv` says that there are two sets of addresses of headers, `A` in front of
the gap and `B` behind it, with three properties. They tile the buffer (`Tiles`): `A` from its
start to `last_block_to`, `B` from `remainder_from` to its end, each header ending where the
next begins. The headers of `A` that are not stubs are chained backwards; the last is that of
the last block, is used, and only stubs lie behind it (`Walkable`, `LastIs`). The used headers
of both are those of the client's blocks in the buffer, which fit in front of the next header
(`Owned`). With the parent's blocks (`RingParent`) and the count of bytes (`RingCount`) this is
inductive.

Each of the model's four walks is a recursive function, and the prover has no induction over it;
each also evaluates to some value that has to be shown to be the function's. `StepsReach` gives,
by the smallest number of remaining bytes for which there is none, a function that satisfies the
recursion; `FrontFinds`, `EndFinds`, `MetFinds` and `ShapePop` say where the walks that free
from the front, look for a block's new end, meet all headers and free from the back stop. The
steps follow: placing a block adds a stub and a header to `A` (`ShapePlace`), freeing takes the
free end of `A` off (`ShapeFreed`, `ShapePop`), freeing from the front takes the free start of
`B` off (`ShapeRemainder`), wrapping makes what is left of `A` and a stub the new `B`
(`ShapeWrap`), and resizing merges the headers of `A` that it runs over (`ShapeMerge`,
`ShapeGrow`). All headers lie apart from all blocks, so none is overwritten by a client. When
the last block ends at the very end of the buffer, a wrap writes the header of its stub there,
behind the buffer (lines 167 to 170): the model keeps that header beside the others, where no
walk reads it, and the theorem says nothing about memory that the write damages.

### The library

`Library_proofs` gives every component of `MC_Library` an invariant of its own, under the `kind`
of its behaviours, and puts them together: `InitKind` and `NextKind` say that a behaviour of a
kind begins and goes on as that component does.

- `ArraysAreSound` (`Spec => []ArraySound`) and `ItemsAreFollowed` (`Spec => ItemsFollow`), for
  every set of items, capacities, variables and allocators that satisfy `ArrayAssumption` and
  `OwnersAssumption`. `ArrayInv` says which cells hold an item, which is the terminator and that
  the others are raw; each operation builds the new block from the old one cell by cell, and the
  lemmas on sequences (`InsertedIs`, `TakenOutIs`, `ReplacedIs`) turn that into what it does to
  `Items`. `OwnersInv` says of several arrays that each has its own block, of its allocator and
  with its size, and that every block has its array; and which allocator `Allocator_Swap` puts
  back.
- `LinksAreSound` (`Spec => []LinksSound`), for every number of nodes, rows and slots. `Chained`
  says that the links of a chain are those of some sequence of nodes without repetition, in both
  directions if the list is a double one; an insertion, an extraction and the moving of a part
  are sequences built from that one (`InsertedNext`, `TakenNext`, `SwappedNext`), read backwards
  for the other direction. `IndexInv` says that every row is reached from its hash before an
  empty slot; iterating `find_next` is a recursive function, handled by `WalkKeeps`.
- `FilesAreSound` (`Spec => []FilesSound`), for every length of a file, chunk of the transfers
  and number of descriptors, guards and `File` variables, with short reads and other processes
  that change the length at any time. `ReadsInv` says what a call has done when it stands
  between two system calls: `ReadingFile`, that the bytes it has counted are those in front of
  the position and, unless `read` went back to the start of the buffer, are in it in order;
  `WritingFile`, that the file begins with the bytes that were handed over so far.
  `DescriptorsInv` says of the table that it is full of -1 under a guard, since the size that
  belongs to it stays 0, and of the `File`s that no two have the same descriptor (`Holders`).
- `WindowsFilesAreSound` (`Spec => []WindowsFilesSound`) and `WritersOnly` (`Spec =>
  OnlyWritersWrite`), for every set of handles, modes and bytes. They need `WindowsAssumption`:
  no transfer is larger than the mask leaves whole (`MaxSize < MASK_LOW`), see above for what
  happens beyond. `CallInv` says that a call in parts is on an open file, that it began at the
  position it remembers and, before its first byte, that nothing has changed; a part that is
  transferred moves position and count together (`TransferredIs`).
- `ListingIsSound` (`Spec => []ListingSound`), for every set of trees that satisfies
  `ListingAssumption` (an entry is in one place) and every search that is refused or cut.
  `QueueInv` says that each search of the queue is of a directory which a search in front of it
  has found, and that those in front of the current one are over or cut; `ListedInv`, that the
  entries reported so far are those that the searches have returned, once, parents first. With
  no search cut, nothing below the root is missing (`AllBelow`). `BufferInv` is about the
  buffers.
- `MeasuredIsRight` (`Spec => []MeasuredRight`), for all times that satisfy `BenchAssumption`.
  `Counted` says of the sums of the differences from the estimate what they are of the batches
  themselves, `VarianceShifted` that the deviation does not depend on the estimate.

### Only model-checked

`ArenaSound`, `TextRight` and `PathsRight`; the last two are about functions over data.
`OneEntryPerKey` and `CollisionsCounted` are the reverse: they are proved, of clients that do
not remove, and no passing run checks them. Liveness (`CallsReturn`, `CallsEnd`) is out of the
prover's reach.

## Not modelled

- `math.h`, the hash functions, `intrin.h`, `meta.h` and the other helpers: floating point, bit
  mixing and code of the compiler, without state. A hash function is a parameter of the models.
- `time.h`, `stack_trace*.h` and `unistd.h`: one system call each or the debugger's interface.
- `Failing_Allocator` always fails, which every other model has among its inputs; `Static_Array`
  has the loops of `Array` over a fixed buffer.
- File times, links and the working directory as state (`io_windows.h`); output of formats to
  files.
- Moving and swapping hash tables, and `Hash_Found` values kept across calls: the code trusts
  them.
- The tests and the container benchmarks: they use the library; what they expect of it is quoted
  where the code disagrees.

## Plan

Done: the hash table with its refinement and theorems; the three arrays with handles against
`HandleStore` and `LossyStore`, with theorems; the resize protocol and the allocators, with
theorems on all but the arena; arrays, lists, the hash index, files, listings and benchmarks,
with theorems; paths, text and formats.

Next, most important first:

1. `Arena_proofs` (`ArenaSound`): the blocks of the current chunk end at `available_from`, the
   chain is one of chunks.
2. `TablePair`: moving and swapping hash tables.
