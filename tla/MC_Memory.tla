------------------------------ MODULE MC_Memory ------------------------------
(****************************************************************************)
(* The allocators of the library, each on its own: `kind` says which one a  *)
(* behaviour is about, and the variables of the others keep one value.      *)
(****************************************************************************)
EXTENDS Allocators

CONSTANTS
  HEADER, MaxCalls,           \* of the malloc allocator
  N, Sizes, Pointers,         \* of the resize protocol
  memory_size, BlockSizes,    \* of the allocator of the tests
  RingRequests,               \* what a client asks the ring for
  ResizesAnytime              \* of the ring, see StackRing

ASSUME HeapAssumption ==
  /\ HEADER \in Nat /\ MaxCalls \in Nat
  /\ N \in Nat \ {0} /\ Sizes \subseteq Nat /\ Pointers \subseteq Nat \ {0}
  /\ memory_size \in Nat /\ BlockSizes \subseteq Nat

\* the buffer of a ring ends at a multiple of the header, as it begins at one
ASSUME RingAssumption ==
  /\ buffer_to % SLOT = 0
  /\ RingRequests \subseteq (Nat \ {0}) \X (Nat \ {0})
  /\ \A r \in RingRequests : r[2] < SLOT => SLOT % r[2] = 0
  /\ ResizesAnytime \in BOOLEAN

VARIABLES
  kind,
  last_block_to, last_block_from, current_alloced, max_alloced, slots,
  remainder_from,
  heap, padding, total_alloced, allocation_count, deallocation_count, resize_count,
  available_from, available_to, last_allocation, chain, current_block, size,
  chunk_size, bytes_alloced, bytes_used, used_blocks, destroyed,
  arrays, held, written, phase, at, ok, new_size, new,
  cells, damaged, aborted

\* requests that fit tightly, that are aligned beyond a header, that never fit
MCRequests == {<<1, 1>>, <<3, 2>>, <<2, 4>>}
MCRingRequests == {<<1, 1>>, <<5, 1>>, <<2, 4>>, <<13, 1>>}
ArenaRequests == {<<3, 1>>, <<2, 8>>}

Linear == INSTANCE LinearAllocator
Stack == INSTANCE StackAllocator
Ring == INSTANCE StackRing WITH Requests <- RingRequests
Malloc == INSTANCE MallocAllocator
Arenas == INSTANCE Arena WITH
  Null <- 0, BLOCK <- 4, BLOCK_ALIGN <- 4, ArenaBlocks <- {64, 128},
  External <- {<<301, 12>>, <<321, 12>>}, FirstChunk <- 8, MaxChunk <- 16,
  Requests <- ArenaRequests, ResizeSizes <- {1, 4}, AddsAnywhere <- FALSE
Resizing == INSTANCE ResizeProtocol
Testing == INSTANCE TestingAllocator

stack_vars == <<last_block_to, last_block_from, slots>>
malloc_vars == <<padding, total_alloced, allocation_count, deallocation_count, resize_count>>
arena_vars == <<available_from, available_to, last_allocation, chain, current_block, size,
                chunk_size, bytes_alloced, bytes_used, used_blocks, destroyed>>
resize_vars == <<arrays, held, written, phase, at, ok, new_size, new>>
zone_vars == <<cells, damaged, aborted>>

vars == <<kind, live, parent, max_alloced, current_alloced, stack_vars, remainder_from,
          heap, malloc_vars, arena_vars, resize_vars, zone_vars>>

NoStack == last_block_to = 0 /\ last_block_from = 0 /\ current_alloced = 0
NoSlots == slots = 0
NoRing == remainder_from = 0
NoMalloc == /\ heap = {} /\ padding = 0 /\ total_alloced = 0
            /\ allocation_count = 0 /\ deallocation_count = 0 /\ resize_count = 0
NoArena == /\ available_from = 0 /\ available_to = 0 /\ last_allocation = 0
           /\ chain = 0 /\ current_block = 0 /\ size = 0 /\ chunk_size = 0
           /\ bytes_alloced = 0 /\ bytes_used = 0 /\ used_blocks = 0 /\ destroyed = FALSE
NoResize == /\ arrays = 0 /\ held = 0 /\ written = 0 /\ phase = "none"
            /\ at = 0 /\ ok = FALSE /\ new_size = 0 /\ new = 0
NoZones == cells = 0 /\ damaged = {} /\ aborted = FALSE
NoFixed == NoStack /\ NoSlots /\ NoRing
NoParent == parent = {} /\ max_alloced = 0

Init ==
  \/ /\ \/ kind = "linear" /\ Linear!Init /\ NoSlots /\ NoRing
        \/ kind = "stack" /\ Stack!Init /\ NoRing
        \/ kind = "ring" /\ Ring!Init
     /\ NoMalloc /\ NoArena /\ NoResize /\ NoZones
  \/ kind = "malloc" /\ Malloc!Init /\ NoFixed /\ NoArena /\ NoResize /\ NoZones
  \/ kind = "arena" /\ Arenas!Init /\ NoParent /\ NoFixed /\ NoMalloc /\ NoResize /\ NoZones
  \/ /\ kind = "resize" /\ Resizing!Init
     /\ live = {} /\ NoParent /\ NoFixed /\ NoMalloc /\ NoArena /\ NoZones
  \/ /\ kind = "testing" /\ Testing!Init
     /\ NoParent /\ NoFixed /\ NoMalloc /\ NoArena /\ NoResize

Next ==
  /\ UNCHANGED kind
  /\ \/ /\ kind = "linear" /\ Linear!Next
        /\ UNCHANGED <<slots, remainder_from, heap, malloc_vars, arena_vars, resize_vars, zone_vars>>
     \/ /\ kind = "stack" /\ Stack!Next
        /\ UNCHANGED <<remainder_from, heap, malloc_vars, arena_vars, resize_vars, zone_vars>>
     \/ /\ kind = "ring" /\ Ring!Next
        /\ UNCHANGED <<heap, malloc_vars, arena_vars, resize_vars, zone_vars>>
     \/ /\ kind = "malloc" /\ Malloc!Next
        /\ UNCHANGED <<current_alloced, stack_vars, remainder_from, arena_vars, resize_vars, zone_vars>>
     \/ /\ kind = "arena" /\ Arenas!Step
        /\ UNCHANGED <<parent, max_alloced, current_alloced, stack_vars, remainder_from,
                       heap, malloc_vars, resize_vars, zone_vars>>
     \/ /\ kind = "resize" /\ Resizing!Next
        /\ UNCHANGED <<live, parent, max_alloced, current_alloced, stack_vars, remainder_from,
                       heap, malloc_vars, arena_vars, zone_vars>>
     \/ /\ kind = "testing" /\ Testing!Next
        /\ UNCHANGED <<parent, max_alloced, stack_vars, remainder_from, malloc_vars, arena_vars, resize_vars>>

Spec == Init /\ [][Next]_vars

-----------------------------------------------------------------------------
\* The linear allocator cuts blocks that are disjoint, aligned and inside the
\* buffer, also after its last block was freed or refused to grow; what does not
\* fit is asked of the parent as it is given back; and the count of bytes is at
\* least that of the live blocks.
LinearSound ==
  kind = "linear" => LiveDisjoint /\ LiveAligned /\ ParentMatches /\ Linear!AllocatedCounted

\* The same of the stack, except that it passes its parent a size for an
\* alignment.  Freed in any order, its blocks leave nothing behind: no block
\* overwrites the header of another, and it is empty when all were freed.
StackSound ==
  kind = "stack" => LiveDisjoint /\ LiveAligned /\ Stack!EmptyWhenFreed /\ Stack!HeadersIntact

\* Through wraps, stubs and frees in any order the blocks of the ring are disjoint,
\* its slots form the chain its two ends walk, its bytes are counted, and it is
\* whole again when all its blocks were freed; unless a client, while older blocks
\* lie behind the wrap, resizes one of them or the last block over them.
RingSound ==
  kind = "ring" => /\ LiveDisjoint /\ LiveAligned /\ ParentMatches
                   /\ Ring!ChainWhole /\ Ring!RingCounted /\ Ring!WholeWhenFreed

\* Blocks of the arena stay disjoint over chunks, resets and resizes, the chunks
\* stay one chain that ends at its last, the counts are right, and every chunk goes
\* back to the parent; of a client that adds a block of its own where no other
\* follows it, or at the front.
ArenaSound ==
  kind = "arena" =>
    Arenas!ArenaDisjoint /\ Arenas!ArenaChain /\ Arenas!ArenaCounted /\ Arenas!ArenaReturned

\* What goes back to the heap is what came from it, whatever the alignment: free
\* is given malloc's pointer, the counts are of blocks that are held, and the
\* two-array resize, failed and undone or not, keeps contents and blocks; and the
\* allocator the tests run on finds out who writes past a block, and no other.
HeapSound ==
  /\ kind = "malloc" =>
       LiveDisjoint /\ LiveAligned /\ Malloc!FreeMatches /\ Malloc!MallocCounted
  /\ kind = "resize" => Resizing!BlocksMatch /\ Resizing!ContentsKept
  /\ kind = "testing" => Testing!OverrunsFound
=============================================================================
