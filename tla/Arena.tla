-------------------------------- MODULE Arena --------------------------------
(****************************************************************************)
(* Arena_Allocator: blocks are cut from the current one of a chain of       *)
(* larger blocks, which come from the parent or from the client. A reset    *)
(* makes the whole chain available again. Every larger block of the model   *)
(* has an address of its own, the client's outside of the parent's.         *)
(****************************************************************************)
EXTENDS Integers, FiniteSets, FiniteSetsExt

CONSTANTS
  Null,
  BLOCK,           \* sizeof(Block)
  BLOCK_ALIGN,     \* ARENA_BLOCK_ALIGN
  ArenaBlocks,     \* the addresses at which the parent has blocks
  External,        \* the blocks a client may add: address and size
  FirstChunk,      \* the chunk size of a new arena
  MaxChunk,        \* the largest chunk default_arena_grow asks for
  Requests, ResizeSizes, MaxLive,
  AddsAnywhere     \* whether clients add blocks in the middle of the chain, too

VARIABLES
  available_from, available_to, last_allocation,
  chain,           \* first_block, last_block and the links of the blocks
  current_block,
  size,            \* the size of a block and whether the parent gave it
  chunk_size, bytes_alloced, bytes_used, used_blocks,
  live,            \* the client's blocks: address, size and alignment
  destroyed

available == <<available_from, available_to, last_allocation>>
blocks == <<chain, current_block, size, chunk_size, bytes_used, used_blocks>>
vars == <<available, blocks, bytes_alloced, live, destroyed>>

Nodes == ArenaBlocks \cup {e[1] : e \in External}
List == INSTANCE IntrusiveList WITH Node <- Nodes, Double <- FALSE

align_forward(ptr, align_to) == ptr + ((-ptr) % align_to)
Larger(a, b) == IF a > b THEN a ELSE b

Init ==
  /\ available_from = 0 /\ available_to = 0 /\ last_allocation = 0
  /\ chain = List!NoChain /\ current_block = Null
  /\ size = [n \in {} |-> 0]
  /\ chunk_size = FirstChunk /\ bytes_alloced = 0 /\ bytes_used = 0 /\ used_blocks = 0
  /\ live = {} /\ destroyed = FALSE

data(block) == block + BLOCK
Next(n) == chain.next[n]
default_arena_grow(current) == IF current * 2 > MaxChunk THEN MaxChunk ELSE current * 2

\* the allocation from a block whose free part begins at `from`
Cut(from, s, align) ==
  LET aligned == align_forward(from, align) IN
  /\ available_from' = aligned + s
  /\ last_allocation' = aligned
  /\ bytes_alloced' = bytes_alloced + s
  /\ live' = live \cup {[at |-> aligned, size |-> s, align |-> align]}

Fits(s, align) == align_forward(available_from, align) + s <= available_to

Allocate(s, align) ==
  /\ ~destroyed /\ Fits(s, align)
  /\ Cut(available_from, s, align)
  /\ UNCHANGED <<available_to, blocks, destroyed>>

\* the blocks after the current one, in order
BlocksAfter ==
  IF current_block = Null THEN {} ELSE List!Passed(chain, Next(current_block))

Suits(n, s, align) == data(n) + size[n].size - align_forward(data(n), align) >= s

\* the first block after the current one that can hold the request, and the
\* block before it
Found(s, align) ==
  {p \in (BlocksAfter \cup {current_block}) \X BlocksAfter :
     /\ p[1] # Null /\ Next(p[1]) = p[2]
     /\ Suits(p[2], s, align)
     /\ \A n \in BlocksAfter : Suits(n, s, align) => n \in List!Passed(chain, p[2])}

Enter(s, align, c, n, sizes) ==
  /\ chain' = List!insert_node(c, current_block, n)
  /\ current_block' = n
  /\ size' = sizes
  /\ Cut(data(n), s, align)
  /\ available_to' = data(n) + sizes[n].size

AllocateInNext(s, align) ==
  /\ ~destroyed /\ ~Fits(s, align)
  /\ \E p \in Found(s, align) :
       Enter(s, align, List!extract_node(chain, p[1], p[2]), p[2], size)
  /\ UNCHANGED <<chunk_size, bytes_used, used_blocks, destroyed>>

AllocateInNew(s, align) ==
  LET effective == s + BLOCK + (IF align > BLOCK_ALIGN THEN align ELSE 0)
      required == Larger(effective, chunk_size)
      free == ArenaBlocks \ DOMAIN size
      n == CHOOSE m \in free : \A o \in free : m <= o
  IN  /\ ~destroyed /\ ~Fits(s, align)
      /\ Found(s, align) = {}
      /\ free # {}
      /\ used_blocks' = used_blocks + 1
      /\ bytes_used' = bytes_used + required
      /\ chunk_size' = default_arena_grow(chunk_size)
      /\ Enter(s, align, chain, n,
               [m \in DOMAIN size \cup {n} |->
                  IF m = n THEN [size |-> required - BLOCK, was_alloced |-> TRUE] ELSE size[m]])
      /\ UNCHANGED destroyed

\* the parent has no block left
AllocateFails(s, align) ==
  /\ ~destroyed /\ ~Fits(s, align)
  /\ Found(s, align) = {}
  /\ ArenaBlocks \subseteq DOMAIN size
  /\ UNCHANGED vars

Deallocate(b) ==
  /\ bytes_alloced' = bytes_alloced - b.size
  /\ available_from' = IF b.at = last_allocation /\ b.at + b.size = available_from
                       THEN b.at ELSE available_from
  /\ live' = live \ {b}
  /\ UNCHANGED <<available_to, last_allocation, blocks, destroyed>>

\* the end moves on by the whole new size
Resize(b, new_size) ==
  /\ b.at = last_allocation /\ available_from + new_size <= available_to
  /\ available_from' = available_from + new_size
  /\ bytes_alloced' = bytes_alloced + new_size - b.size
  /\ live' = (live \ {b}) \cup {[b EXCEPT !.size = new_size]}
  /\ UNCHANGED <<available_to, last_allocation, blocks, destroyed>>

\* the last of the blocks after the current one that the loop goes past: those
\* in front of the first that is as large as the new one
PassedLast(buffer_size) ==
  LET passed == {n \in BlocksAfter :
                   \A m \in BlocksAfter :
                     size[m].size >= buffer_size => m \in List!Passed(chain, Next(n))}
  IN  IF passed = {} THEN Null
      ELSE CHOOSE n \in passed : Next(n) \notin passed

\* The new block is linked behind `before` and then inserted behind it, which
\* finds it linked: it is its own next one when there was one behind `before`.
\* Built with assertions the arena aborts.
linked_twice(before, block) ==
  LET linked == [chain EXCEPT !.next = [@ EXCEPT ![block] = chain.next[before], ![before] = block]]
  IN  List!insert_node(IF before = Null THEN chain ELSE linked, before, block)

add_external_block(block, buffer_size) ==
  LET before == PassedLast(buffer_size) IN
  /\ ~destroyed /\ block \notin DOMAIN size
  /\ AddsAnywhere \/ (before # Null => Next(before) = Null)
  /\ size' = [m \in DOMAIN size \cup {block} |->
                IF m = block THEN [size |-> buffer_size - BLOCK, was_alloced |-> FALSE] ELSE size[m]]
  /\ chain' = linked_twice(before, block)
  /\ UNCHANGED <<available, current_block, chunk_size, bytes_used, used_blocks,
                 bytes_alloced, live, destroyed>>

\* after which the client may use none of its blocks
reset ==
  /\ ~destroyed
  /\ current_block' = chain.first
  /\ IF chain.first = Null
     THEN available_from' = 0 /\ available_to' = 0
     ELSE /\ available_from' = data(chain.first)
          /\ available_to' = available_from' + size[chain.first].size
  /\ bytes_alloced' = 0
  /\ live' = {}
  /\ UNCHANGED <<last_allocation, chain, size, chunk_size, bytes_used, used_blocks, destroyed>>

\* what the destructor gives back to the parent
Returned ==
  {n \in List!Passed(chain, chain.first) : size[n].was_alloced}

Destroy ==
  /\ ~destroyed /\ destroyed' = TRUE
  /\ size' = [n \in DOMAIN size \ Returned |-> size[n]]
  /\ live' = {}
  /\ UNCHANGED <<available, chain, current_block, chunk_size, bytes_alloced, bytes_used, used_blocks>>

Step ==
  \/ /\ Cardinality(live) < MaxLive
     /\ \E r \in Requests :
          \/ Allocate(r[1], r[2])
          \/ AllocateInNext(r[1], r[2])
          \/ AllocateInNew(r[1], r[2])
          \/ AllocateFails(r[1], r[2])
  \/ \E b \in live : Deallocate(b)
  \/ \E b \in live, n \in ResizeSizes : Resize(b, n)
  \/ \E e \in External : add_external_block(e[1], e[2])
  \/ reset
  \/ Destroy

Spec == Init /\ [][Step]_vars

-----------------------------------------------------------------------------
Bytes(b) == b.at .. b.at + b.size - 1

\* The client's blocks are disjoint and each lies in the data of one block of
\* the chain: taking a block out of the chain and putting it back behind the
\* current one loses none and never opens one that still holds blocks.
ArenaDisjoint ==
  /\ \A b, c \in live : b # c => Bytes(b) \cap Bytes(c) = {}
  /\ \A b \in live : /\ b.at % b.align = 0
                     /\ \E n \in DOMAIN size :
                          data(n) <= b.at /\ b.at + b.size <= data(n) + size[n].size

\* The chain links every block, ends at last_block, and contains the current
\* one, whose data hold the free part.
ArenaChain ==
  ~destroyed =>
    /\ List!Passed(chain, chain.first) = DOMAIN size
    /\ chain.last # Null => chain.next[chain.last] = Null
    /\ (chain.first = Null) = (chain.last = Null)
    /\ current_block # Null =>
         /\ current_block \in DOMAIN size
         /\ available_to = data(current_block) + size[current_block].size
         /\ available_from >= data(current_block)

\* The statistics count the bytes the client holds and what the parent gave.
\* is_invariant asserts of used_blocks that it is the length of the chain, as it
\* is unless the client has added a block of its own.
ArenaCounted ==
  ~destroyed =>
    LET given == {n \in DOMAIN size : size[n].was_alloced}
    IN  /\ bytes_alloced = MapThenSumSet(LAMBDA b : b.size, live)
        /\ used_blocks = Cardinality(given)
        /\ bytes_used = MapThenSumSet(LAMBDA n : size[n].size + BLOCK, given)
        /\ given = DOMAIN size => Cardinality(List!Passed(chain, chain.first)) = used_blocks

\* Destroying the arena gives every block of the parent back.
ArenaReturned == destroyed => \A n \in DOMAIN size : ~size[n].was_alloced
=============================================================================
