----------------------------- MODULE Allocators -----------------------------
(****************************************************************************)
(* What every allocator over a fixed buffer shares: the alignment of        *)
(* memory.h, the blocks its client holds and the blocks it has asked its    *)
(* parent for. Addresses count from the start of the buffer; the parent's   *)
(* memory begins at PARENT.                                                 *)
(****************************************************************************)
EXTENDS Integers, FiniteSets, FiniteSetsExt

CONSTANTS
  buffer_to,     \* the end of the buffer, whose start is 0
  SLOT,          \* the size of a header, which is that of a machine word
  Requests,      \* the pairs <<size, align>> a client asks for
  ResizeSizes,   \* the sizes a client resizes a block to
  MaxLive,       \* bound on the blocks a client holds
  MaxCount       \* bound on the counters, which a refused resize drives up

\* clients ask for at least a byte; alignments and the size of a header are
\* powers of two, so that the smaller divides the larger
ASSUME AllocatorsAssumption ==
  /\ buffer_to \in Nat /\ SLOT \in Nat \ {0}
  /\ Requests \subseteq (Nat \ {0}) \X (Nat \ {0})
  /\ \A r \in Requests : r[2] < SLOT => SLOT % r[2] = 0
  /\ ResizeSizes \subseteq Nat /\ MaxLive \in Nat /\ MaxCount \in Nat

VARIABLES
  live,     \* the client's blocks: address, size and alignment
  parent    \* the blocks held from the parent, as they were asked for

buffer_from == 0
PARENT == 2 * buffer_to

align_forward(ptr, align_to) == ptr + ((-ptr) % align_to)

align_backward(ptr, align_to) == ptr - (ptr % align_to)

AtLeast(a, b) == IF a > b THEN a ELSE b

Block(at, size, align) == [at |-> at, size |-> size, align |-> align]

\* a client that only grows blocks: a shrink the allocator refuses, after it
\* has moved its end, makes the next block overlap this one
Grows(b, new_size) == new_size > b.size

SizesOf(blocks) == MapThenSumSet(LAMBDA b : b.size, blocks)

Bytes(b) == b.at .. b.at + b.size - 1

InBuffer(b) == buffer_from <= b.at /\ b.at < buffer_to

\* parent->allocate: an address nobody holds; `asked` is what the parent sees
ParentAllocate(size, align, asked_size, asked_align) ==
  LET at == CHOOSE a \in PARENT .. PARENT + MaxLive : \A p \in parent : p.at # a
  IN  /\ parent' = parent \cup {Block(at, asked_size, asked_align)}
      /\ live' = live \cup {Block(at, size, align)}

\* parent->deallocate
ParentDeallocate(b) ==
  /\ live' = live \ {b}
  /\ parent' = {p \in parent : p.at # b.at}

\* the parent is the malloc allocator, whose resize always fails
ParentResize(b) == UNCHANGED <<live, parent>>

-----------------------------------------------------------------------------
(* Properties *)

\* Two blocks handed to the client never share a byte, and none leaves the
\* buffer: an allocator may neither forget a block nor trust a stale pointer.
LiveDisjoint ==
  /\ \A b \in live : InBuffer(b) => b.at + b.size <= buffer_to
  /\ \A b, c \in live : b # c /\ InBuffer(b) /\ InBuffer(c)
                          => Bytes(b) \cap Bytes(c) = {}

\* A block lies at a multiple of the alignment it was asked for.
LiveAligned == \A b \in live : InBuffer(b) => b.at % b.align = 0

\* A block that did not fit comes from the parent with at least its size and
\* alignment, goes back to the parent, and is freed with an alignment on the
\* same side of the threshold at which aligned_malloc puts a header.
ParentMatches ==
  /\ {p.at : p \in parent} = {b.at : b \in {c \in live : ~InBuffer(c)}}
  /\ \A b \in live, p \in parent : p.at = b.at =>
       /\ p.size >= b.size
       /\ p.align % b.align = 0
       /\ (p.align > SLOT) = (b.align > SLOT)
=============================================================================
