---------------------------- MODULE ItemSequence ----------------------------
(****************************************************************************)
(* What Array promises: a sequence of items and what each operation makes   *)
(* of it. Positions count from 0, as in the code.                           *)
(****************************************************************************)
EXTENDS Integers, Sequences

VARIABLE items

UpTo(n) == SubSeq(items, 1, n)
From(n) == SubSeq(items, n + 1, Len(items))

Insert(at, x) == items' = UpTo(at) \o <<x>> \o From(at)
TakeOut(at) == items' = UpTo(at) \o From(at + 1)
Push(x) == items' = Append(items, x)
PushMultiple(xs) == items' = items \o xs
Truncate(n) == items' = UpTo(n)
Fill(n, x) == items' = [i \in 1 .. n |-> IF i <= Len(items) THEN items[i] ELSE x]
Copy(xs) == items' = xs

\* the item that was at this index becomes the last one
UnorderedInsert(at, x) ==
  items' = IF at = Len(items) THEN Append(items, x)
           ELSE Append([items EXCEPT ![at + 1] = x], items[at + 1])

\* the last item moves into the freed spot
UnorderedRemove(at) ==
  items' = SubSeq([items EXCEPT ![at + 1] = items[Len(items)]], 1, Len(items) - 1)
=============================================================================
