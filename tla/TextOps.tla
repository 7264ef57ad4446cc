------------------------------- MODULE TextOps -------------------------------
(****************************************************************************)
(* Slices and strings: searching, splitting, joining, measuring, and the    *)
(* moves between slices that may overlap. A string is a sequence, an index  *)
(* counts from 0. The definitions are evaluated over bounded inputs.        *)
(****************************************************************************)
EXTENDS Integers, Sequences, SequencesExt, FiniteSetsExt

\* slice_range
slice_range(s, from, to) == SubSeq(s, from + 1, to)

Matches(s, p, i) == \A j \in 1 .. Len(p) : s[i + j] = p[j]

first_index_of(s, search_for, from) ==
  LET found == {i \in from .. Len(s) - Len(search_for) : Matches(s, search_for, i)}
  IN  IF Len(search_for) = 0 THEN 0 ELSE IF found = {} THEN -1 ELSE Min(found)

\* `from` is cut to the length of what is searched for: any larger value asks
\* for the whole string
last_index_of(s, search_for, from) ==
  LET cut == IF from > Len(search_for) THEN Len(search_for) ELSE from
      found == {i \in 0 .. Len(s) - cut : Matches(s, search_for, i)}
  IN  IF Len(search_for) = 0 THEN 0 ELSE IF found = {} THEN -1 ELSE Max(found)

JoinedSize(parts, separator) ==
  FoldSeq(LAMBDA p, sum : sum + Len(p), 0, parts)
    + (IF Len(parts) > 0 THEN Len(separator) * (Len(parts) - 1) ELSE 0)

join_into(builder, parts, separator) ==
  IF parts = <<>> THEN builder
  ELSE FoldLeft(LAMBDA b, p : b \o separator \o p, builder \o parts[1], Tail(parts))

\* split_into a slice of `count` parts: the parts that were set, what the call
\* returns, and the index of the next separator once all parts are set
split_slice(count, s, separator) ==
  LET step[i \in 0 .. count, from \in 0 .. Len(s)] ==
        LET to == first_index_of(s, separator, from)
        IN  IF i = count
            THEN [parts |-> <<>>, returned |-> count, next |-> to, rest |-> from]
            ELSE IF to = -1
            THEN [parts |-> <<slice_range(s, from, Len(s))>>, returned |-> i, next |-> -1, rest |-> Len(s)]
            ELSE [step[i + 1, to + Len(separator)] EXCEPT !.parts = <<slice_range(s, from, to)>> \o @]
  IN  step[0, 0]

\* mutant: a separator is taken for one character
split_array_by_char(s, separator, max_parts) ==
  LET step[i \in 0 .. max_parts, from \in 0 .. Len(s)] ==
        LET to == IF i = max_parts THEN -1 ELSE first_index_of(s, separator, from)
            part == slice_range(s, from, Len(s))
        IN  IF to = -1 THEN (IF part = <<>> THEN <<>> ELSE <<part>>)
            ELSE <<slice_range(s, from, to)>> \o step[i + 1, to + 1]
  IN  step[0, 0]

\* split_into an array: what follows the last separator is left out when it is
\* empty
split_array(s, separator, max_parts) ==
  LET step[i \in 0 .. max_parts, from \in 0 .. Len(s)] ==
        LET to == IF i = max_parts THEN -1 ELSE first_index_of(s, separator, from)
            part == slice_range(s, from, Len(s))
        IN  IF to = -1 THEN (IF part = <<>> THEN <<>> ELSE <<part>>)
            ELSE <<slice_range(s, from, to)>> \o step[i + 1, to + Len(separator)]
  IN  step[0, 0]

\* The length of a string at address `at` of a memory, of at most max_size:
\* character by character up to a multiple of CHUNK, chunk by chunk up to one
\* that contains a null, and character by character again.
strlen(memory, at, max_size, CHUNK) ==
  LET head[n \in 0 .. max_size] ==
        IF (at + n) % CHUNK = 0 THEN [at |-> n, done |-> FALSE]
        ELSE IF n = max_size \/ memory[at + n] = 0 THEN [at |-> n, done |-> TRUE]
        ELSE head[n + 1]
      body[n \in 0 .. max_size] ==
        IF max_size - n >= CHUNK /\ \A k \in 0 .. CHUNK - 1 : memory[at + n + k] # 0
        THEN body[n + CHUNK] ELSE n
      tail[n \in 0 .. max_size] ==
        IF n < max_size /\ memory[at + n] # 0 THEN tail[n + 1] ELSE n
  IN  IF head[0].done THEN head[0].at ELSE tail[body[head[0].at]]

\* the assignments memory[to + i] = memory[from + i] in the order of `order`
Assigned(memory, to, from, order) ==
  FoldLeft(LAMBDA m, i : [m EXCEPT ![to + i] = m[from + i]], memory, order)

Forwards(size) == [k \in 1 .. size |-> k - 1]
Backwards(size) == [k \in 1 .. size |-> size - k]

copy_items(memory, to, from, size) ==
  Assigned(memory, to, from, IF to < from THEN Forwards(size) ELSE Backwards(size))

move_items(memory, to, from, size) ==
  Assigned(memory, to, from, IF to < from THEN Forwards(size) ELSE Backwards(size))

\* two slices of items: the addresses where they begin, in bytes, and their
\* sizes, in items
is_aliasing(left, left_size, right, right_size) ==
  IF right < left THEN left - right < right_size ELSE right - left < left_size

-----------------------------------------------------------------------------
(* Properties, over an input x *)

\* Joining what split returns gives the string back, but for one separator at
\* its very end, and no part but the last contains a separator; splitting into
\* a slice that is long enough gives the same parts and the index of the last.
SplitJoins(s, separator, max_parts) ==
  LET parts == split_array(s, separator, max_parts)
      into == split_slice(max_parts, s, separator)
      joined == join_into(<<>>, parts, separator)
  IN  /\ joined = s \/ joined \o separator = s
      /\ Len(parts) <= max_parts + 1
      /\ \A i \in 1 .. Len(parts) : i <= max_parts => first_index_of(parts[i], separator, 0) = -1
      /\ \A i \in 1 .. Len(into.parts) : into.parts[i] # <<>> => into.parts[i] = parts[i]
      /\ into.returned < max_parts => into.returned = Len(into.parts) - 1
      /\ into.returned = max_parts =>
           (into.next = -1) = (first_index_of(slice_range(s, into.rest, Len(s)), separator, 0) = -1)

\* join_into reserves exactly what it then appends.
JoinReserves(parts, separator) ==
  Len(join_into(<<>>, parts, separator)) = JoinedSize(parts, separator)

\* The first occurrence lies before the last, and neither exists without the
\* other.
FirstBeforeLast(s, p) ==
  LET first == first_index_of(s, p, 0)
      last == last_index_of(s, p, Len(s) + Len(p))
  IN  /\ first <= last /\ (first = -1) = (last = -1)
      /\ first # -1 => slice_range(s, first, first + Len(p)) = p
                       /\ slice_range(s, last, last + Len(p)) = p

\* The length is that of a plain loop, whatever the alignment of the string.
StrlenRight(memory, at, max_size, CHUNK) ==
  LET n == strlen(memory, at, max_size, CHUNK)
  IN  /\ n <= max_size
      /\ \A k \in 0 .. n - 1 : memory[at + k] # 0
      /\ n < max_size => memory[at + n] = 0

\* A copy between overlapping slices is that of a copy through a third place.
CopyRight(memory, to, from, size) ==
  LET expected == [a \in DOMAIN memory |->
                     IF to <= a /\ a < to + size THEN memory[from + a - to] ELSE memory[a]]
  IN  /\ copy_items(memory, to, from, size) = expected
      /\ move_items(memory, to, from, size) = expected

\* Slices of which is_aliasing says so share an item, whatever the size of one;
\* the converse is claimed of one byte items alone, as the distance in bytes is
\* compared with a size in items.
AliasRight(left, left_size, right, right_size, item_size) ==
  LET share == (left .. left + left_size - 1) \cap (right .. right + right_size - 1) # {}
      aliasing == is_aliasing(left * item_size, left_size, right * item_size, right_size)
  IN  (aliasing => share) /\ (item_size = 1 => aliasing = share)
=============================================================================
