------------------------------ MODULE HashIndex ------------------------------
(****************************************************************************)
(* The jump table of hash_index.h: 0 is an empty slot, 1 a gravestone, and  *)
(* anything above the number of a row plus two. The rows and their hashes   *)
(* belong to the client. The template `rehash` cannot be instantiated, so   *)
(* a table keeps its capacity.                                              *)
(****************************************************************************)
EXTENDS Integers, Sequences, FiniteSets

CONSTANTS
  indeces_size,    \* a power of two
  Row,             \* the rows, numbers from 0
  Hash             \* the hashes rows can have

VARIABLES
  indeces,         \* the slots
  rows             \* the rows that exist, with their hashes

NotFound == [entry |-> -1, hash |-> -1]

Init == indeces = [i \in 0 .. indeces_size - 1 |-> 0] /\ rows = [r \in {} |-> 0]

\* the slots that hold nothing or one of the given entries
EmptyOr(entries) == {s \in DOMAIN indeces : indeces[s] = 0 \/ indeces[s] - 2 \in entries}

\* the first slot of a set from `hash` on, which the client makes sure is there
FirstSlot(hash, slots) ==
  LET at(k) == (hash + k) % indeces_size
      k == CHOOSE n \in 0 .. indeces_size - 1 :
             at(n) \in slots /\ \A m \in 0 .. n - 1 : at(m) \notin slots
  IN  at(k)

\* `matches` are the entries of which the client's comparison is true. The code
\* asks it about gravestones, too, whose entry is then -1: clients say no.
find_hash(hash, matches) ==
  LET i == FirstSlot(hash, EmptyOr(matches))
  IN  IF indeces[i] = 0 THEN NotFound ELSE [entry |-> indeces[i] - 2, hash |-> i]

find_next_hash(prev, matches) == find_hash(prev.hash + 1, matches)

\* the client never fills the last empty slot, at which every search ends
Spare == Cardinality({i \in DOMAIN indeces : indeces[i] = 0})

insert_hash(hash, point_to) ==
  LET i == FirstSlot(hash, {s \in DOMAIN indeces : indeces[s] <= 1}) IN
  /\ indeces[i] = 0 => Spare > 1
  /\ indeces' = [indeces EXCEPT ![i] = point_to + 2]

\* mutant: leaves an empty slot
remove_hash_emptying(hash, index) ==
  LET i == FirstSlot(hash, EmptyOr({index}))
  IN  indeces' = [indeces EXCEPT ![i] = 0]

remove_hash(hash, index) ==
  LET i == FirstSlot(hash, EmptyOr({index}))
  IN  indeces' = IF indeces[i] = 0 THEN indeces ELSE [indeces EXCEPT ![i] = 1]

Insert(r, hash) ==
  /\ r \notin DOMAIN rows
  /\ insert_hash(hash, r)
  /\ rows' = [s \in DOMAIN rows \cup {r} |-> IF s = r THEN hash ELSE rows[s]]

Remove(r) ==
  /\ remove_hash(rows[r], r)
  /\ rows' = [s \in DOMAIN rows \ {r} |-> rows[s]]

Next ==
  \/ \E r \in Row, h \in Hash : Insert(r, h)
  \/ \E r \in DOMAIN rows : Remove(r)

Spec == Init /\ [][Next]_<<indeces, rows>>

-----------------------------------------------------------------------------
\* the entries that find_hash and then find_next_hash return for a hash
AllFound(hash) ==
  LET matches == {r \in DOMAIN rows : rows[r] = hash}
      walk[found \in [entry : Row \cup {-1}, hash : -1 .. indeces_size - 1]] ==
        IF found = NotFound THEN <<>>
        ELSE <<found.entry>> \o walk[find_next_hash(found, matches)]
  IN  walk[find_hash(hash, matches)]

\* Every row is found once among those of its hash, through gravestones, wrap
\* around and the rows of other hashes, whatever was removed in between.
RowsFound ==
  \A h \in Hash :
    LET found == AllFound(h) IN
    /\ {found[i] : i \in DOMAIN found} = {r \in DOMAIN rows : rows[r] = h}
    /\ Len(found) = Cardinality({r \in DOMAIN rows : rows[r] = h})
=============================================================================
