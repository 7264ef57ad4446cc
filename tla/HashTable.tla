------------------------------ MODULE HashTable ------------------------------
(****************************************************************************)
(* Hash_Table of hash_table.h: keys and values in two parallel arrays and   *)
(* an open-addressing jump table, the linker, whose slots hold indices into *)
(* those arrays.  The program is single threaded.  A call is one step,      *)
(* except for its loops with a data-dependent trip count: the compaction    *)
(* and the relinking of unsafe_rehash and the growth loop of                *)
(* reserve_entries_failing take one step per iteration, between which pc    *)
(* says where the call stands.  The code runs with NDEBUG: its assertions   *)
(* are stated as properties, they do not guard anything.  A definition      *)
(* commented as faulty is a wrong variant of the one after it: a property   *)
(* that cannot tell the two apart says nothing about the code.              *)
(****************************************************************************)
EXTENDS Integers, FiniteSets

CONSTANTS
  Key,           \* the keys clients use
  Value,         \* the values they store
  Seed,          \* the seeds they rehash with; the first one is InitSeed
  InitSeed,
  Hash,          \* Hash[s][k]: what the Hash_Fn parameter returns
  Growth,        \* the Hash_Table_Growth parameter
  Word,          \* number of values of the uint32_t fields, 2^32 in the code
  Ops,           \* the operations the clients of this instance use
  RehashSizes,   \* the sizes they pass to rehash
  ReserveSizes,  \* the sizes they pass to reserve
  Fails,         \* the allocations that may fail: "linker", "entries"
  MaxEntries,    \* bound: no insertion into a table with that many entries
  MaxShift       \* bound: linkers are at most 2^MaxShift times base_size

AllOps == {"set", "add", "remove", "mark", "rehash", "reserve"}

\* what entries_capacity becomes in one iteration of the growth loop
NextCapacity(c) ==
  (c * Growth.entries_num) \div Growth.entries_den + Growth.entries_linear

ASSUME ClientAssumption ==
  /\ Key # {} /\ Value # {} /\ InitSeed \in Seed
  /\ Hash \in [Seed -> [Key -> Nat]]
  /\ Ops \subseteq AllOps /\ Fails \subseteq {"linker", "entries"}
  /\ RehashSizes \subseteq Nat /\ ReserveSizes \subseteq 0 .. MaxEntries

ASSUME GrowthAssumption ==
  /\ Growth \in [{"full_num", "full_den", "grave_num", "grave_den", "entries_num",
                 "entries_den", "entries_linear", "base_size"} -> Nat]
  /\ MaxEntries \in Nat /\ Word \in Nat /\ MaxEntries < Word - 2
  /\ \A c \in 0 .. MaxEntries : NextCapacity(c) \in c + 1 .. Word - 2

VARIABLES
  linker,               \* _linker, a function from 0 .. linker_size - 1
  linker_size,
  entries,              \* _keys and _values, from 0 .. entries_size - 1
  entries_size,
  entries_capacity,
  gravestone_count,
  hash_collisions,
  max_hash_collisions,
  seed,
  pc,                   \* where the call in progress stands
  call,                 \* its operation and arguments
  marks,                \* unsafe_rehash: the entries some link refers to
  fresh,                \* unsafe_rehash: new_linker
  relinked,             \* unsafe_rehash: how many entries it holds
  fresh_collisions      \* unsafe_rehash: hash_collision_count

stats == <<hash_collisions, max_hash_collisions>>
scratch == <<marks, fresh, relinked, fresh_collisions>>
table == <<linker, linker_size, entries, entries_size, entries_capacity,
           gravestone_count, stats, seed>>
vars == <<table, pc, call, scratch>>

EMPTY_LINK == Word - 1
GRAVESTONE_LINK == Word - 2

\* uint32_t arithmetic
Sub(a, b) == (a - b) % Word
Mul(a, b) == (a * b) % Word

Larger(a, b) == IF a > b THEN a ELSE b

NoCall == [op |-> "none", key |-> CHOOSE k \in Key : TRUE,
           value |-> CHOOSE v \in Value : TRUE,
           to_size |-> 0, to_seed |-> InitSeed, to_fit |-> 0]

NoScratch == marks = {} /\ fresh = <<>> /\ relinked = 0 /\ fresh_collisions = 0

Init ==
  /\ linker = <<>> /\ linker_size = 0
  /\ entries = <<>> /\ entries_size = 0 /\ entries_capacity = 0
  /\ gravestone_count = 0 /\ hash_collisions = 0 /\ max_hash_collisions = 0
  /\ seed = InitSeed
  /\ pc = "idle" /\ call = NoCall
  /\ NoScratch

-----------------------------------------------------------------------------
(* The jump table *)

Slots == 0 .. linker_size - 1

\* the d-th slot probed from hash value h in a linker of n slots
Probe(h, d, n) == (h + d) % n

Linked(s) == linker[s] \notin {EMPTY_LINK, GRAVESTONE_LINK}

\* faulty: equal hash values are taken for equal keys
HasHash(s, k) == Linked(s) /\ Hash[seed][entries[linker[s]].key] = Hash[seed][k]

HasKey(s, k) == Linked(s) /\ entries[linker[s]].key = k

\* faulty: find takes a gravestone for the end of the probe sequence
FindStopsAtGravestone(h, k, s) ==
  \E d \in 0 .. linker_size - 1 :
    /\ s = Probe(h, d, linker_size)
    /\ HasKey(s, k)
    /\ \A e \in 0 .. d - 1 :
         LET t == Probe(h, e, linker_size) IN Linked(t) /\ ~HasKey(t, k)

\* find(table, key, hashed) started at hash value h stops at slot s
FindStopsAt(h, k, s) ==
  \E d \in 0 .. linker_size - 1 :
    /\ s = Probe(h, d, linker_size)
    /\ HasKey(s, k)
    /\ \A e \in 0 .. d - 1 :
         LET t == Probe(h, e, linker_size)
         IN  linker[t] # EMPTY_LINK /\ ~HasKey(t, k)

\* faulty: find does not follow the seed a rehash has changed
FoundAtInitSeed(k, s) == FindStopsAt(Hash[InitSeed][k], k, s)

\* find(table, key)
FoundAt(k, s) == FindStopsAt(Hash[seed][k], k, s)

\* faulty: the slot of any entry with the key of entry i
FoundEntryKeyAt(lk, h, i, s) ==
  LET same(t) == /\ lk[t] \notin {EMPTY_LINK, GRAVESTONE_LINK}
                 /\ entries[lk[t]].key = entries[i].key
  IN  \E d \in 0 .. linker_size - 1 :
        /\ s = Probe(h, d, linker_size)
        /\ same(s)
        /\ \A e \in 0 .. d - 1 : ~same(Probe(h, e, linker_size))

\* faulty: a gravestone ends the probe sequence
FoundEntryBeforeGravestone(lk, h, i, s) ==
  \E d \in 0 .. linker_size - 1 :
    /\ s = Probe(h, d, linker_size)
    /\ lk[s] = i
    /\ \A e \in 0 .. d - 1 :
         lk[Probe(h, e, linker_size)] \notin {EMPTY_LINK, GRAVESTONE_LINK, i}

\* find_found_entry: the slot of lk that links entry i, looked for from h
FoundEntryAt(lk, h, i, s) ==
  \E d \in 0 .. linker_size - 1 :
    /\ s = Probe(h, d, linker_size)
    /\ lk[s] = i
    /\ \A e \in 0 .. d - 1 :
         lk[Probe(h, e, linker_size)] \notin {EMPTY_LINK, i}

\* the entry indices found in the linker, as the marks array collects them
LinkedEntries == {linker[s] : s \in {t \in Slots : linker[t] < entries_capacity}}

-----------------------------------------------------------------------------
(* unsafe_rehash *)

\* the linker is allocated and the links are marked, or memory is exhausted
\* and the default out of memory handler stops the program
BeginRehash(c, size, new_seed) ==
  \/ /\ pc' = "compact"
     /\ call' = [c EXCEPT !.to_size = size, !.to_seed = new_seed]
     /\ marks' = LinkedEntries
     /\ UNCHANGED <<table, fresh, relinked, fresh_collisions>>
  \/ /\ "linker" \in Fails
     /\ pc' = "panic" /\ call' = NoCall
     /\ UNCHANGED <<table, scratch>>

Holes == (0 .. entries_size - 1) \ marks

\* one swap: the last marked entry moves into the first hole
CompactMove ==
  /\ pc = "compact"
  /\ \E f \in Holes, b \in marks :
       /\ f < b
       /\ \A h \in Holes : f <= h
       /\ \A m \in marks : m <= b
       /\ entries' = [entries EXCEPT ![f] = entries[b]]
       /\ marks' = (marks \ {b}) \cup {f}
  /\ UNCHANGED <<linker, linker_size, entries_size, entries_capacity,
                 gravestone_count, stats, seed, pc, call, fresh, relinked,
                 fresh_collisions>>

\* no hole is left before a marked entry: new_linker is filled with EMPTY_LINK
CompactDone ==
  /\ pc = "compact"
  /\ \A f \in Holes, b \in marks : b < f
  /\ pc' = "relink"
  /\ fresh' = [s \in 0 .. call.to_size - 1 |-> EMPTY_LINK]
  /\ UNCHANGED <<table, call, marks, relinked, fresh_collisions>>

\* links are unique, so as many links are alive as entries are marked
alive_count == Cardinality(marks)

\* links the next entry in the first empty slot from its hash value
RelinkEntry ==
  /\ pc = "relink" /\ relinked < alive_count
  /\ LET h == Hash[call.to_seed][entries[relinked].key]
         n == call.to_size
     IN  \E d \in 0 .. n - 1 :
           /\ fresh[Probe(h, d, n)] = EMPTY_LINK
           /\ \A e \in 0 .. d - 1 : fresh[Probe(h, e, n)] # EMPTY_LINK
           /\ fresh' = [fresh EXCEPT ![Probe(h, d, n)] = relinked]
           /\ fresh_collisions' = fresh_collisions + (IF d = 0 THEN 0 ELSE 1)
  /\ relinked' = relinked + 1
  /\ UNCHANGED <<table, pc, call, marks>>

\* where a call goes on after its rehash
AfterRehash(op) ==
  CASE op \in {"set", "add"} -> "probe"
    [] op = "reserve"        -> "grow"
    [] OTHER                 -> "idle"

\* destroys the dead entries, installs new_linker and frees the old one
RelinkDone ==
  /\ pc = "relink" /\ relinked = alive_count
  /\ linker' = fresh /\ linker_size' = call.to_size
  /\ entries' = [i \in 0 .. alive_count - 1 |-> entries[i]]
  /\ entries_size' = alive_count
  /\ gravestone_count' = 0
  /\ hash_collisions' = fresh_collisions
  /\ max_hash_collisions' = Larger(max_hash_collisions, fresh_collisions)
  /\ seed' = call.to_seed
  /\ pc' = AfterRehash(call.op)
  /\ call' = IF pc' = "idle" THEN NoCall ELSE [call EXCEPT !.to_size = 0]
  /\ marks' = {} /\ fresh' = <<>> /\ relinked' = 0 /\ fresh_collisions' = 0
  /\ UNCHANGED entries_capacity

\* rehash_failing doubles base_size until it fits
LinkerSizes == {n \in 1 .. Word - 1 :
                  \E i \in 0 .. MaxShift : n = Growth.base_size * 2^i}
\* faulty: only the marks have to fit
SizeOfMarks(to_size) == Larger(to_size, (entries_size + 3) \div 4)

NeededSize(to_size) == Larger(Larger(to_size, (entries_size + 3) \div 4), entries_size)
IsRehashSize(n, to_size) ==
  /\ n \in LinkerSizes /\ n >= NeededSize(to_size)
  /\ \A m \in LinkerSizes : m >= NeededSize(to_size) => n <= m

\* rehash(table, to_size, seed, growth)
Rehash(to_size, new_seed) ==
  /\ pc = "idle" /\ "rehash" \in Ops
  /\ \E n \in LinkerSizes :
       /\ IsRehashSize(n, to_size)
       /\ BeginRehash([NoCall EXCEPT !.op = "rehash"], n, new_seed)

\* rehash(table, growth)
RehashInPlace == Rehash(linker_size, seed)

-----------------------------------------------------------------------------
(* reserve *)

\* reserve(table, to_fit): first the jump table, then the entries
Reserve(to_fit) ==
  LET jump_table_size == (to_fit * Growth.full_den) \div Growth.full_num
      c == [NoCall EXCEPT !.op = "reserve", !.to_fit = to_fit]
  IN  /\ pc = "idle" /\ "reserve" \in Ops
      /\ \/ /\ jump_table_size > linker_size
            /\ \E n \in LinkerSizes :
                 /\ IsRehashSize(n, jump_table_size)
                 /\ BeginRehash(c, n, seed)
         \/ /\ jump_table_size <= linker_size
            /\ pc' = "grow" /\ call' = c
            /\ UNCHANGED <<table, scratch>>

\* set_entries_capacity when memory is exhausted: it undoes the allocation but
\* goes on with the pointers it undid and frees the old arrays.  Nothing of the
\* entries is left, the model ends there and keeps the last good fields.
LoseEntries ==
  /\ "entries" \in Fails
  /\ pc' = "corrupt" /\ call' = NoCall
  /\ UNCHANGED <<table, scratch>>

\* faulty: every iteration starts from the old capacity
GrowOldCapacity ==
  /\ pc = "grow"
  /\ Larger(call.to_size, entries_capacity) < call.to_fit
  /\ call' = [call EXCEPT !.to_size = NextCapacity(entries_capacity)]
  /\ UNCHANGED <<table, pc, scratch>>

\* one iteration of the growth loop of reserve_entries_failing, whose
\* new_capacity is kept in call.to_size
GrowCapacity ==
  /\ pc = "grow"
  /\ Larger(call.to_size, entries_capacity) < call.to_fit
  /\ call' = [call EXCEPT !.to_size = NextCapacity(Larger(@, entries_capacity))]
  /\ UNCHANGED <<table, pc, scratch>>

\* set_entries_capacity moves both arrays when the capacity is too small
ResizeEntries ==
  /\ pc = "grow"
  /\ Larger(call.to_size, entries_capacity) >= call.to_fit
  /\ \/ /\ entries_capacity' = Larger(call.to_size, entries_capacity)
        /\ pc' = "idle" /\ call' = NoCall
        /\ UNCHANGED <<linker, linker_size, entries, entries_size,
                       gravestone_count, stats, seed, scratch>>
     \/ /\ call.to_size > entries_capacity
        /\ LoseEntries

-----------------------------------------------------------------------------
(* set and multi::add_another *)

\* faulty: strictly less
OverfullStrictly ==
  Mul(Sub(linker_size, gravestone_count), Growth.full_num)
    < Mul(entries_size, Growth.full_den)

\* grow_if_overfull
Overfull ==
  Mul(Sub(linker_size, gravestone_count), Growth.full_num)
    <= Mul(entries_size, Growth.full_den)

TooManyGravestones ==
  Mul(gravestone_count, Growth.grave_den) >= Mul(linker_size, Growth.grave_num)

GrownSize ==
  LET n == IF TooManyGravestones THEN linker_size ELSE Mul(linker_size, 2)
  IN  IF n = 0 THEN Growth.base_size ELSE n

GrowIfOverfull(c) ==
  \/ Overfull /\ BeginRehash(c, GrownSize, seed)
  \/ ~Overfull /\ pc' = "probe" /\ call' = c /\ UNCHANGED <<table, scratch>>

Insert(op, k, v) ==
  /\ pc = "idle" /\ op \in Ops /\ entries_size < MaxEntries
  /\ GrowIfOverfull([NoCall EXCEPT !.op = op, !.key = k, !.value = v])

Set(k, v) == Insert("set", k, v)
AddAnother(k, v) == Insert("add", k, v)

\* the probe loop of set stops at a free slot or at the key, the one of
\* add_another at a free slot only
ProbeStops(s) == ~Linked(s) \/ (call.op = "set" /\ HasKey(s, call.key))

ProbeStopsAt(d) ==
  LET h == Hash[seed][call.key]
  IN  /\ ProbeStops(Probe(h, d, linker_size))
      /\ \A e \in 0 .. d - 1 : ~ProbeStops(Probe(h, e, linker_size))

\* set finds the key and replaces its value
Overwrite(d) ==
  LET s == Probe(Hash[seed][call.key], d, linker_size)
  IN  /\ Linked(s)
      /\ entries' = [entries EXCEPT ![linker[s]].value = call.value]
      /\ pc' = "idle" /\ call' = NoCall
      /\ UNCHANGED <<linker, linker_size, entries_size, entries_capacity,
                     gravestone_count, stats, seed, scratch>>

\* the new entry ends in slot s, d slots from its own, and no removed entry's
Collided(s, d) == linker[s] # GRAVESTONE_LINK /\ d # 0

\* faulty: room for the entries that are already there
CapacityWithoutNew(n) ==
  IF n - 1 <= entries_capacity THEN entries_capacity
                               ELSE NextCapacity(entries_capacity)

\* what reserve_entries_failing makes of the capacity for one more entry: one
\* iteration of its loop is enough, since NextCapacity(c) > c
CapacityFor(n) ==
  IF n <= entries_capacity THEN entries_capacity ELSE NextCapacity(entries_capacity)

\* push_new: the slot is reused or taken, then the entry is appended
PushNew(d) ==
  LET s == Probe(Hash[seed][call.key], d, linker_size)
  IN  /\ ~Linked(s)
      /\ gravestone_count' = IF linker[s] = GRAVESTONE_LINK
                             THEN Sub(gravestone_count, 1) ELSE gravestone_count
      /\ hash_collisions' = hash_collisions + (IF Collided(s, d) THEN 1 ELSE 0)
      /\ max_hash_collisions' = Larger(max_hash_collisions, hash_collisions')
      /\ entries_capacity' = CapacityFor(entries_size + 1)
      /\ entries' = [i \in 0 .. entries_size |->
                       IF i = entries_size
                       THEN [key |-> call.key, value |-> call.value]
                       ELSE entries[i]]
      /\ entries_size' = entries_size + 1
      /\ linker' = [linker EXCEPT ![s] = entries_size]
      /\ pc' = "idle" /\ call' = NoCall
      /\ UNCHANGED <<linker_size, seed, scratch>>

FinishInsert ==
  /\ pc = "probe"
  /\ \E d \in 0 .. linker_size - 1 :
       /\ ProbeStopsAt(d)
       /\ \/ Overwrite(d)
          \/ PushNew(d)

\* push_new when the entries have to grow and cannot
FailInsert ==
  /\ pc = "probe" /\ entries_size = entries_capacity
  /\ \E d \in 0 .. linker_size - 1 :
       ProbeStopsAt(d) /\ ~Linked(Probe(Hash[seed][call.key], d, linker_size))
  /\ LoseEntries

-----------------------------------------------------------------------------
(* remove and mark_removed; on a key that is not found they do nothing *)

\* the last entry is moved into the place of the removed one, when it is
\* linked; when it was only marked the removed entry stays behind, unlinked
Remove(k) ==
  /\ pc = "idle" /\ "remove" \in Ops
  /\ \E s \in Slots :
       LET i    == linker[s]
           last == entries_size - 1
           lk   == [linker EXCEPT ![s] = GRAVESTONE_LINK]
           h    == Hash[seed][entries[last].key]
           DropLast(es) == /\ entries' = [j \in 0 .. last - 1 |-> es[j]]
                           /\ entries_size' = last
       IN  /\ FoundAt(k, s)
           /\ \/ i = last /\ linker' = lk /\ DropLast(entries)
              \/ /\ i # last
                 /\ \E t \in Slots :
                      /\ FoundEntryAt(lk, h, last, t)
                      /\ linker' = [lk EXCEPT ![t] = i]
                 /\ DropLast([entries EXCEPT ![i] = entries[last]])
              \/ /\ i # last
                 /\ \A t \in Slots : ~FoundEntryAt(lk, h, last, t)
                 /\ linker' = lk
                 /\ UNCHANGED <<entries, entries_size>>
  /\ gravestone_count' = (gravestone_count + 1) % Word
  /\ UNCHANGED <<linker_size, entries_capacity, stats, seed, pc, call, scratch>>

\* the slot is unlinked and gravestone_count grows by n
MarkRemovedCounting(k, n) ==
  /\ pc = "idle" /\ "mark" \in Ops
  /\ \E s \in Slots :
       /\ FoundAt(k, s)
       /\ linker' = [linker EXCEPT ![s] = GRAVESTONE_LINK]
  /\ gravestone_count' = (gravestone_count + n) % Word
  /\ UNCHANGED <<linker_size, entries, entries_size, entries_capacity, stats,
                 seed, pc, call, scratch>>

\* faulty: nothing is counted
MarkRemovedUncounted(k) == MarkRemovedCounting(k, 0)

\* the link and the entry, which stays in the arrays, both count
MarkRemoved(k) == MarkRemovedCounting(k, 2)

-----------------------------------------------------------------------------
Call ==
  \/ \E k \in Key, v \in Value : Set(k, v) \/ AddAnother(k, v)
  \/ \E k \in Key : Remove(k) \/ MarkRemoved(k)
  \/ \E n \in RehashSizes, s \in Seed : Rehash(n, s)
  \/ RehashInPlace
  \/ \E n \in ReserveSizes : Reserve(n)

Step ==
  \/ CompactMove \/ CompactDone \/ RelinkEntry \/ RelinkDone
  \/ GrowCapacity \/ ResizeEntries
  \/ FinishInsert \/ FailInsert

Next == Call \/ Step

Spec == Init /\ [][Next]_vars

\* the one thread runs a call it has begun
FairSpec == Spec /\ WF_vars(Step)

-----------------------------------------------------------------------------
(* Properties *)

Phases == {"idle", "compact", "relink", "probe", "grow", "panic", "corrupt"}
InRehash == pc \in {"compact", "relink"}
Entry == [key : Key, value : Value]
Link == 0 .. Word - 1

TypeOK ==
  /\ linker_size \in Nat /\ linker \in [Slots -> Link]
  /\ entries_size \in 0 .. MaxEntries /\ entries_size <= entries_capacity
  /\ entries \in [0 .. entries_size - 1 -> Entry]
  /\ entries_capacity \in 0 .. Word - 2 /\ gravestone_count \in Link
  /\ hash_collisions \in Nat /\ max_hash_collisions \in Nat
  /\ hash_collisions <= max_hash_collisions
  /\ seed \in Seed
  /\ pc \in Phases
  /\ call \in [op : AllOps \cup {"none"}, key : Key, value : Value,
               to_size : Nat, to_seed : Seed, to_fit : 0 .. MaxEntries]
  /\ marks \subseteq 0 .. entries_size - 1
  /\ fresh \in [0 .. (IF pc = "relink" THEN call.to_size ELSE 0) - 1 -> Link]
  /\ relinked \in 0 .. entries_size /\ fresh_collisions \in 0 .. relinked

\* "all links must be unique!" (the assertion of unsafe_rehash): outside a
\* rehash every link names an entry of the array and no two slots the same one,
\* whatever removals, swaps of the last entry and reused gravestones came before
LinksUnique ==
  ~InRehash => \A s \in Slots : Linked(s) =>
    /\ linker[s] < entries_size
    /\ \A t \in Slots : linker[t] = linker[s] => t = s

\* find never loses a key: for every linked entry, find with its key stops at
\* an entry of that key.  A removal that broke the probe sequence of another
\* key, or a rehash that placed a key past an empty slot, would violate it.
KeysFound ==
  ~InRehash => \A s \in Slots : Linked(s) =>
    \E t \in Slots : FoundAt(entries[linker[s]].key, t)

\* the slots at which find and then find_next, started behind the slot before,
\* stop: visited[n] is where they are after n calls of find_next
Visited(k) ==
  LET visited[n \in 0 .. linker_size] ==
        IF n = 0 THEN {s \in Slots : FoundAt(k, s)}
        ELSE LET last == visited[n - 1]
             IN  {t \in Slots : \E s \in last : FindStopsAt(s + 1, k, t)}
  IN  visited

\* multi::find_next misses no entry: iterated from find it stops at every
\* linked entry of the key, also after removals in the middle of its chain
FindNextVisits ==
  pc = "idle" => \A k \in Key :
    {s \in Slots : HasKey(s, k)} \subseteq UNION {Visited(k)[n] : n \in 0 .. linker_size}

Gravestones == {s \in Slots : linker[s] = GRAVESTONE_LINK}
DeadEntries == (0 .. entries_size - 1) \ LinkedEntries

\* _gravestone_count drives the cleaning rehash: it is at least the number of
\* gravestones ("graveston_count <= table->_gravestone_count" in
\* unsafe_rehash) and at most that plus the entries no link refers to
GravestonesCounted ==
  ~InRehash =>
    /\ Cardinality(Gravestones) <= gravestone_count
    /\ gravestone_count <= Cardinality(Gravestones) + Cardinality(DeadEntries)

\* keys(table) and values(table) list live entries only, as long as no client
\* uses mark_removed: remove always finds the link of the last entry it moves
\* ("all table keys need to be in count_table", the test of the multi table)
NoDeadEntries == ~InRehash => DeadEntries = {}

\* the probe loops of set and add_another end: grow_if_overfull left them a
\* slot to stop at ("should never make a full rotation!").  With mark_removed
\* it does not hold: gravestone_count may outgrow linker_size, and Sub wraps.
ProbeEnds == pc = "probe" => \E d \in 0 .. linker_size - 1 : ProbeStopsAt(d)

\* the assertion at the start of unsafe_rehash: the new linker is big enough for
\* all entries, dead ones included, whose marks are kept in its memory
RehashFits == pc = "compact" => entries_size <= call.to_size

\* a key set by a client that never calls add_another is stored once
OneEntryPerKey ==
  ~InRehash => \A s, t \in Slots :
    (Linked(s) /\ Linked(t) /\ entries[linker[s]].key = entries[linker[t]].key) => s = t

\* the comment on _hash_collisions: "The count of hash colisions currently in
\* the table", so at least the linked entries that are not in their own slot
Displaced == {s \in Slots : Linked(s) /\
                s # Probe(Hash[seed][entries[linker[s]].key], 0, linker_size)}
CollisionsCounted == ~InRehash => Cardinality(Displaced) <= hash_collisions

\* no allocation failure destroys the entries: "if one fails all the
\* allocations should be undone ... and the funtion should fail"
EntriesSurvive == pc = "corrupt" => entries_size = 0

\* every call returns, or stops the program, whatever rehashing it triggers, for
\* clients that do not use mark_removed: with it an insertion may find no slot to
\* stop at (ProbeEnds)
Ended == {"idle", "panic", "corrupt"}
CallsReturn == pc \notin Ended ~> pc \in Ended

-----------------------------------------------------------------------------
(* Refinement: a multimap that counts how often each pair is stored *)

LiveEntries == CASE InRehash -> marks
                 [] pc = "corrupt" -> {}
                 [] OTHER -> LinkedEntries

Contents == [p \in Key \X Value |->
  Cardinality({i \in LiveEntries : entries[i] = [key |-> p[1], value |-> p[2]]})]

MM == INSTANCE MultiMap WITH contents <- Contents

\* what set leaves: its pair in place of another of the key, or as a new one
\* (also beside one of the key, where it stops at a gravestone: OneEntryPerKey)
SetPair(k, v) ==
  \/ MM!Add(k, v)
  \/ \E w \in Value : MM!Replace(k, w, v)
  \/ MM!Stored(k, v) /\ UNCHANGED Contents

\* a step changes the bag by what the call it belongs to is for
BagAsCalled ==
  /\ \A k \in Key : Remove(k) \/ MarkRemoved(k) => \E v \in Value : MM!Remove(k, v)
  /\ FinishInsert => IF call.op = "add" THEN MM!Add(call.key, call.value)
                                       ELSE SetPair(call.key, call.value)
  /\ \/ UNCHANGED Contents
     \/ FinishInsert
     \/ \E k \in Key : Remove(k) \/ MarkRemoved(k)

\* The table implements the bag, call by call: remove(k) takes out one pair of k
\* and no other, an insertion adds or replaces its own pair, and no rehash,
\* compaction or reservation loses, doubles or changes a pair.
IsMultiMap == MM!Spec /\ [][BagAsCalled]_vars
=============================================================================
