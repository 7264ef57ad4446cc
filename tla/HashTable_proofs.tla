--------------------------- MODULE HashTable_proofs ---------------------------
(****************************************************************************)
(* What holds of HashTable for every set of keys, every hash function and   *)
(* every bound: links stay unique and find never loses a key; the table is  *)
(* a bag of pairs (MultiMap), its arrays hold live entries only, a key is   *)
(* stored once, the counters stay within their bounds, and insertions and   *)
(* rehashes have the room they need.                                        *)
(****************************************************************************)
EXTENDS HashTable, ListLemmas

IsLink(l) == l \notin {EMPTY_LINK, GRAVESTONE_LINK}

\* slot s of lk is reached by probing for the key of its entry: no slot on the
\* way is empty
Reached(lk, n, sd, es, s) ==
  \E d \in 0 .. n - 1 :
    /\ s = Probe(Hash[sd][es[lk[s]].key], d, n)
    /\ \A e \in 0 .. d - 1 : lk[Probe(Hash[sd][es[lk[s]].key], e, n)] # EMPTY_LINK

\* lk is a linker of n slots for the first m of the entries es
Good(lk, n, sd, es, m) ==
  \A s \in 0 .. n - 1 : IsLink(lk[s]) =>
    /\ lk[s] < m
    /\ \A t \in 0 .. n - 1 : lk[t] = lk[s] => t = s
    /\ Reached(lk, n, sd, es, s)

\* the inductive invariant: the linker is good whenever it is in use, and so is
\* the one a rehash is filling
IInv ==
  /\ TypeOK
  /\ ~InRehash => Good(linker, linker_size, seed, entries, entries_size)
  /\ pc = "relink" =>
       /\ Good(fresh, call.to_size, call.to_seed, entries, relinked)
       /\ marks = 0 .. alive_count - 1 /\ alive_count \in 0 .. entries_size
       /\ relinked <= alive_count
  /\ pc = "probe" => call.op \in {"set", "add"}
  /\ call.op \in {"set", "add"} => entries_size < MaxEntries
  /\ pc = "grow" => call.to_size <= Word - 2
  /\ pc # "relink" => relinked = 0 /\ fresh_collisions = 0
  /\ ~InRehash => marks = {}

-----------------------------------------------------------------------------

LEMMA ProbeType ==
  ASSUME NEW n \in Nat, NEW h \in Nat, NEW d \in 0 .. n - 1
  PROVE  Probe(h, d, n) \in 0 .. n - 1
<1>1. n > 0 /\ h + d \in Nat
  OBVIOUS
<1>2. \A a \in Nat : a % n \in 0 .. n - 1
  BY <1>1
<1>3. QED BY <1>1, <1>2 DEF Probe

LEMMA Constants ==
  /\ Word \in Nat /\ Word > 2 /\ MaxEntries \in Nat /\ MaxEntries < Word - 2
  /\ Growth.base_size \in Nat
  /\ \A c \in 0 .. MaxEntries : NextCapacity(c) \in c + 1 .. Word - 2
  /\ \A sd \in Seed, k \in Key : Hash[sd][k] \in Nat
  /\ EMPTY_LINK \in Link /\ GRAVESTONE_LINK \in Link
  /\ EMPTY_LINK = Word - 1 /\ GRAVESTONE_LINK = Word - 2
BY GrowthAssumption, ClientAssumption DEF EMPTY_LINK, GRAVESTONE_LINK, Link

LEMMA NoCallType ==
  /\ NoCall \in [op : AllOps \cup {"none"}, key : Key, value : Value,
                 to_size : Nat, to_seed : Seed, to_fit : 0 .. MaxEntries]
  /\ NoCall.op = "none" /\ NoCall.to_size = 0
BY ClientAssumption, Constants DEF NoCall

LEMMA InitIInv == Init => IInv
<1> SUFFICES ASSUME Init PROVE IInv
  OBVIOUS
<1>1. Slots = {} /\ 0 .. entries_size - 1 = {} /\ 0 .. linker_size - 1 = {}
  BY DEF Init, Slots
<1>2. <<>> \in [{} -> Link] /\ <<>> \in [{} -> Entry]
  OBVIOUS
<1>3. TypeOK
  <2>1. 0 .. (IF pc = "relink" THEN call.to_size ELSE 0) - 1 = {}
    BY DEF Init
  <2>2. QED
    BY <1>1, <1>2, <2>1, NoCallType, Constants, ClientAssumption
       DEF Init, TypeOK, NoScratch, Phases, Link
<1>4. Good(linker, linker_size, seed, entries, entries_size)
  BY <1>1 DEF Good
<1>5. QED BY <1>3, <1>4, NoCallType DEF Init, IInv, NoScratch

CallType == [op : AllOps \cup {"none"}, key : Key, value : Value,
             to_size : Nat, to_seed : Seed, to_fit : 0 .. MaxEntries]

\* the marks an idle table's rehash collects are indices of entries
LEMMA LinkedEntriesType ==
  ASSUME IInv, ~InRehash
  PROVE  LinkedEntries \subseteq 0 .. entries_size - 1
<1> SUFFICES ASSUME NEW t \in Slots, linker[t] < entries_capacity
             PROVE  linker[t] \in 0 .. entries_size - 1
  BY DEF LinkedEntries
<1>1. linker[t] \in 0 .. Word - 1 /\ entries_capacity \in 0 .. Word - 2
  BY DEF IInv, TypeOK, Link
<1>2. IsLink(linker[t])
  BY <1>1, Constants DEF IsLink
<1>3. linker[t] < entries_size /\ entries_size \in Nat
  BY <1>2, Constants DEF IInv, Good, Slots, TypeOK
<1>4. QED BY <1>1, <1>3, Constants

LEMMA BeginRehashIInv ==
  ASSUME IInv, pc = "idle", NEW c \in CallType, NEW n \in Nat, NEW sd \in Seed,
         c.op \in {"set", "add"} => entries_size < MaxEntries,
         BeginRehash(c, n, sd)
  PROVE  IInv'
<1>1. CASE /\ pc' = "compact"
           /\ call' = [c EXCEPT !.to_size = n, !.to_seed = sd]
           /\ marks' = LinkedEntries
           /\ UNCHANGED <<table, fresh, relinked, fresh_collisions>>
  <2>1. call' \in CallType /\ call'.op = c.op
    BY <1>1 DEF CallType
  <2>2. marks' \subseteq 0 .. entries_size - 1
    BY <1>1, LinkedEntriesType DEF InRehash
  <2>3. TypeOK'
    BY <1>1, <2>1, <2>2 DEF IInv, TypeOK, CallType, table, stats, Slots, Phases
  <2>4. QED
    BY <1>1, <2>1, <2>3 DEF IInv, InRehash, table
<1>2. CASE /\ pc' = "panic" /\ call' = NoCall
           /\ UNCHANGED <<table, scratch>>
  <2>1. TypeOK'
    BY <1>2, NoCallType DEF IInv, TypeOK, table, stats, scratch, Slots, Phases
  <2>2. Good(linker, linker_size, seed, entries, entries_size)'
    BY <1>2 DEF IInv, InRehash, table
  <2>3. QED
    BY <1>2, <2>1, <2>2, NoCallType DEF IInv, InRehash, table, scratch
<1>3. QED BY <1>1, <1>2 DEF BeginRehash

LEMMA GrowIfOverfullIInv ==
  ASSUME IInv, pc = "idle", NEW c \in CallType, c.op \in {"set", "add"},
         entries_size < MaxEntries, GrowIfOverfull(c)
  PROVE  IInv'
<1>1. CASE BeginRehash(c, GrownSize, seed)
  <2>1. GrownSize \in Nat
    BY Constants DEF GrownSize, Mul, IInv, TypeOK
  <2>2. seed \in Seed
    BY DEF IInv, TypeOK
  <2>3. QED BY <1>1, <2>1, <2>2, BeginRehashIInv
<1>2. CASE pc' = "probe" /\ call' = c /\ UNCHANGED <<table, scratch>>
  <2>1. TypeOK'
    BY <1>2 DEF IInv, TypeOK, table, stats, scratch, Slots, CallType, Phases
  <2>2. Good(linker, linker_size, seed, entries, entries_size)'
    BY <1>2 DEF IInv, InRehash, table
  <2>3. QED
    BY <1>2, <2>1, <2>2 DEF IInv, InRehash, table, scratch
<1>3. QED BY <1>1, <1>2 DEF GrowIfOverfull

LEMMA InsertIInv ==
  ASSUME IInv, NEW op \in {"set", "add"}, NEW k \in Key, NEW v \in Value,
         Insert(op, k, v)
  PROVE  IInv'
<1>1. [NoCall EXCEPT !.op = op, !.key = k, !.value = v] \in CallType
  BY NoCallType DEF CallType, AllOps
<1>2. [NoCall EXCEPT !.op = op, !.key = k, !.value = v].op = op
  BY NoCallType
<1>3. QED BY <1>1, <1>2, GrowIfOverfullIInv DEF Insert

LEMMA RehashIInv ==
  ASSUME IInv, NEW to_size, NEW sd \in Seed, Rehash(to_size, sd)
  PROVE  IInv'
<1>1. [NoCall EXCEPT !.op = "rehash"] \in CallType
  BY NoCallType DEF CallType, AllOps
<1>2. [NoCall EXCEPT !.op = "rehash"].op = "rehash"
  BY NoCallType
<1>3. LinkerSizes \subseteq Nat
  BY Constants DEF LinkerSizes
<1>4. QED BY <1>1, <1>2, <1>3, BeginRehashIInv DEF Rehash

LEMMA ReserveIInv ==
  ASSUME IInv, NEW to_fit \in ReserveSizes, Reserve(to_fit)
  PROVE  IInv'
<1> DEFINE c == [NoCall EXCEPT !.op = "reserve", !.to_fit = to_fit]
<1>1. c \in CallType /\ c.op = "reserve" /\ c.to_size = 0
  BY NoCallType, ClientAssumption DEF CallType, AllOps
<1>2. LinkerSizes \subseteq Nat /\ seed \in Seed
  BY Constants DEF LinkerSizes, IInv, TypeOK
<1>3. CASE \E n \in LinkerSizes : BeginRehash(c, n, seed)
  BY <1>1, <1>2, <1>3, BeginRehashIInv DEF Reserve
<1>4. CASE pc' = "grow" /\ call' = c /\ UNCHANGED <<table, scratch>>
  <2>1. TypeOK'
    BY <1>1, <1>4 DEF IInv, TypeOK, table, stats, scratch, Slots, CallType, Phases, Reserve
  <2>2. Good(linker, linker_size, seed, entries, entries_size)'
    BY <1>4 DEF IInv, InRehash, table, Reserve
  <2>3. QED
    BY <1>1, <1>4, <2>1, <2>2, Constants DEF IInv, InRehash, table, scratch, Reserve
<1>5. QED BY <1>3, <1>4 DEF Reserve

LEMMA CompactMoveIInv == IInv /\ CompactMove => IInv'
<1> SUFFICES ASSUME IInv, CompactMove PROVE IInv'
  OBVIOUS
<1>1. PICK f \in Holes, b \in marks : /\ f < b
                                     /\ entries' = [entries EXCEPT ![f] = entries[b]]
                                     /\ marks' = (marks \ {b}) \cup {f}
  BY DEF CompactMove
<1>2. f \in 0 .. entries_size - 1 /\ b \in 0 .. entries_size - 1
  BY DEF Holes, IInv, TypeOK
<1>3. entries' \in [0 .. entries_size - 1 -> Entry]
  BY <1>1, <1>2 DEF IInv, TypeOK
<1>4. marks' \subseteq 0 .. entries_size - 1
  BY <1>1, <1>2 DEF IInv, TypeOK
<1>5. TypeOK'
  BY <1>3, <1>4 DEF CompactMove, IInv, TypeOK, stats, Slots
<1>6. QED
  BY <1>5 DEF CompactMove, IInv, InRehash

LEMMA CompactDoneIInv == IInv /\ CompactDone => IInv'
<1> SUFFICES ASSUME IInv, CompactDone PROVE IInv'
  OBVIOUS
<1> DEFINE n == call.to_size
<1>1. n \in Nat /\ entries_size \in Nat /\ marks \subseteq 0 .. entries_size - 1
  BY Constants DEF IInv, TypeOK
<1>2. alive_count \in 0 .. entries_size /\ marks = 0 .. alive_count - 1
  BY <1>1, NoHoles DEF CompactDone, Holes, alive_count
<1>3. fresh' = [s \in 0 .. n - 1 |-> EMPTY_LINK] /\ fresh' \in [0 .. n - 1 -> Link]
  BY Constants DEF CompactDone
<1>4. call' = call /\ marks' = marks /\ entries_size' = entries_size /\ pc' = "relink"
  BY DEF CompactDone, table
<1>5. TypeOK'
  BY <1>3, <1>4 DEF CompactDone, IInv, TypeOK, table, stats, Slots, Phases
<1>6. Good(fresh, n, call.to_seed, entries, relinked)'
  BY <1>3, <1>4 DEF Good, IsLink
<1>7. alive_count' = alive_count
  BY <1>4 DEF alive_count
<1>8. relinked' = 0
  BY SMTT(60) DEF CompactDone, IInv
<1>9. QED
  BY <1>1, <1>2, <1>4, <1>5, <1>6, <1>7, <1>8 DEF CompactDone, IInv, InRehash, table

\* a slot stays reached when its key stays and no slot becomes empty
LEMMA ReachedKept ==
  ASSUME NEW n \in Nat, NEW sd \in Seed, NEW lk, NEW new, NEW es, NEW fs,
         NEW s \in 0 .. n - 1, es[lk[s]].key \in Key,
         fs[new[s]].key = es[lk[s]].key,
         \A y \in 0 .. n - 1 : lk[y] # EMPTY_LINK => new[y] # EMPTY_LINK,
         Reached(lk, n, sd, es, s)
  PROVE  Reached(new, n, sd, fs, s)
<1> DEFINE h == Hash[sd][es[lk[s]].key]
<1>1. h \in Nat
  BY Constants
<1> HIDE DEF h
<1>2. PICK d \in 0 .. n - 1 :
        s = Probe(h, d, n) /\ \A e \in 0 .. d - 1 : lk[Probe(h, e, n)] # EMPTY_LINK
  BY DEF Reached, h
<1>3. ASSUME NEW e \in 0 .. d - 1 PROVE new[Probe(h, e, n)] # EMPTY_LINK
  <2>1. e \in 0 .. n - 1
    OBVIOUS
  <2>2. Probe(h, e, n) \in 0 .. n - 1
    BY <1>1, <2>1, ProbeType
  <2>3. QED BY <1>2, <2>2
<1>4. QED BY <1>2, <1>3 DEF Reached, h

\* a linker of m entries stays good when an empty or reused slot, the first one
\* from the hash value of entry m, is made to link entry m
LEMMA GoodLinkNew ==
  ASSUME NEW n \in Nat, NEW sd \in Seed, NEW m \in Nat, m < Word - 2,
         NEW lk \in [0 .. n - 1 -> Link],
         NEW es, NEW fs, \A i \in 0 .. m - 1 : es[i].key \in Key,
         \A i \in 0 .. m - 1 : fs[i].key = es[i].key,
         fs[m].key \in Key,
         Good(lk, n, sd, es, m),
         NEW d \in 0 .. n - 1,
         ~IsLink(lk[Probe(Hash[sd][fs[m].key], d, n)]),
         \A e \in 0 .. d - 1 : lk[Probe(Hash[sd][fs[m].key], e, n)] # EMPTY_LINK
  PROVE  Good([lk EXCEPT ![Probe(Hash[sd][fs[m].key], d, n)] = m], n, sd, fs, m + 1)
<1> DEFINE h == Hash[sd][fs[m].key]
           x == Probe(h, d, n)
           new == [lk EXCEPT ![x] = m]
<1>1. h \in Nat
  BY Constants
<1>2. x \in 0 .. n - 1
  BY <1>1, ProbeType
<1> HIDE DEF h, x
<1>3. new[x] = m /\ \A s \in 0 .. n - 1 : s # x => new[s] = lk[s]
  BY <1>2
<1>4. m # EMPTY_LINK /\ IsLink(m)
  BY Constants DEF IsLink
<1>5. \A s \in 0 .. n - 1 : lk[s] # EMPTY_LINK => new[s] # EMPTY_LINK
  BY <1>3, <1>4
<1> SUFFICES ASSUME NEW s \in 0 .. n - 1, IsLink(new[s])
             PROVE  /\ new[s] < m + 1
                    /\ \A t \in 0 .. n - 1 : new[t] = new[s] => t = s
                    /\ Reached(new, n, sd, fs, s)
  BY DEF Good, h, x
<1>6. CASE s = x
  <2>1. \A t \in 0 .. n - 1 : t # x => new[t] # m
    <3> SUFFICES ASSUME NEW t \in 0 .. n - 1, t # x, lk[t] = m PROVE FALSE
      BY <1>3
    <3>1. lk[t] < m
      BY <1>4 DEF Good
    <3>2. QED BY <3>1
  <2>2. \A e \in 0 .. d - 1 : new[Probe(h, e, n)] # EMPTY_LINK
    <3> SUFFICES ASSUME NEW e \in 0 .. d - 1 PROVE new[Probe(h, e, n)] # EMPTY_LINK
      OBVIOUS
    <3>1. e \in 0 .. n - 1
      OBVIOUS
    <3>2. Probe(h, e, n) \in 0 .. n - 1
      BY <1>1, <3>1, ProbeType
    <3>3. QED BY <1>5, <3>2 DEF h
  <2>3. Reached(new, n, sd, fs, s)
    BY <1>3, <1>6, <2>2 DEF Reached, h, x
  <2>4. QED BY <1>3, <1>6, <2>1, <2>3
<1>7. CASE s # x
  <2>1. new[s] = lk[s] /\ IsLink(lk[s])
    BY <1>3, <1>7
  <2>2. lk[s] < m /\ lk[s] \in 0 .. m - 1
    BY <2>1 DEF Good, Link
  <2>3. \A t \in 0 .. n - 1 : new[t] = new[s] => t = s
    BY <1>3, <2>1, <2>2 DEF Good
  <2>4. Reached(lk, n, sd, es, s)
    BY <2>1 DEF Good
  <2>5. fs[new[s]].key = es[lk[s]].key /\ es[lk[s]].key \in Key
    BY <2>1, <2>2
  <2> HIDE DEF new
  <2>6. Reached(new, n, sd, fs, s)
    BY <1>5, <2>4, <2>5, ReachedKept
  <2>7. QED BY <2>1, <2>2, <2>3, <2>6
<1>8. QED BY <1>6, <1>7

\* only the keys of the entries matter
LEMMA GoodSameKeys ==
  ASSUME NEW n \in Nat, NEW sd, NEW m \in Nat,
         NEW lk \in [0 .. n - 1 -> Link], NEW es, NEW fs,
         Good(lk, n, sd, es, m),
         \A i \in 0 .. m - 1 : fs[i].key = es[i].key
  PROVE  Good(lk, n, sd, fs, m)
<1> SUFFICES ASSUME NEW s \in 0 .. n - 1, IsLink(lk[s])
             PROVE  /\ lk[s] < m
                    /\ \A t \in 0 .. n - 1 : lk[t] = lk[s] => t = s
                    /\ Reached(lk, n, sd, fs, s)
  BY DEF Good
<1>1. /\ lk[s] < m
      /\ \A t \in 0 .. n - 1 : lk[t] = lk[s] => t = s
      /\ Reached(lk, n, sd, es, s)
  BY DEF Good
<1>2. lk[s] \in 0 .. m - 1
  BY <1>1 DEF Link
<1>3. Reached(lk, n, sd, fs, s)
  BY <1>1, <1>2 DEF Reached
<1>4. QED BY <1>1, <1>3

\* a link replaced by a gravestone breaks no probe sequence
LEMMA GoodUnlink ==
  ASSUME NEW n \in Nat, NEW sd \in Seed, NEW m \in Nat,
         NEW lk \in [0 .. n - 1 -> Link], NEW es,
         \A i \in 0 .. m - 1 : es[i].key \in Key,
         Good(lk, n, sd, es, m), NEW x \in 0 .. n - 1
  PROVE  Good([lk EXCEPT ![x] = GRAVESTONE_LINK], n, sd, es, m)
<1> DEFINE new == [lk EXCEPT ![x] = GRAVESTONE_LINK]
<1>1. new[x] = GRAVESTONE_LINK /\ \A s \in 0 .. n - 1 : s # x => new[s] = lk[s]
  OBVIOUS
<1>2. \A y \in 0 .. n - 1 : lk[y] # EMPTY_LINK => new[y] # EMPTY_LINK
  BY Constants
<1> SUFFICES ASSUME NEW s \in 0 .. n - 1, IsLink(new[s])
             PROVE  /\ new[s] < m
                    /\ \A t \in 0 .. n - 1 : new[t] = new[s] => t = s
                    /\ Reached(new, n, sd, es, s)
  BY DEF Good
<1>3. s # x /\ new[s] = lk[s]
  BY <1>1 DEF IsLink
<1>4. /\ lk[s] < m
      /\ \A t \in 0 .. n - 1 : lk[t] = lk[s] => t = s
      /\ Reached(lk, n, sd, es, s)
  BY <1>3 DEF Good
<1>5. \A t \in 0 .. n - 1 : new[t] = new[s] => t = s
  BY <1>1, <1>3, <1>4 DEF IsLink
<1>6. es[lk[s]].key \in Key /\ es[new[s]].key = es[lk[s]].key
  BY <1>3, <1>4 DEF Link
<1> HIDE DEF new
<1>7. Reached(new, n, sd, es, s)
  BY <1>2, <1>4, <1>6, ReachedKept
<1>8. QED BY <1>3, <1>4, <1>5, <1>7

\* the last entry may be dropped when no slot links it
LEMMA GoodDropLast ==
  ASSUME NEW n \in Nat, NEW sd, NEW m \in Nat, m > 0,
         NEW lk \in [0 .. n - 1 -> Link], NEW es,
         Good(lk, n, sd, es, m), \A s \in 0 .. n - 1 : lk[s] # m - 1
  PROVE  Good(lk, n, sd, es, m - 1)
<1>1. \A s \in 0 .. n - 1 : lk[s] \in Nat
  BY DEF Link
<1>2. QED BY <1>1 DEF Good

\* the slot of the last entry may be made to link a place no slot links, to
\* which the last entry is moved
LEMMA GoodMoveLast ==
  ASSUME NEW n \in Nat, NEW sd \in Seed, NEW m \in Nat, m > 0, m < Word - 2,
         NEW lk \in [0 .. n - 1 -> Link], NEW es, NEW fs,
         \A j \in 0 .. m - 1 : es[j].key \in Key,
         Good(lk, n, sd, es, m),
         NEW i \in 0 .. m - 2, \A s \in 0 .. n - 1 : lk[s] # i,
         NEW x \in 0 .. n - 1, lk[x] = m - 1,
         \A j \in 0 .. m - 2 : j # i => fs[j].key = es[j].key,
         fs[i].key = es[m - 1].key
  PROVE  Good([lk EXCEPT ![x] = i], n, sd, fs, m - 1)
<1> DEFINE new == [lk EXCEPT ![x] = i]
<1>1. new[x] = i /\ \A s \in 0 .. n - 1 : s # x => new[s] = lk[s]
  OBVIOUS
<1>2. i # EMPTY_LINK /\ IsLink(i) /\ IsLink(m - 1)
  BY Constants DEF IsLink
<1>3. \A y \in 0 .. n - 1 : lk[y] # EMPTY_LINK => new[y] # EMPTY_LINK
  BY <1>2
<1>4. \A s \in 0 .. n - 1 : s # x => lk[s] # m - 1
  BY <1>2 DEF Good
<1> SUFFICES ASSUME NEW s \in 0 .. n - 1, IsLink(new[s])
             PROVE  /\ new[s] < m - 1
                    /\ \A t \in 0 .. n - 1 : new[t] = new[s] => t = s
                    /\ Reached(new, n, sd, fs, s)
  BY DEF Good
<1>5. CASE s = x
  <2>1. Reached(lk, n, sd, es, x)
    BY <1>2 DEF Good
  <2>2. fs[new[s]].key = es[lk[s]].key /\ es[lk[s]].key \in Key
    BY <1>1, <1>5
  <2> HIDE DEF new
  <2>3. Reached(new, n, sd, fs, s)
    BY <1>3, <1>5, <2>1, <2>2, ReachedKept
  <2>4. \A t \in 0 .. n - 1 : new[t] = new[s] => t = s
    BY <1>1, <1>5
  <2>5. QED BY <1>1, <1>5, <2>3, <2>4
<1>6. CASE s # x
  <2>1. new[s] = lk[s] /\ IsLink(lk[s])
    BY <1>1, <1>6
  <2>2. /\ lk[s] < m
        /\ \A t \in 0 .. n - 1 : lk[t] = lk[s] => t = s
        /\ Reached(lk, n, sd, es, s)
    BY <2>1 DEF Good
  <2>3. lk[s] \in 0 .. m - 2 /\ lk[s] # i
    BY <1>4, <1>6, <2>2 DEF Link
  <2>4. fs[new[s]].key = es[lk[s]].key /\ es[lk[s]].key \in Key
    BY <2>1, <2>3
  <2> HIDE DEF new
  <2>5. Reached(new, n, sd, fs, s)
    BY <1>3, <2>2, <2>4, ReachedKept
  <2>6. \A t \in 0 .. n - 1 : new[t] = new[s] => t = s
    BY <1>1, <2>1, <2>2, <2>3
  <2>7. QED BY <2>1, <2>3, <2>5, <2>6
<1>7. QED BY <1>5, <1>6

\* entry indices are keys and links; the linkers are functions to links
LEMMA TypeFacts ==
  ASSUME IInv
  PROVE  /\ linker_size \in Nat /\ linker \in [0 .. linker_size - 1 -> Link]
         /\ entries_size \in 0 .. MaxEntries /\ entries_size < Word - 2
         /\ entries_size \in Nat
         /\ entries \in [0 .. entries_size - 1 -> Entry]
         /\ \A i \in 0 .. entries_size - 1 : entries[i].key \in Key
         /\ seed \in Seed /\ gravestone_count \in Link
         /\ call \in CallType
<1>1. entries \in [0 .. entries_size - 1 -> Entry]
  BY DEF IInv, TypeOK
<1>2. \A i \in 0 .. entries_size - 1 : entries[i].key \in Key
  BY <1>1 DEF Entry
<1>3. entries_size \in 0 .. MaxEntries /\ entries_size < Word - 2 /\ entries_size \in Nat
  BY Constants DEF IInv, TypeOK
<1>4. QED BY <1>1, <1>2, <1>3 DEF IInv, TypeOK, CallType, Slots

LEMMA RelinkEntryIInv == IInv /\ RelinkEntry => IInv'
<1> SUFFICES ASSUME IInv, RelinkEntry PROVE IInv'
  OBVIOUS
<1> DEFINE n == call.to_size
           sd == call.to_seed
           h == Hash[sd][entries[relinked].key]
<1>1. PICK d \in 0 .. n - 1 :
        /\ fresh[Probe(h, d, n)] = EMPTY_LINK
        /\ \A e \in 0 .. d - 1 : fresh[Probe(h, e, n)] # EMPTY_LINK
        /\ fresh' = [fresh EXCEPT ![Probe(h, d, n)] = relinked]
        /\ fresh_collisions' = fresh_collisions + (IF d = 0 THEN 0 ELSE 1)
  BY DEF RelinkEntry
<1>2. /\ n \in Nat /\ sd \in Seed /\ pc = "relink"
      /\ relinked \in Nat /\ fresh_collisions \in 0 .. relinked
      /\ fresh \in [0 .. n - 1 -> Link]
      /\ alive_count \in 0 .. entries_size /\ relinked < alive_count
      /\ Good(fresh, n, sd, entries, relinked)
  BY TypeFacts DEF RelinkEntry, IInv, TypeOK
<1>3. relinked \in 0 .. entries_size - 1 /\ relinked < Word - 2 /\ relinked + 1 \in 0 .. entries_size
  <2>1. entries_size \in Nat /\ entries_size < Word - 2 /\ Word \in Nat
    BY TypeFacts, Constants
  <2>2. alive_count \in 0 .. entries_size /\ relinked < alive_count /\ relinked \in Nat
    BY <1>2
  <2> HIDE DEF alive_count
  <2>3. QED BY <2>1, <2>2
<1>4. entries[relinked].key \in Key /\ \A i \in 0 .. relinked - 1 : entries[i].key \in Key
  BY <1>3, TypeFacts
<1>5. ~IsLink(fresh[Probe(h, d, n)])
  BY <1>1 DEF IsLink
<1>6. Good(fresh', n, sd, entries, relinked + 1)
  <2>1. \A i \in 0 .. relinked - 1 : entries[i].key = entries[i].key
    OBVIOUS
  <2>2. QED BY <1>1, <1>2, <1>3, <1>4, <1>5, <2>1, GoodLinkNew
<1>7. fresh' \in [0 .. n - 1 -> Link]
  <2>1. relinked \in Link
    BY <1>2, <1>3, Constants DEF Link
  <2>2. QED BY <1>1, <1>2, <2>1
<1>8. /\ UNCHANGED <<table, pc, call, marks>> /\ relinked' = relinked + 1
      /\ alive_count' = alive_count
  BY DEF RelinkEntry, alive_count
<1>9. TypeOK'
  <2>1. fresh_collisions' \in 0 .. relinked'
    BY <1>1, <1>2, <1>8
  <2>2. QED
    BY <1>2, <1>3, <1>7, <1>8, <2>1 DEF IInv, TypeOK, table, stats, Slots
<1>10. Good(fresh, n, sd, entries, relinked)'
  BY <1>6, <1>8 DEF table
<1>11. QED
  BY <1>2, <1>8, <1>9, <1>10 DEF IInv, InRehash, table

LEMMA RelinkDoneIInv == IInv /\ RelinkDone => IInv'
<1> SUFFICES ASSUME IInv, RelinkDone PROVE IInv'
  OBVIOUS
<1> DEFINE n == call.to_size
           m == alive_count
           es == [i \in 0 .. m - 1 |-> entries[i]]
<1>1. /\ n \in Nat /\ call.to_seed \in Seed /\ pc = "relink"
      /\ fresh \in [0 .. n - 1 -> Link]
      /\ m \in 0 .. entries_size /\ m \in Nat
      /\ Good(fresh, n, call.to_seed, entries, m)
  BY TypeFacts DEF RelinkDone, IInv, TypeOK
<1>2. /\ linker' = fresh /\ linker_size' = n /\ entries' = es /\ entries_size' = m
      /\ seed' = call.to_seed /\ gravestone_count' = 0
      /\ relinked' = 0 /\ fresh_collisions' = 0 /\ marks' = {} /\ fresh' = <<>>
      /\ entries_capacity' = entries_capacity
      /\ hash_collisions' = fresh_collisions
      /\ max_hash_collisions' = Larger(max_hash_collisions, fresh_collisions)
      /\ pc' = AfterRehash(call.op)
      /\ call' = IF pc' = "idle" THEN NoCall ELSE [call EXCEPT !.to_size = 0]
  BY DEF RelinkDone
<1>3. Good(fresh, n, call.to_seed, es, m)
  BY <1>1, GoodSameKeys
<1>4. es \in [0 .. m - 1 -> Entry]
  BY <1>1, TypeFacts
<1>5. /\ pc' \in {"idle", "probe", "grow"}
      /\ pc' = "probe" => call.op \in {"set", "add"}
      /\ call.op \in {"set", "add"} => pc' = "probe"
  BY <1>2 DEF AfterRehash
<1>6. /\ call' \in CallType /\ call'.to_size = 0
      /\ call'.op \in {call.op, "none"}
      /\ pc' # "idle" => call'.op = call.op
  BY <1>2, TypeFacts, NoCallType, Constants DEF CallType
<1>7. /\ hash_collisions' \in Nat /\ max_hash_collisions' \in Nat
      /\ hash_collisions' <= max_hash_collisions'
  BY <1>2, TypeFacts DEF Larger, IInv, TypeOK
<1>8. entries_size' \in 0 .. MaxEntries /\ entries_size' <= entries_capacity'
  <2>1. /\ entries_size \in 0 .. MaxEntries /\ entries_size <= entries_capacity
        /\ entries_capacity \in Nat /\ MaxEntries \in Nat
    BY Constants DEF IInv, TypeOK
  <2>2. m \in 0 .. entries_size
    BY <1>1
  <2> HIDE DEF m
  <2>3. QED BY <1>2, <2>1, <2>2
<1>9. TypeOK'
  <2>1. 0 .. (IF pc' = "relink" THEN call'.to_size ELSE 0) - 1 = {}
    BY <1>5
  <2>2. gravestone_count' \in Link
    BY <1>2, Constants DEF Link
  <2>3. linker' \in [Slots' -> Link] /\ linker_size' \in Nat
    BY <1>1, <1>2 DEF Slots
  <2>4. entries' \in [0 .. entries_size' - 1 -> Entry]
    BY <1>2, <1>4
  <2>5. fresh' \in [0 .. (IF pc' = "relink" THEN call'.to_size ELSE 0) - 1 -> Link]
    BY <1>2, <2>1
  <2>6. entries_capacity' \in 0 .. Word - 2 /\ seed' \in Seed /\ pc' \in Phases
    BY <1>1, <1>2, <1>5 DEF IInv, TypeOK, Phases
  <2>7. marks' \subseteq 0 .. entries_size' - 1 /\ relinked' \in 0 .. entries_size'
        /\ fresh_collisions' \in 0 .. relinked'
    BY <1>1, <1>2
  <2>8. QED
    BY <1>6, <1>7, <1>8, <2>2, <2>3, <2>4, <2>5, <2>6, <2>7 DEF TypeOK, CallType
<1>10. Good(linker, linker_size, seed, entries, entries_size)'
  BY <1>2, <1>3
<1>11. call'.op \in {"set", "add"} => entries_size' < MaxEntries
  <2>1. call.op \in {"set", "add"} => entries_size < MaxEntries
    BY DEF IInv
  <2>2. MaxEntries \in Nat /\ entries_size \in Nat /\ m \in 0 .. entries_size
    BY <1>1, Constants, TypeFacts
  <2>3. call'.op \in {"set", "add"} => call.op \in {"set", "add"}
    BY <1>6
  <2> HIDE DEF m
  <2>4. QED BY <1>2, <2>1, <2>2, <2>3
<1>12. QED
  BY <1>2, <1>5, <1>6, <1>9, <1>10, <1>11, Constants DEF IInv, InRehash

LEMMA GrowCapacityIInv == IInv /\ GrowCapacity => IInv'
<1> SUFFICES ASSUME IInv, GrowCapacity PROVE IInv'
  OBVIOUS
<1> DEFINE c == Larger(call.to_size, entries_capacity)
<1>1. c \in 0 .. MaxEntries
  <2>1. /\ call.to_size \in Nat /\ entries_capacity \in Nat /\ MaxEntries \in Nat
        /\ call.to_fit \in 0 .. MaxEntries
    BY Constants DEF IInv, TypeOK
  <2>2. QED BY <2>1 DEF GrowCapacity, Larger
<1>2. NextCapacity(c) \in Nat /\ NextCapacity(c) <= Word - 2
  <2>1. NextCapacity(c) \in c + 1 .. Word - 2
    BY <1>1, Constants
  <2> HIDE DEF c
  <2>2. QED BY <1>1, <2>1, Constants
<1>3. call' = [call EXCEPT !.to_size = NextCapacity(c)]
  BY DEF GrowCapacity
<1> HIDE DEF c
<1>4. call' \in CallType /\ call'.to_size <= Word - 2 /\ call'.op = call.op
  BY <1>2, <1>3, TypeFacts DEF CallType
<1>5. TypeOK'
  BY <1>4 DEF GrowCapacity, IInv, TypeOK, CallType, table, stats, scratch, Slots
<1>6. Good(linker, linker_size, seed, entries, entries_size)'
  BY DEF GrowCapacity, IInv, InRehash, table
<1>7. QED BY <1>4, <1>5, <1>6 DEF GrowCapacity, IInv, InRehash, table, scratch

\* the model stops with the table as it was before the allocation failed
LEMMA LoseEntriesIInv ==
  ASSUME IInv, ~InRehash, LoseEntries PROVE IInv'
<1>1. UNCHANGED <<table, scratch>> /\ pc' = "corrupt" /\ call' = NoCall
  BY DEF LoseEntries
<1>2. TypeOK'
  BY <1>1, NoCallType DEF IInv, TypeOK, table, stats, scratch, Slots, InRehash, Phases
<1>3. Good(linker, linker_size, seed, entries, entries_size)'
  BY <1>1 DEF IInv, table
<1>4. QED BY <1>1, <1>2, <1>3, NoCallType DEF IInv, InRehash, table, scratch

LEMMA ResizeEntriesIInv == IInv /\ ResizeEntries => IInv'
<1> SUFFICES ASSUME IInv, ResizeEntries PROVE IInv'
  OBVIOUS
<1> DEFINE c == Larger(call.to_size, entries_capacity)
<1>1. CASE /\ entries_capacity' = c /\ pc' = "idle" /\ call' = NoCall
           /\ UNCHANGED <<linker, linker_size, entries, entries_size,
                          gravestone_count, stats, seed, scratch>>
  <2>1. entries_capacity' \in 0 .. Word - 2 /\ entries_capacity' >= entries_capacity
    <3>1. /\ call.to_size \in 0 .. Word - 2 /\ entries_capacity \in 0 .. Word - 2
          /\ Word \in Nat
      BY Constants DEF ResizeEntries, IInv, TypeOK
    <3>2. QED BY <1>1, <3>1 DEF Larger
  <2>2. entries_size' <= entries_capacity'
    <3>1. /\ entries_size \in Nat /\ entries_capacity \in Nat /\ entries_capacity' \in Nat
          /\ entries_size <= entries_capacity
      BY <2>1, Constants DEF IInv, TypeOK
    <3>2. QED BY <1>1, <2>1, <3>1
  <2>3. TypeOK'
    BY <1>1, <2>1, <2>2, NoCallType
       DEF ResizeEntries, IInv, TypeOK, stats, scratch, Slots, Phases
  <2>4. Good(linker, linker_size, seed, entries, entries_size)'
    BY <1>1 DEF ResizeEntries, IInv, InRehash
  <2>5. QED
    BY <1>1, <2>3, <2>4, NoCallType DEF ResizeEntries, IInv, InRehash, scratch
<1>2. CASE LoseEntries
  BY <1>2, LoseEntriesIInv DEF ResizeEntries, InRehash
<1>3. QED BY <1>1, <1>2 DEF ResizeEntries

LEMMA FailInsertIInv == IInv /\ FailInsert => IInv'
BY LoseEntriesIInv DEF FailInsert, InRehash

LEMMA OverwriteIInv ==
  ASSUME IInv, pc = "probe", NEW d \in 0 .. linker_size - 1, Overwrite(d)
  PROVE  IInv'
<1> DEFINE x == Probe(Hash[seed][call.key], d, linker_size)
           i == linker[x]
<1>1. x \in 0 .. linker_size - 1
  BY ProbeType, Constants, TypeFacts DEF CallType
<1>2. /\ entries' = [entries EXCEPT ![i].value = call.value]
      /\ pc' = "idle" /\ call' = NoCall /\ IsLink(i)
      /\ UNCHANGED <<linker, linker_size, entries_size, entries_capacity,
                     gravestone_count, stats, seed, scratch>>
  BY DEF Overwrite, Linked, IsLink
<1> HIDE DEF x
<1>3. Good(linker, linker_size, seed, entries, entries_size)
  BY DEF IInv, InRehash
<1>4. i \in 0 .. entries_size - 1
  <2>1. i < entries_size
    BY <1>1, <1>2, <1>3 DEF Good
  <2>2. i \in Nat
    BY <1>1, TypeFacts DEF Link
  <2>3. QED BY <2>1, <2>2, TypeFacts
<1> HIDE DEF i
<1>5. /\ entries' \in [0 .. entries_size - 1 -> Entry]
      /\ \A j \in 0 .. entries_size - 1 : entries'[j].key = entries[j].key
  BY <1>2, <1>4, TypeFacts DEF Entry, CallType
<1>6. Good(linker, linker_size, seed, entries', entries_size)
  BY <1>3, <1>5, TypeFacts, GoodSameKeys
<1>7. TypeOK'
  BY <1>2, <1>5, NoCallType DEF IInv, TypeOK, stats, scratch, Slots, Phases
<1>8. Good(linker, linker_size, seed, entries, entries_size)'
  BY <1>2, <1>6
<1>9. QED
  BY <1>2, <1>7, <1>8, NoCallType DEF IInv, InRehash, scratch

LEMMA PushNewIInv ==
  ASSUME IInv, pc = "probe", NEW d \in 0 .. linker_size - 1,
         ProbeStopsAt(d), PushNew(d)
  PROVE  IInv'
<1> DEFINE h == Hash[seed][call.key]
           x == Probe(h, d, linker_size)
           m == entries_size
           new == [key |-> call.key, value |-> call.value]
<1>1. /\ linker' = [linker EXCEPT ![x] = m]
      /\ entries' = [i \in 0 .. m |-> IF i = m THEN new ELSE entries[i]]
      /\ entries_size' = m + 1 /\ ~Linked(x)
      /\ pc' = "idle" /\ call' = NoCall
      /\ UNCHANGED <<linker_size, seed, scratch>>
  BY DEF PushNew
<1>2. h \in Nat /\ linker_size \in Nat /\ x \in 0 .. linker_size - 1
  BY ProbeType, Constants, TypeFacts DEF CallType
<1>3. /\ m \in Nat /\ m < Word - 2 /\ m + 1 \in 0 .. MaxEntries
  <2>1. m < MaxEntries /\ m \in Nat /\ MaxEntries \in Nat /\ m < Word - 2
    BY TypeFacts, Constants DEF IInv
  <2>2. QED BY <2>1
<1>4. entries' \in [0 .. m -> Entry] /\ entries'[m].key = call.key
  BY <1>1, <1>3, TypeFacts DEF Entry, CallType
<1>5. \A i \in 0 .. m - 1 : entries'[i].key = entries[i].key
  BY <1>1, <1>3
<1>6. \A e \in 0 .. d - 1 : linker[Probe(h, e, linker_size)] # EMPTY_LINK
  BY DEF ProbeStopsAt, ProbeStops, Linked
<1>7. Good(linker', linker_size, seed, entries', m + 1)
  <2>1. Good(linker, linker_size, seed, entries, m)
    BY DEF IInv, InRehash
  <2>2. ~IsLink(linker[x])
    BY <1>1 DEF Linked, IsLink
  <2>3. Good([linker EXCEPT ![Probe(Hash[seed][entries'[m].key], d, linker_size)] = m],
             linker_size, seed, entries', m + 1)
    BY <1>2, <1>3, <1>4, <1>5, <1>6, <2>1, <2>2, TypeFacts, GoodLinkNew DEF CallType
  <2>4. QED BY <1>1, <1>4, <2>3
<1>8. linker' \in [0 .. linker_size - 1 -> Link]
  <2>1. m \in Link
    BY <1>3, Constants DEF Link
  <2>2. QED BY <1>1, <1>2, <2>1, TypeFacts
<1>9. entries_capacity' \in 0 .. Word - 2 /\ m + 1 <= entries_capacity'
  <2>1. m <= entries_capacity /\ entries_capacity \in 0 .. Word - 2 /\ Word \in Nat /\ Word > 2
    BY Constants DEF IInv, TypeOK
  <2>2. CASE m + 1 <= entries_capacity
    BY <2>1, <2>2 DEF PushNew, CapacityFor
  <2>3. CASE ~(m + 1 <= entries_capacity)
    <3>1. entries_capacity = m /\ m \in 0 .. MaxEntries
      BY <1>3, <2>1, <2>3, TypeFacts
    <3>2. entries_capacity' = NextCapacity(m)
      BY <2>3, <3>1 DEF PushNew, CapacityFor
    <3>3. NextCapacity(m) \in m + 1 .. Word - 2
      BY <3>1, Constants
    <3> HIDE DEF m
    <3>4. QED BY <1>3, <2>1, <3>2, <3>3
  <2>4. QED BY <2>2, <2>3
<1>10. gravestone_count' \in Link
  <2>1. gravestone_count' = gravestone_count \/ gravestone_count' = (gravestone_count - 1) % Word
    BY DEF PushNew, Sub
  <2>2. gravestone_count \in Link /\ Word \in Nat /\ Word > 2
    BY TypeFacts, Constants
  <2>3. (gravestone_count - 1) % Word \in 0 .. Word - 1
    BY <2>2 DEF Link
  <2>4. QED BY <2>1, <2>2, <2>3 DEF Link
<1>11. /\ hash_collisions' \in Nat /\ max_hash_collisions' \in Nat
       /\ hash_collisions' <= max_hash_collisions'
  BY DEF PushNew, Larger, IInv, TypeOK
<1>12. TypeOK'
  <2>1. entries' \in [0 .. entries_size' - 1 -> Entry]
    BY <1>1, <1>3, <1>4
  <2>2. marks' \subseteq 0 .. entries_size' - 1 /\ relinked' \in 0 .. entries_size'
        /\ fresh_collisions' \in 0 .. relinked'
    BY <1>1, <1>3 DEF scratch, IInv, TypeOK
  <2>3. fresh' \in [0 .. (IF pc' = "relink" THEN call'.to_size ELSE 0) - 1 -> Link]
    BY <1>1 DEF scratch, IInv, TypeOK
  <2>4. linker' \in [Slots' -> Link] /\ linker_size' \in Nat /\ seed' \in Seed
    BY <1>1, <1>2, <1>8, TypeFacts DEF Slots
  <2>5. QED
    BY <1>1, <1>3, <1>9, <1>10, <1>11, <2>1, <2>2, <2>3, <2>4, NoCallType DEF TypeOK, Phases
<1>13. Good(linker, linker_size, seed, entries, entries_size)'
  BY <1>1, <1>7
<1>14. QED
  BY <1>1, <1>12, <1>13, NoCallType DEF IInv, InRehash, scratch

LEMMA FinishInsertIInv == IInv /\ FinishInsert => IInv'
BY OverwriteIInv, PushNewIInv DEF FinishInsert

\* what is left to show of a removal, once its linker and entries are good
LEMMA RemovalIInv ==
  ASSUME IInv, pc = "idle",
         linker' \in [0 .. linker_size - 1 -> Link],
         entries_size' \in 0 .. entries_size,
         entries' \in [0 .. entries_size' - 1 -> Entry],
         gravestone_count' \in Link,
         Good(linker', linker_size, seed, entries', entries_size'),
         UNCHANGED <<linker_size, entries_capacity, stats, seed, pc, call, scratch>>
  PROVE  IInv'
<1>1. entries_size' \in 0 .. MaxEntries /\ entries_size' <= entries_capacity'
  <2>1. /\ entries_size \in 0 .. MaxEntries /\ entries_size <= entries_capacity
        /\ entries_capacity \in Nat /\ MaxEntries \in Nat
    BY Constants DEF IInv, TypeOK
  <2>2. QED BY <2>1
<1>2. marks' = {} /\ relinked' = 0 /\ fresh_collisions' = 0
  BY DEF IInv, InRehash, scratch
<1>3. 0 \in 0 .. entries_size' /\ 0 \in 0 .. 0
  BY <1>1
<1>4. TypeOK'
  BY <1>1, <1>2, <1>3 DEF IInv, TypeOK, stats, scratch, Slots
<1>5. Good(linker, linker_size, seed, entries, entries_size)'
  OBVIOUS
<1>6. call'.op \in {"set", "add"} => entries_size' < MaxEntries
  <2>1. call'.op \in {"set", "add"} => entries_size < MaxEntries
    BY DEF IInv
  <2>2. entries_size \in Nat /\ MaxEntries \in Nat /\ entries_size' <= entries_size
    BY TypeFacts, Constants
  <2>3. QED BY <1>1, <2>1, <2>2
<1>7. QED
  BY <1>2, <1>4, <1>5, <1>6 DEF IInv, InRehash

LEMMA MarkRemovedIInv ==
  ASSUME IInv, NEW k \in Key, MarkRemoved(k) PROVE IInv'
<1>1. PICK s \in Slots : linker' = [linker EXCEPT ![s] = GRAVESTONE_LINK]
  BY DEF MarkRemoved, MarkRemovedCounting
<1>2. /\ pc = "idle" /\ gravestone_count' = (gravestone_count + 2) % Word
      /\ UNCHANGED <<linker_size, entries, entries_size, entries_capacity, stats,
                     seed, pc, call, scratch>>
  BY DEF MarkRemoved, MarkRemovedCounting
<1>3. s \in 0 .. linker_size - 1
  BY DEF Slots
<1>4. Good(linker, linker_size, seed, entries, entries_size)
  BY <1>2 DEF IInv, InRehash
<1>5. Good(linker', linker_size, seed, entries, entries_size)
  BY <1>1, <1>3, <1>4, TypeFacts, GoodUnlink
<1>6. linker' \in [0 .. linker_size - 1 -> Link]
  BY <1>1, <1>3, TypeFacts, Constants
<1>7. gravestone_count' \in Link
  <2>1. gravestone_count \in Nat /\ Word \in Nat /\ Word > 2
    BY TypeFacts, Constants DEF Link
  <2>2. (gravestone_count + 2) % Word \in 0 .. Word - 1
    BY <2>1
  <2>3. QED BY <1>2, <2>2 DEF Link
<1>8. entries_size' \in 0 .. entries_size
  BY <1>2, TypeFacts
<1>9. QED BY <1>2, <1>5, <1>6, <1>7, <1>8, TypeFacts, RemovalIInv

LEMMA RemoveIInv ==
  ASSUME IInv, NEW k \in Key, Remove(k) PROVE IInv'
<1> DEFINE last == entries_size - 1
           gone(s) == [linker EXCEPT ![s] = GRAVESTONE_LINK]
           short(es) == /\ entries' = [j \in 0 .. last - 1 |-> es[j]]
                        /\ entries_size' = last
           h == Hash[seed][entries[last].key]
<1>1. PICK s \in Slots :
        /\ FoundAt(k, s)
        /\ \/ linker[s] = last /\ linker' = gone(s) /\ short(entries)
           \/ /\ linker[s] # last
              /\ \E t \in Slots : /\ FoundEntryAt(gone(s), h, last, t)
                                  /\ linker' = [gone(s) EXCEPT ![t] = linker[s]]
              /\ short([entries EXCEPT ![linker[s]] = entries[last]])
           \/ linker[s] # last /\ linker' = gone(s) /\ UNCHANGED <<entries, entries_size>>
  BY DEF Remove
<1>2. /\ pc = "idle" /\ gravestone_count' = (gravestone_count + 1) % Word
      /\ UNCHANGED <<linker_size, entries_capacity, stats, seed, pc, call, scratch>>
  BY DEF Remove
<1>3. s \in 0 .. linker_size - 1 /\ IsLink(linker[s])
  BY <1>1 DEF Slots, FoundAt, FindStopsAt, HasKey, Linked, IsLink
<1>4. Good(linker, linker_size, seed, entries, entries_size)
  BY <1>2 DEF IInv, InRehash
<1>5. /\ linker[s] \in 0 .. entries_size - 1
      /\ \A t \in 0 .. linker_size - 1 : linker[t] = linker[s] => t = s
  BY <1>3, <1>4, TypeFacts DEF Good, Link
<1>6. /\ last \in Nat /\ entries_size > 0 /\ entries_size \in Nat
      /\ last \in 0 .. entries_size /\ linker[s] \in 0 .. last
  BY <1>5, TypeFacts
<1>7. Good(gone(s), linker_size, seed, entries, entries_size)
  BY <1>3, <1>4, TypeFacts, GoodUnlink
<1>8. /\ gone(s) \in [0 .. linker_size - 1 -> Link]
      /\ gone(s)[s] = GRAVESTONE_LINK
      /\ \A t \in 0 .. linker_size - 1 : t # s => gone(s)[t] = linker[t]
  BY <1>3, TypeFacts, Constants
<1>9. gravestone_count' \in Link
  BY <1>2, TypeFacts, Constants DEF Link
<1>10. GRAVESTONE_LINK \notin 0 .. entries_size - 1
  BY TypeFacts, Constants
<1>11. \A t \in 0 .. linker_size - 1 : gone(s)[t] # linker[s]
  BY <1>5, <1>8, <1>10
<1> HIDE DEF gone
<1>12. CASE linker[s] = last /\ linker' = gone(s) /\ short(entries)
  <2>1. Good(gone(s), linker_size, seed, entries, last)
    BY <1>6, <1>7, <1>8, <1>11, <1>12, TypeFacts, GoodDropLast
  <2>2. entries' \in [0 .. last - 1 -> Entry]
    BY <1>6, <1>12, TypeFacts
  <2>3. \A i \in 0 .. last - 1 : entries'[i].key = entries[i].key
    BY <1>12
  <2>4. Good(gone(s), linker_size, seed, entries', last)
    BY <1>6, <1>8, <2>1, <2>3, TypeFacts, GoodSameKeys
  <2>5. QED BY <1>2, <1>6, <1>8, <1>9, <1>12, <2>2, <2>4, RemovalIInv
<1>13. CASE /\ linker[s] # last
            /\ \E t \in Slots : /\ FoundEntryAt(gone(s), h, last, t)
                                /\ linker' = [gone(s) EXCEPT ![t] = linker[s]]
            /\ short([entries EXCEPT ![linker[s]] = entries[last]])
  <2>1. PICK t \in Slots : /\ gone(s)[t] = last
                           /\ linker' = [gone(s) EXCEPT ![t] = linker[s]]
    BY <1>13 DEF FoundEntryAt
  <2>2. t \in 0 .. linker_size - 1
    BY DEF Slots
  <2> DEFINE i == linker[s]
  <2>3. i \in 0 .. last - 1 /\ i \in Nat /\ last - 1 = entries_size - 2
    BY <1>5, <1>6, <1>13
  <2>4. /\ entries' \in [0 .. last - 1 -> Entry]
        /\ entries'[i].key = entries[last].key
        /\ \A j \in 0 .. last - 1 : j # i => entries'[j].key = entries[j].key
    BY <1>6, <1>13, <2>3, TypeFacts
  <2>5. linker' \in [0 .. linker_size - 1 -> Link]
    BY <1>8, <2>1, <2>2, <1>3, TypeFacts
  <2>6. /\ linker' = [gone(s) EXCEPT ![t] = i]
        /\ \A u \in 0 .. linker_size - 1 : gone(s)[u] # i
    BY <1>11, <2>1
  <2> HIDE DEF i
  <2>7. Good(linker', linker_size, seed, entries', last)
    <3>1. /\ i \in 0 .. entries_size - 2
          /\ entries'[i].key = entries[entries_size - 1].key
          /\ \A j \in 0 .. entries_size - 2 : j # i => entries'[j].key = entries[j].key
          /\ gone(s)[t] = entries_size - 1
      BY <1>6, <2>1, <2>3, <2>4
    <3>2. Good([gone(s) EXCEPT ![t] = i], linker_size, seed, entries', entries_size - 1)
      BY <1>6, <1>7, <1>8, <2>2, <2>6, <3>1, TypeFacts, GoodMoveLast
    <3>3. QED BY <2>6, <3>2
  <2>8. QED BY <1>2, <1>6, <1>9, <1>13, <2>4, <2>5, <2>7, RemovalIInv
<1>14. CASE linker' = gone(s) /\ UNCHANGED <<entries, entries_size>>
  <2>1. entries_size' \in 0 .. entries_size
    BY <1>14, TypeFacts
  <2>2. QED BY <1>2, <1>7, <1>8, <1>9, <1>14, <2>1, TypeFacts, RemovalIInv
<1>15. QED BY <1>1, <1>12, <1>13, <1>14

LEMMA StutterIInv == IInv /\ UNCHANGED vars => IInv'
<1> SUFFICES ASSUME IInv, UNCHANGED vars PROVE IInv'
  OBVIOUS
<1>1. TypeOK'
  BY DEF IInv, TypeOK, vars, table, stats, scratch, Slots
<1>2. QED
  BY <1>1 DEF IInv, InRehash, vars, table, stats, scratch, alive_count

LEMMA StepIInv == IInv /\ [Next]_vars => IInv'
<1> SUFFICES ASSUME IInv, [Next]_vars PROVE IInv'
  OBVIOUS
<1>1. CASE Call
  <2>1. ASSUME NEW k \in Key, NEW v \in Value, Set(k, v) \/ AddAnother(k, v)
        PROVE  IInv'
    BY <2>1, InsertIInv DEF Set, AddAnother
  <2>2. ASSUME NEW k \in Key, Remove(k) \/ MarkRemoved(k) PROVE IInv'
    BY <2>2, RemoveIInv, MarkRemovedIInv
  <2>3. ASSUME NEW n \in RehashSizes, NEW s \in Seed, Rehash(n, s) PROVE IInv'
    BY <2>3, RehashIInv
  <2>4. CASE RehashInPlace
    BY <2>4, RehashIInv, TypeFacts DEF RehashInPlace
  <2>5. ASSUME NEW n \in ReserveSizes, Reserve(n) PROVE IInv'
    BY <2>5, ReserveIInv
  <2>6. QED BY <1>1, <2>1, <2>2, <2>3, <2>4, <2>5 DEF Call
<1>2. CASE Step
  BY <1>2, CompactMoveIInv, CompactDoneIInv, RelinkEntryIInv, RelinkDoneIInv,
     GrowCapacityIInv, ResizeEntriesIInv, FinishInsertIInv, FailInsertIInv DEF Step
<1>3. CASE UNCHANGED vars
  BY <1>3, StutterIInv
<1>4. QED BY <1>1, <1>2, <1>3 DEF Next

\* every state of the table satisfies the inductive invariant
THEOREM Invariance == Spec => []IInv
BY InitIInv, StepIInv, PTL DEF Spec

\* the fields keep their types: sizes agree with the arrays they describe and
\* capacities stay below the two reserved link values
THEOREM TypeCorrect == Spec => []TypeOK
<1>1. IInv => TypeOK
  BY DEF IInv
<1>2. QED BY <1>1, Invariance, PTL

\* whatever calls came before, no two slots link the same entry and no slot
\* links an entry that is not there
THEOREM LinksStayUnique == Spec => []LinksUnique
<1>1. IInv => LinksUnique
  BY DEF IInv, LinksUnique, Good, Slots, Linked, IsLink
<1>2. QED BY <1>1, Invariance, PTL

\* probing for the key of a slot that is reached stops at the key
LEMMA ReachedFound ==
  ASSUME IInv, NEW s \in Slots, NEW k \in Key, HasKey(s, k),
         Reached(linker, linker_size, seed, entries, s)
  PROVE  \E t \in Slots : FoundAt(k, t)
<1> DEFINE h == Hash[seed][k]
           at(e) == Probe(h, e, linker_size)
           D == {e \in 0 .. linker_size - 1 : HasKey(at(e), k)}
<1>1. h \in Nat /\ linker_size \in Nat
  BY Constants, TypeFacts
<1>2. entries[linker[s]].key = k
  BY DEF HasKey
<1>3. PICK d \in 0 .. linker_size - 1 :
        s = at(d) /\ \A e \in 0 .. d - 1 : linker[at(e)] # EMPTY_LINK
  BY <1>2 DEF Reached
<1> HIDE DEF h, at
<1>4. d \in D /\ D \in SUBSET Nat
  BY <1>1, <1>3
<1>5. PICK m \in D : \A e \in D : m <= e
  BY <1>4, SmallestElement
<1>6. m \in 0 .. linker_size - 1 /\ m <= d /\ m \in Nat /\ HasKey(at(m), k)
  BY <1>1, <1>4, <1>5
<1>7. ASSUME NEW e \in 0 .. m - 1
      PROVE  linker[at(e)] # EMPTY_LINK /\ ~HasKey(at(e), k)
  <2>1. e \in 0 .. d - 1 /\ e \in 0 .. linker_size - 1 /\ ~(m <= e)
    BY <1>1, <1>6
  <2>2. e \notin D
    BY <1>5, <2>1
  <2>3. QED BY <1>3, <2>1, <2>2
<1>8. at(m) \in Slots
  BY <1>1, <1>6, ProbeType DEF at, Slots
<1>9. FindStopsAt(h, k, at(m))
  BY <1>6, <1>7 DEF FindStopsAt, at
<1>10. QED BY <1>8, <1>9 DEF FoundAt, h

\* find never loses the key of a linked entry
THEOREM KeysNeverLost == Spec => []KeysFound
<1>1. IInv => KeysFound
  <2> SUFFICES ASSUME IInv, ~InRehash, NEW s \in Slots, Linked(s)
               PROVE  \E t \in Slots : FoundAt(entries[linker[s]].key, t)
    BY DEF KeysFound
  <2>1. Good(linker, linker_size, seed, entries, entries_size) /\ IsLink(linker[s])
    BY DEF IInv, Linked, IsLink
  <2>2. linker[s] < entries_size /\ Reached(linker, linker_size, seed, entries, s)
    BY <2>1 DEF Good, Slots
  <2>3. linker[s] \in 0 .. entries_size - 1
    BY <2>2, TypeFacts DEF Slots, Link
  <2>4. entries[linker[s]].key \in Key /\ HasKey(s, entries[linker[s]].key)
    BY <2>3, TypeFacts DEF HasKey
  <2>5. QED BY <2>2, <2>4, ReachedFound
<1>2. QED BY <1>1, Invariance, PTL
-----------------------------------------------------------------------------
(* Bags of pairs *)

Pair(p) == [key |-> p[1], value |-> p[2]]

\* how many of the entries es with indices in L are e
Count(L, es, e) == Cardinality({i \in L : es[i] = e})

\* how often the entries es with indices in L store each pair
Bag(L, es) == [p \in Key \X Value |-> Count(L, es, Pair(p))]

\* a set of indices of a finite set is finite
LEMMA CountType ==
  ASSUME NEW L, IsFiniteSet(L), NEW es, NEW e
  PROVE  IsFiniteSet({i \in L : es[i] = e}) /\ Count(L, es, e) \in Nat
<1>1. {i \in L : es[i] = e} \in SUBSET L
  OBVIOUS
<1>2. IsFiniteSet({i \in L : es[i] = e})
  BY <1>1, FS_Subset
<1>3. QED BY <1>2, FS_CardinalityType DEF Count

\* the entries with indices in L are the same
Agree(L, es, fs) == \A i \in L : fs[i] = es[i]

\* one more entry counts once, where it belongs
LEMMA CountAdd ==
  ASSUME NEW L, IsFiniteSet(L), NEW x, x \notin L, NEW es, NEW fs, NEW e,
         Agree(L, es, fs)
  PROVE  /\ fs[x] = e => Count(L \cup {x}, fs, e) = Count(L, es, e) + 1
         /\ fs[x] # e => Count(L \cup {x}, fs, e) = Count(L, es, e)
<1> DEFINE A == {i \in L : es[i] = e}
<1>1. IsFiniteSet(A)
  <2>1. A \in SUBSET L
    OBVIOUS
  <2>2. QED BY <2>1, FS_Subset
<1>2. CASE fs[x] = e
  <2>1. {i \in L \cup {x} : fs[i] = e} = A \cup {x} /\ x \notin A
    BY <1>2 DEF Agree
  <2>2. Cardinality(A \cup {x}) = Cardinality(A) + 1
    BY <1>1, <2>1, FS_AddElement
  <2>3. QED BY <1>2, <2>1, <2>2 DEF Count
<1>3. CASE fs[x] # e
  <2>1. {i \in L \cup {x} : fs[i] = e} = A
    BY <1>3 DEF Agree
  <2>2. QED BY <1>3, <2>1 DEF Count
<1>4. QED BY <1>2, <1>3

\* the bag depends on the entries in L only
LEMMA BagSame ==
  ASSUME NEW L, NEW es, NEW fs, Agree(L, es, fs)
  PROVE  Bag(L, fs) = Bag(L, es)
<1>1. ASSUME NEW p \in Key \X Value PROVE Count(L, fs, Pair(p)) = Count(L, es, Pair(p))
  <2>1. {i \in L : fs[i] = Pair(p)} = {i \in L : es[i] = Pair(p)}
    BY DEF Agree
  <2>2. QED BY <2>1 DEF Count
<1>2. QED BY <1>1 DEF Bag

\* a pair more, and a pair less
Raised(b, q) == [b EXCEPT ![q] = @ + 1]
Lowered(b, q) == [b EXCEPT ![q] = @ - 1]

\* the entries fs with indices in L and x are the entries es with indices in L
\* and one of the pair q
Gains(L, x, es, fs, q) ==
  /\ IsFiniteSet(L) /\ x \notin L /\ Agree(L, es, fs)
  /\ q \in Key \X Value /\ fs[x] = Pair(q)

\* an entry that is added raises its pair by one
LEMMA BagGains ==
  ASSUME NEW L, NEW x, NEW es, NEW fs, NEW q, Gains(L, x, es, fs, q),
         NEW p \in Key \X Value
  PROVE  /\ Bag(L, es)[p] \in Nat
         /\ p = q => Bag(L \cup {x}, fs)[p] = Bag(L, es)[p] + 1
         /\ p # q => Bag(L \cup {x}, fs)[p] = Bag(L, es)[p]
<1> USE DEF Gains
<1>1. /\ Bag(L, es)[p] = Count(L, es, Pair(p))
      /\ Bag(L \cup {x}, fs)[p] = Count(L \cup {x}, fs, Pair(p))
  BY DEF Bag
<1>2. fs[x] = Pair(p) <=> p = q
  BY DEF Pair
<1>3. /\ fs[x] = Pair(p) => Count(L \cup {x}, fs, Pair(p)) = Count(L, es, Pair(p)) + 1
      /\ fs[x] # Pair(p) => Count(L \cup {x}, fs, Pair(p)) = Count(L, es, Pair(p))
  BY CountAdd
<1>4. Count(L, es, Pair(p)) \in Nat
  BY CountType
<1>5. QED BY <1>1, <1>2, <1>3, <1>4

\* as functions
LEMMA BagAdd ==
  ASSUME NEW L, NEW x, NEW es, NEW fs, NEW q, Gains(L, x, es, fs, q)
  PROVE  Bag(L \cup {x}, fs) = Raised(Bag(L, es), q)
<1> DEFINE b == Bag(L, es)
           c == Bag(L \cup {x}, fs)
<1>1. \A p \in Key \X Value : (p = q => c[p] = b[p] + 1) /\ (p # q => c[p] = b[p])
  BY BagGains
<1>2. b = [p \in Key \X Value |-> b[p]] /\ c = [p \in Key \X Value |-> c[p]]
  BY DEF Bag
<1> HIDE DEF b, c
<1>3. c = Raised(b, q)
  BY <1>1, <1>2 DEF Raised
<1>4. QED BY <1>3 DEF b, c

\* and an entry that is taken away was there and lowers it
LEMMA BagTake ==
  ASSUME NEW L, NEW x, NEW es, NEW fs, NEW q, Gains(L, x, es, fs, q)
  PROVE  /\ Bag(L, es) = Lowered(Bag(L \cup {x}, fs), q)
         /\ Bag(L \cup {x}, fs)[q] > 0
<1> DEFINE b == Bag(L, es)
           c == Bag(L \cup {x}, fs)
<1>1. \A p \in Key \X Value :
        b[p] \in Nat /\ (p = q => c[p] = b[p] + 1) /\ (p # q => c[p] = b[p])
  BY BagGains
<1>2. b = [p \in Key \X Value |-> b[p]] /\ c = [p \in Key \X Value |-> c[p]]
  BY DEF Bag
<1>3. q \in Key \X Value
  BY DEF Gains
<1> HIDE DEF b, c
<1>4. \A p \in Key \X Value : b[p] = IF p = q THEN c[p] - 1 ELSE c[p]
  BY <1>1
<1>5. b = Lowered(c, q)
  BY <1>2, <1>4 DEF Lowered
<1>6. c[q] > 0
  BY <1>1, <1>3
<1>7. QED BY <1>5, <1>6 DEF b, c

\* an entry that is moved to another index changes nothing
LEMMA BagMove ==
  ASSUME NEW L, IsFiniteSet(L), NEW x, x \notin L, NEW y, y \notin L,
         NEW es, NEW fs, Agree(L, es, fs), fs[y] = es[x]
  PROVE  Bag(L \cup {y}, fs) = Bag(L \cup {x}, es)
<1>1. ASSUME NEW e PROVE Count(L \cup {y}, fs, e) = Count(L \cup {x}, es, e)
  <2>1. /\ fs[y] = e => Count(L \cup {y}, fs, e) = Count(L, es, e) + 1
        /\ fs[y] # e => Count(L \cup {y}, fs, e) = Count(L, es, e)
    BY CountAdd
  <2>2. Agree(L, es, es)
    BY DEF Agree
  <2>3. /\ es[x] = e => Count(L \cup {x}, es, e) = Count(L, es, e) + 1
        /\ es[x] # e => Count(L \cup {x}, es, e) = Count(L, es, e)
    BY <2>2, CountAdd
  <2>4. QED BY <2>1, <2>3
<1>2. QED BY <1>1 DEF Bag

\* an entry that is replaced takes its pair down and another one up by one
LEMMA BagReplace ==
  ASSUME NEW L, IsFiniteSet(L), NEW x, x \notin L, NEW es, NEW fs, Agree(L, es, fs),
         NEW q \in Key \X Value, NEW r \in Key \X Value,
         es[x] = Pair(q), fs[x] = Pair(r)
  PROVE  /\ Bag(L \cup {x}, es)[q] > 0
         /\ Bag(L \cup {x}, fs) = Raised(Lowered(Bag(L \cup {x}, es), q), r)
<1>1. /\ Bag(L, es) = Lowered(Bag(L \cup {x}, es), q)
      /\ Bag(L \cup {x}, es)[q] > 0
  <2>1. Gains(L, x, es, es, q)
    BY DEF Gains, Agree
  <2>2. QED BY <2>1, BagTake
<1>2. Bag(L \cup {x}, fs) = Raised(Bag(L, es), r)
  <2>1. Gains(L, x, es, fs, r)
    BY DEF Gains
  <2>2. QED BY <2>1, BagAdd
<1>3. QED BY <1>1, <1>2

-----------------------------------------------------------------------------
(* The entries a linker links *)

Links(lk, n) == {i \in Link : IsLink(i) /\ \E s \in 0 .. n - 1 : lk[s] = i}

\* outside a rehash the links below the capacity are all links
LEMMA LinkedAreLinks ==
  ASSUME IInv, ~InRehash
  PROVE  /\ LinkedEntries = Links(linker, linker_size)
         /\ LinkedEntries \subseteq 0 .. entries_size - 1 /\ IsFiniteSet(LinkedEntries)
<1>1. LinkedEntries \subseteq 0 .. entries_size - 1
  BY LinkedEntriesType
<1>2. IsFiniteSet(LinkedEntries)
  <2>1. IsFiniteSet(0 .. entries_size - 1)
    BY TypeFacts, FS_Interval
  <2>2. QED BY <1>1, <2>1, FS_Subset
<1>3. ASSUME NEW i \in LinkedEntries PROVE i \in Links(linker, linker_size)
  <2>1. PICK s \in Slots : linker[s] = i /\ i < entries_capacity
    BY DEF LinkedEntries
  <2>2. i \in Link /\ entries_capacity \in 0 .. Word - 2 /\ s \in 0 .. linker_size - 1
    BY <2>1, TypeFacts DEF Slots, IInv, TypeOK
  <2>3. IsLink(i)
    BY <2>1, <2>2, Constants DEF IsLink, Link
  <2>4. QED BY <2>1, <2>2, <2>3 DEF Links
<1>4. ASSUME NEW i \in Links(linker, linker_size) PROVE i \in LinkedEntries
  <2>1. PICK s \in 0 .. linker_size - 1 : linker[s] = i /\ IsLink(i) /\ i \in Link
    BY DEF Links
  <2>2. i < entries_size
    BY <2>1 DEF IInv, Good
  <2>3. i < entries_capacity
    <3>1. entries_size <= entries_capacity /\ entries_capacity \in Nat /\ i \in Nat
      BY <2>1, Constants DEF IInv, TypeOK, Link
    <3>2. QED BY <2>2, <3>1, TypeFacts
  <2>4. QED BY <2>1, <2>3 DEF LinkedEntries, Slots
<1>5. QED BY <1>1, <1>2, <1>3, <1>4

\* what a table holds while no rehash is under way
LEMMA TableContents ==
  IInv /\ ~InRehash /\ pc # "corrupt" => Contents = Bag(Links(linker, linker_size), entries)
<1> SUFFICES ASSUME IInv, ~InRehash, pc # "corrupt"
             PROVE  Contents = Bag(Links(linker, linker_size), entries)
  OBVIOUS
<1>1. LiveEntries = Links(linker, linker_size)
  BY LinkedAreLinks DEF LiveEntries
<1>2. Contents = Bag(LiveEntries, entries)
  BY DEF Contents, Bag, Count, Pair
<1>3. QED BY <1>1, <1>2

\* the same of the next state
LEMMA TableContentsNext ==
  (IInv /\ ~InRehash /\ pc # "corrupt" => Contents = Bag(Links(linker, linker_size), entries))'
BY TableContents, PTL

\* during a rehash a table holds the marked entries
LEMMA RehashContents ==
  InRehash => Contents = Bag(marks, entries)
<1> SUFFICES ASSUME InRehash PROVE Contents = Bag(marks, entries)
  OBVIOUS
<1>1. LiveEntries = marks
  BY DEF LiveEntries, InRehash
<1>2. Contents = Bag(LiveEntries, entries)
  BY DEF Contents, Bag, Count, Pair
<1>3. QED BY <1>1, <1>2

\* the same of the next state
LEMMA RehashContentsNext == (InRehash => Contents = Bag(marks, entries))'
BY RehashContents, PTL

\* no other slot of lk holds what slot x holds
Alone(lk, n, x) == \A t \in 0 .. n - 1 : lk[t] = lk[x] => t = x

\* the linker lk with v in slot x
Put(lk, x, v) == [lk EXCEPT ![x] = v]

\* a slot that is made to link v no longer links what it did, which no other did
LEMMA LinksSet ==
  ASSUME NEW n \in Nat, NEW lk \in [0 .. n - 1 -> Link], NEW x \in 0 .. n - 1, NEW v \in Link,
         IsLink(lk[x]) => Alone(lk, n, x), NEW new, new = Put(lk, x, v)
  PROVE  /\ IsLink(v) => Links(new, n) = (Links(lk, n) \ {lk[x]}) \cup {v}
         /\ ~IsLink(v) => Links(new, n) = Links(lk, n) \ {lk[x]}
<1>1. new[x] = v /\ \A s \in 0 .. n - 1 : s # x => new[s] = lk[s]
  BY DEF Put
<1>2. ASSUME NEW i \in Links(new, n), i # v \/ ~IsLink(v)
      PROVE  i \in Links(lk, n) \ {lk[x]}
  <2>1. PICK s \in 0 .. n - 1 : new[s] = i /\ IsLink(i) /\ i \in Link
    BY DEF Links
  <2>2. s # x /\ lk[s] = i /\ i \in Links(lk, n)
    BY <1>1, <1>2, <2>1 DEF Links
  <2>3. i # lk[x]
    BY <2>1, <2>2 DEF Alone
  <2>4. QED BY <2>2, <2>3
<1>3. ASSUME NEW i \in Links(lk, n) \ {lk[x]} PROVE i \in Links(new, n)
  <2>1. PICK s \in 0 .. n - 1 : lk[s] = i /\ IsLink(i) /\ i \in Link
    BY DEF Links
  <2>2. s # x /\ new[s] = i
    BY <1>1, <2>1
  <2>3. QED BY <2>1, <2>2 DEF Links
<1>4. IsLink(v) => v \in Links(new, n)
  BY <1>1 DEF Links
<1>5. QED BY <1>2, <1>3, <1>4

-----------------------------------------------------------------------------
(* The steps of the table, by what they do to the linker and the entries *)

\* a rehash begins: all links are marked
Begins == /\ pc = "idle" /\ pc' = "compact" /\ marks' = LinkedEntries /\ UNCHANGED table

\* neither the linker nor the entries change, and no rehash begins or goes on
Quiet == /\ ~InRehash /\ (~InRehash)'
         /\ pc # "corrupt" /\ (pc' = "corrupt" => "entries" \in Fails)
         /\ UNCHANGED <<linker, linker_size, entries, entries_size, gravestone_count,
                        stats, seed>>

\* what the calls but the removals begin with
LEMMA CallCases ==
  ASSUME Call
  PROVE  \/ \E k \in Key : Remove(k) \/ MarkRemoved(k)
         \/ Begins
         \/ Quiet /\ pc = "idle" /\ pc' # "idle"
<1>1. ASSUME NEW c, NEW n, NEW sd, BeginRehash(c, n, sd), pc = "idle"
      PROVE  Begins \/ (Quiet /\ pc' # "idle")
  BY <1>1 DEF BeginRehash, Begins, Quiet, InRehash, table
<1>2. ASSUME NEW op, NEW k, NEW v, Insert(op, k, v)
      PROVE  pc = "idle" /\ (Begins \/ (Quiet /\ pc' # "idle"))
  <2> DEFINE c == [NoCall EXCEPT !.op = op, !.key = k, !.value = v]
  <2>1. pc = "idle" /\ GrowIfOverfull(c)
    BY <1>2 DEF Insert
  <2> HIDE DEF c
  <2>2. CASE BeginRehash(c, GrownSize, seed)
    BY <1>1, <2>1, <2>2
  <2>3. CASE pc' = "probe" /\ UNCHANGED table
    BY <2>1, <2>3 DEF Quiet, InRehash, table
  <2>4. QED BY <2>1, <2>2, <2>3 DEF GrowIfOverfull
<1>3. ASSUME NEW n, NEW sd, Rehash(n, sd)
      PROVE  pc = "idle" /\ (Begins \/ (Quiet /\ pc' # "idle"))
  <2> DEFINE c == [NoCall EXCEPT !.op = "rehash"]
  <2>1. pc = "idle" /\ \E z : BeginRehash(c, z, sd)
    BY <1>3 DEF Rehash
  <2> HIDE DEF c
  <2>2. QED BY <1>1, <2>1
<1>4. ASSUME NEW n, Reserve(n)
      PROVE  pc = "idle" /\ (Begins \/ (Quiet /\ pc' # "idle"))
  <2> DEFINE c == [NoCall EXCEPT !.op = "reserve", !.to_fit = n]
  <2>1. pc = "idle" /\ ((\E z : BeginRehash(c, z, seed)) \/ (pc' = "grow" /\ UNCHANGED table))
    BY <1>4 DEF Reserve
  <2> HIDE DEF c
  <2>2. CASE \E z : BeginRehash(c, z, seed)
    BY <1>1, <2>1, <2>2
  <2>3. CASE pc' = "grow" /\ UNCHANGED table
    BY <2>1, <2>3 DEF Quiet, InRehash, table
  <2>4. QED BY <2>1, <2>2, <2>3
<1>5. QED
  BY <1>2, <1>3, <1>4 DEF Call, Set, AddAnother, RehashInPlace

\* every step, with the quiet ones taken together
LEMMA NextCases ==
  ASSUME [Next]_vars
  PROVE  \/ \E k \in Key : Remove(k) \/ MarkRemoved(k)
         \/ Begins \/ Quiet
         \/ CompactMove \/ CompactDone \/ RelinkEntry \/ RelinkDone \/ FinishInsert
         \/ UNCHANGED vars
<1>1. GrowCapacity \/ ResizeEntries \/ FailInsert => Quiet
  BY DEF GrowCapacity, ResizeEntries, FailInsert, LoseEntries, Quiet, InRehash, table
<1>2. QED BY <1>1, CallCases DEF Next, Step

-----------------------------------------------------------------------------
(* Every step of the table is one of the multimap, or leaves it alone *)

\* what is known of the links of a table that is not being rehashed
LEMMA LinksFacts ==
  ASSUME IInv, ~InRehash
  PROVE  /\ Links(linker, linker_size) \subseteq 0 .. entries_size - 1
         /\ IsFiniteSet(Links(linker, linker_size))
         /\ \A i \in Links(linker, linker_size) : entries[i] \in Entry
         /\ \A s \in 0 .. linker_size - 1 : IsLink(linker[s]) =>
              /\ linker[s] \in Links(linker, linker_size)
              /\ \A t \in 0 .. linker_size - 1 : linker[t] = linker[s] => t = s
<1>1. /\ Links(linker, linker_size) \subseteq 0 .. entries_size - 1
      /\ IsFiniteSet(Links(linker, linker_size))
  BY LinkedAreLinks
<1>2. \A i \in Links(linker, linker_size) : entries[i] \in Entry
  BY <1>1, TypeFacts
<1>3. ASSUME NEW s \in 0 .. linker_size - 1, IsLink(linker[s])
      PROVE  /\ linker[s] \in Links(linker, linker_size)
             /\ \A t \in 0 .. linker_size - 1 : linker[t] = linker[s] => t = s
  <2>1. linker[s] \in Link
    BY TypeFacts
  <2>2. linker[s] \in Links(linker, linker_size)
    BY <1>3, <2>1 DEF Links
  <2>3. QED BY <1>3, <2>2 DEF IInv, Good
<1>4. QED BY <1>1, <1>2, <1>3

\* an entry is the pair of its key and its value
LEMMA EntryPair ==
  ASSUME NEW e \in Entry
  PROVE  <<e.key, e.value>> \in Key \X Value /\ e = Pair(<<e.key, e.value>>)
BY DEF Entry, Pair

\* one entry less is the removal of its pair
LEMMA RemovesPair ==
  ASSUME NEW L, IsFiniteSet(L), NEW i \in L, entries[i] \in Entry,
         Contents = Bag(L, entries), Contents' = Bag(L \ {i}, entries)
  PROVE  \E v \in Value : MM!Remove(entries[i].key, v)
<1> DEFINE M == L \ {i}
           k == entries[i].key
           v == entries[i].value
           q == <<k, v>>
<1>1. IsFiniteSet(M) /\ i \notin M /\ L = M \cup {i}
  BY FS_RemoveElement
<1>2. Agree(M, entries, entries)
  BY DEF Agree
<1>3. q \in Key \X Value /\ entries[i] = Pair(q) /\ v \in Value
  BY EntryPair
<1>4. Contents = Bag(L, entries) /\ Contents' = Bag(M, entries)
  OBVIOUS
<1> HIDE DEF M, q
<1>5. /\ Bag(M, entries) = Lowered(Bag(M \cup {i}, entries), q)
      /\ Bag(M \cup {i}, entries)[q] > 0
  <2>1. Gains(M, i, entries, entries, q)
    BY <1>1, <1>2, <1>3 DEF Gains
  <2>2. QED BY <2>1, BagTake
<1>6. Contents' = Lowered(Contents, q) /\ Contents[q] > 0
  BY <1>1, <1>4, <1>5
<1>7. MM!Remove(k, v)
  BY <1>6 DEF MM!Remove, MM!Stored, Lowered, q
<1>8. QED BY <1>3, <1>7

\* the gravestones of a linker
Graves(lk, n) == {s \in 0 .. n - 1 : lk[s] = GRAVESTONE_LINK}

\* what the slot x of a linker becomes decides whether it is a gravestone
LEMMA GravesPut ==
  ASSUME NEW n \in Nat, NEW lk \in [0 .. n - 1 -> Link], NEW x \in 0 .. n - 1, NEW v,
         NEW new, new = Put(lk, x, v)
  PROVE  /\ v = GRAVESTONE_LINK => Graves(new, n) = Graves(lk, n) \cup {x}
         /\ v # GRAVESTONE_LINK => Graves(new, n) = Graves(lk, n) \ {x}
<1>1. new[x] = v /\ \A s \in 0 .. n - 1 : s # x => new[s] = lk[s]
  BY DEF Put
<1>2. QED BY <1>1 DEF Graves

\* mark_removed turns the slot of an entry into a gravestone and leaves the entry
LEMMA MarkRemovedCases ==
  ASSUME IInv, NEW k \in Key, MarkRemoved(k)
  PROVE  \E s \in 0 .. linker_size - 1, i \in Links(linker, linker_size) :
           /\ s \notin Graves(linker, linker_size)
           /\ Graves(linker', linker_size) = Graves(linker, linker_size) \cup {s}
           /\ Links(linker', linker_size) = Links(linker, linker_size) \ {i}
           /\ entries[i].key = k
<1>1. PICK s \in Slots : FoundAt(k, s) /\ linker' = Put(linker, s, GRAVESTONE_LINK)
  BY DEF MarkRemoved, MarkRemovedCounting, Put
<1>2. ~InRehash
  BY DEF MarkRemoved, MarkRemovedCounting, InRehash
<1>3. s \in 0 .. linker_size - 1 /\ IsLink(linker[s])
  BY <1>1 DEF Slots, FoundAt, FindStopsAt, HasKey, Linked, IsLink
<1>4. Alone(linker, linker_size, s) /\ linker[s] \in Links(linker, linker_size)
  BY <1>2, <1>3, LinksFacts DEF Alone
<1>5. ~IsLink(GRAVESTONE_LINK) /\ GRAVESTONE_LINK \in Link
  BY Constants DEF IsLink
<1>6. Links(linker', linker_size) = Links(linker, linker_size) \ {linker[s]}
  BY <1>1, <1>3, <1>4, <1>5, TypeFacts, LinksSet, SMTT(60)
<1>7. Graves(linker', linker_size) = Graves(linker, linker_size) \cup {s}
  BY <1>1, <1>3, TypeFacts, GravesPut, SMTT(60)
<1>8. s \notin Graves(linker, linker_size)
  BY <1>3, <1>5 DEF Graves
<1>9. entries[linker[s]].key = k
  BY <1>1 DEF FoundAt, FindStopsAt, HasKey
<1>10. QED BY <1>3, <1>4, <1>6, <1>7, <1>8, <1>9

\* mark_removed takes out the pair of the entry it found
LEMMA MarkRemovedContents ==
  ASSUME IInv, IInv', NEW k \in Key, MarkRemoved(k)
  PROVE  \E v \in Value : MM!Remove(k, v)
<1> DEFINE L == Links(linker, linker_size)
<1>1. PICK i \in L : Links(linker', linker_size) = L \ {i} /\ entries[i].key = k
  BY MarkRemovedCases
<1>2. pc = "idle" /\ UNCHANGED <<linker_size, entries, pc>>
  BY DEF MarkRemoved, MarkRemovedCounting
<1>3. IsFiniteSet(L) /\ entries[i] \in Entry
  BY <1>2, LinksFacts DEF InRehash
<1>4. Contents = Bag(L, entries) /\ Contents' = Bag(L \ {i}, entries)
  BY <1>1, <1>2, TableContents, TableContentsNext DEF InRehash
<1>5. \E v \in Value : MM!Remove(entries[i].key, v)
  BY <1>3, <1>4, RemovesPair
<1>6. QED BY <1>1, <1>5

\* a finite set without one of its elements, and without two
LEMMA Without ==
  ASSUME NEW L, IsFiniteSet(L), NEW i
  PROVE  IsFiniteSet(L \ {i}) /\ i \notin L \ {i} /\ (i \in L => L = (L \ {i}) \cup {i})
BY FS_RemoveElement

\* the last entry, when it is linked at all, is found from its hash value, also
\* after another slot has become a gravestone
LEMMA LastFound ==
  ASSUME IInv, ~InRehash, NEW s \in 0 .. linker_size - 1,
         NEW t \in 0 .. linker_size - 1, NEW i \in 0 .. entries_size - 1,
         NEW lk, lk = Put(linker, s, GRAVESTONE_LINK), lk[t] = i
  PROVE  \E u \in Slots : FoundEntryAt(lk, Hash[seed][entries[i].key], i, u)
<1> DEFINE h == Hash[seed][entries[i].key]
           at(e) == Probe(h, e, linker_size)
           D == {e \in 0 .. linker_size - 1 : lk[at(e)] = i}
<1>1. h \in Nat /\ linker_size \in Nat
  BY Constants, TypeFacts
<1>2. IsLink(i)
  BY TypeFacts, Constants DEF IsLink
<1>3. Good(lk, linker_size, seed, entries, entries_size)
  <2>1. Good(linker, linker_size, seed, entries, entries_size)
    BY DEF IInv
  <2>2. QED BY <2>1, TypeFacts, GoodUnlink DEF Put
<1>4. Reached(lk, linker_size, seed, entries, t)
  BY <1>2, <1>3 DEF Good
<1>5. PICK d \in 0 .. linker_size - 1 :
        t = at(d) /\ \A e \in 0 .. d - 1 : lk[at(e)] # EMPTY_LINK
  BY <1>4 DEF Reached
<1> HIDE DEF h, at
<1>6. d \in D /\ D \in SUBSET Nat
  BY <1>1, <1>5
<1>7. PICK m \in D : \A e \in D : m <= e
  BY <1>6, SmallestElement
<1>8. m \in 0 .. linker_size - 1 /\ m <= d /\ m \in Nat /\ lk[at(m)] = i
  BY <1>1, <1>6, <1>7
<1>9. ASSUME NEW e \in 0 .. m - 1 PROVE lk[at(e)] \notin {EMPTY_LINK, i}
  <2>1. e \in 0 .. d - 1 /\ e \in 0 .. linker_size - 1 /\ ~(m <= e)
    BY <1>1, <1>8
  <2>2. e \notin D
    BY <1>7, <2>1
  <2>3. QED BY <1>5, <2>1, <2>2
<1>10. at(m) \in Slots
  BY <1>1, <1>8, ProbeType DEF at, Slots
<1>11. FoundEntryAt(lk, h, i, at(m))
  BY <1>8, <1>9 DEF FoundEntryAt, at
<1>12. QED BY <1>10, <1>11 DEF h

\* remove turns the slot of an entry i into a gravestone.  The last entry is
\* dropped, is moved into the place of i, or was not linked and stays.
LEMMA RemoveCases ==
  ASSUME IInv, NEW k \in Key, Remove(k)
  PROVE  \E s \in 0 .. linker_size - 1, i \in Links(linker, linker_size) :
           LET last == entries_size - 1
               L == Links(linker, linker_size)
           IN  /\ s \notin Graves(linker, linker_size)
               /\ Graves(linker', linker_size) = Graves(linker, linker_size) \cup {s}
               /\ \/ /\ i = last /\ Links(linker', linker_size) = L \ {i}
                     /\ entries' = [j \in 0 .. last - 1 |-> entries[j]]
                     /\ entries_size' = last
                  \/ /\ i # last /\ last \in L
                     /\ Links(linker', linker_size) = ((L \ {i}) \ {last}) \cup {i}
                     /\ entries' = [j \in 0 .. last - 1 |->
                                      [entries EXCEPT ![i] = entries[last]][j]]
                     /\ entries_size' = last
                  \/ /\ i # last /\ last \notin L
                     /\ Links(linker', linker_size) = L \ {i}
                     /\ UNCHANGED <<entries, entries_size>>
               /\ entries[i].key = k
<1> DEFINE n == linker_size
           last == entries_size - 1
           h == Hash[seed][entries[last].key]
           gone(s) == Put(linker, s, GRAVESTONE_LINK)
           moved(i) == [entries EXCEPT ![i] = entries[last]]
           short(es) == /\ entries' = [j \in 0 .. last - 1 |-> es[j]]
                        /\ entries_size' = last
           L == Links(linker, n)
           G == Graves(linker, n)
<1>1. PICK s \in Slots :
        /\ FoundAt(k, s)
        /\ \/ linker[s] = last /\ linker' = gone(s) /\ short(entries)
           \/ /\ linker[s] # last
              /\ \E t \in Slots : /\ gone(s)[t] = last
                                  /\ linker' = Put(gone(s), t, linker[s])
              /\ short(moved(linker[s]))
           \/ /\ linker[s] # last
              /\ \A t \in Slots : ~FoundEntryAt(gone(s), h, last, t)
              /\ linker' = gone(s) /\ UNCHANGED <<entries, entries_size>>
  BY DEF Remove, FoundEntryAt, Put
<1>2. pc = "idle" /\ n' = n /\ ~InRehash
  BY DEF Remove, InRehash
<1> DEFINE i == linker[s]
<1>3. s \in 0 .. n - 1 /\ IsLink(i)
  BY <1>1 DEF Slots, FoundAt, FindStopsAt, HasKey, Linked, IsLink
<1>4. L \subseteq 0 .. last /\ i \in L /\ Alone(linker, n, s)
  BY <1>2, <1>3, LinksFacts DEF Alone
<1>5. /\ last \in 0 .. entries_size - 1 /\ last < Word - 2 /\ i \in 0 .. last
      /\ last \in Link /\ IsLink(last) /\ i \in Link
  <2>1. i \in 0 .. last
    BY <1>4
  <2>2. entries_size \in Nat /\ entries_size < Word - 2 /\ Word \in Nat
    BY TypeFacts, Constants
  <2> HIDE DEF i, L
  <2>3. QED BY <2>1, <2>2, Constants DEF Link, IsLink
<1>6. ~IsLink(GRAVESTONE_LINK) /\ GRAVESTONE_LINK \in Link
  BY Constants DEF IsLink
<1>7. n \in Nat /\ linker \in [0 .. n - 1 -> Link]
  BY TypeFacts
<1>8. s \notin G /\ i # GRAVESTONE_LINK /\ last # GRAVESTONE_LINK
  BY <1>3, <1>5, <1>6 DEF Graves, IsLink
<1> DEFINE lk == gone(s)
<1>9. lk = Put(linker, s, GRAVESTONE_LINK)
  OBVIOUS
<1>10. /\ lk \in [0 .. n - 1 -> Link] /\ lk[s] = GRAVESTONE_LINK
       /\ \A t \in 0 .. n - 1 : t # s => lk[t] = linker[t]
  BY <1>3, <1>6, <1>7 DEF Put
<1>11. i = linker[s] /\ L = Links(linker, n) /\ G = Graves(linker, n)
  OBVIOUS
<1>12. entries[i].key = k
  BY <1>1 DEF FoundAt, FindStopsAt, HasKey
<1>13. QED
  <2> HIDE DEF lk, i, L, G, n, last, h
  <2>1. Links(lk, n) = L \ {i}
    BY <1>3, <1>4, <1>6, <1>7, <1>9, <1>11, LinksSet
  <2>2. Graves(lk, n) = G \cup {s}
    BY <1>3, <1>7, <1>9, <1>11, GravesPut
  <2>3. ASSUME NEW t \in 0 .. n - 1, lk[t] = last
        PROVE  last = linker[t] /\ last \in L /\ Alone(lk, n, t)
    <3>1. t # s /\ linker[t] = last
      BY <1>8, <1>10, <2>3
    <3>2. last \in L /\ Alone(linker, n, t)
      BY <1>2, <1>5, <3>1, LinksFacts DEF Alone, L, n
    <3>3. QED BY <1>8, <1>10, <2>3, <3>1, <3>2 DEF Alone
  <2>4. CASE i = last /\ linker' = lk /\ short(entries)
    BY <1>3, <1>4, <1>8, <1>11, <1>12, <2>1, <2>2, <2>4 DEF n, last, L, G
  <2>5. CASE /\ i # last
             /\ \E t \in Slots : lk[t] = last /\ linker' = Put(lk, t, i)
             /\ short(moved(i))
    <3>1. PICK t \in Slots : lk[t] = last /\ linker' = Put(lk, t, i)
      BY <2>5
    <3>2. t \in 0 .. n - 1
      BY DEF Slots, n
    <3>3. last \in L /\ Alone(lk, n, t)
      BY <2>3, <3>1, <3>2
    <3>4. Links(linker', n) = ((L \ {i}) \ {last}) \cup {i}
      BY <1>3, <1>5, <1>7, <1>10, <2>1, <3>1, <3>2, <3>3, LinksSet
    <3>5. Graves(linker', n) = G \cup {s}
      <4>1. Graves(linker', n) = (G \cup {s}) \ {t}
        BY <1>7, <1>8, <1>10, <2>2, <3>1, <3>2, GravesPut
      <4>2. t \notin G \cup {s}
        BY <1>8, <1>10, <2>2, <3>1 DEF Graves
      <4>3. QED BY <4>1, <4>2
    <3>6. QED BY <1>3, <1>4, <1>8, <1>12, <2>5, <3>3, <3>4, <3>5 DEF n, last, L, G
  <2>6. CASE /\ i # last
             /\ \A t \in Slots : ~FoundEntryAt(lk, h, last, t)
             /\ linker' = lk /\ UNCHANGED <<entries, entries_size>>
    <3>1. ASSUME last \in L PROVE FALSE
      <4>1. PICK t \in 0 .. n - 1 : linker[t] = last
        BY <3>1 DEF L, Links
      <4>2. t # s /\ lk[t] = last
        BY <1>10, <1>11, <2>6, <4>1
      <4>3. \E u \in Slots : FoundEntryAt(lk, Hash[seed][entries[last].key], last, u)
        BY <1>2, <1>3, <1>5, <1>9, <4>2, LastFound, SMTT(60) DEF n
      <4>4. QED BY <2>6, <4>3 DEF h
    <3>2. QED BY <1>3, <1>4, <1>8, <1>12, <2>1, <2>2, <2>6, <3>1 DEF n, last, L, G
  <2>7. QED BY <1>1, <2>4, <2>5, <2>6 DEF lk, i, h, last

\* remove takes out the pair of the entry it found, also when it moves the last
\* entry into its place or leaves the dead entry behind
LEMMA RemoveContents ==
  ASSUME IInv, IInv', NEW k \in Key, Remove(k)
  PROVE  \E v \in Value : MM!Remove(k, v)
<1> DEFINE last == entries_size - 1
           L == Links(linker, linker_size)
           taken(i) ==
        \/ /\ i = last /\ Links(linker', linker_size) = L \ {i}
           /\ entries' = [j \in 0 .. last - 1 |-> entries[j]]
        \/ /\ i # last /\ last \in L
           /\ Links(linker', linker_size) = ((L \ {i}) \ {last}) \cup {i}
           /\ entries' = [j \in 0 .. last - 1 |-> [entries EXCEPT ![i] = entries[last]][j]]
        \/ Links(linker', linker_size) = L \ {i} /\ UNCHANGED entries
<1>1. PICK i \in L : taken(i) /\ entries[i].key = k
  BY RemoveCases
<1>2. pc = "idle" /\ pc' = pc /\ linker_size' = linker_size
  BY DEF Remove
<1>3. L \subseteq 0 .. last /\ IsFiniteSet(L) /\ entries[i] \in Entry
  BY <1>2, LinksFacts DEF InRehash
<1>4. Contents = Bag(L, entries)
  BY <1>2, TableContents DEF InRehash
<1>5. Contents' = Bag(Links(linker', linker_size), entries')
  BY <1>2, TableContentsNext DEF InRehash
<1>6. last \in Nat /\ i \in 0 .. last
  BY <1>3, TypeFacts
<1> HIDE DEF L
<1>7. CASE /\ i = last /\ Links(linker', linker_size) = L \ {i}
           /\ entries' = [j \in 0 .. last - 1 |-> entries[j]]
  <2>1. Agree(L \ {i}, entries, entries')
    BY <1>3, <1>6, <1>7 DEF Agree
  <2>2. Contents' = Bag(L \ {i}, entries)
    BY <1>5, <1>7, <2>1, BagSame
  <2>3. QED BY <1>1, <1>3, <1>4, <2>2, RemovesPair
<1>8. CASE Links(linker', linker_size) = L \ {i} /\ UNCHANGED entries
  BY <1>1, <1>3, <1>4, <1>5, <1>8, RemovesPair
<1>9. CASE /\ i # last /\ last \in L
           /\ Links(linker', linker_size) = ((L \ {i}) \ {last}) \cup {i}
           /\ entries' = [j \in 0 .. last - 1 |-> [entries EXCEPT ![i] = entries[last]][j]]
  <2> DEFINE K == (L \ {i}) \ {last}
  <2>1. IsFiniteSet(K) /\ i \notin K /\ last \notin K /\ L \ {i} = K \cup {last}
    <3>1. IsFiniteSet(L \ {i})
      BY <1>3, Without
    <3>2. IsFiniteSet(K)
      BY <3>1, Without
    <3>3. QED BY <1>9, <3>2
  <2>2. Agree(K, entries, entries') /\ entries'[i] = entries[last]
    BY <1>3, <1>6, <1>9, TypeFacts DEF Agree
  <2> HIDE DEF K
  <2>3. Bag(K \cup {i}, entries') = Bag(K \cup {last}, entries)
    BY <2>1, <2>2, BagMove
  <2>4. Contents' = Bag(L \ {i}, entries)
    BY <1>5, <1>9, <2>1, <2>3 DEF K
  <2>5. QED BY <1>1, <1>3, <1>4, <2>4, RemovesPair
<1>10. QED BY <1>1, <1>7, <1>8, <1>9

\* a slot that held no link is made to link the new entry
LEMMA PushNewLinks ==
  ASSUME IInv, pc = "probe", NEW d \in 0 .. linker_size - 1, PushNew(d)
  PROVE  /\ Links(linker', linker_size') = Links(linker, linker_size) \cup {entries_size}
         /\ entries_size \notin Links(linker, linker_size)
         /\ entries_size' = entries_size + 1 /\ pc' = "idle" /\ UNCHANGED linker_size
         /\ \/ /\ Graves(linker', linker_size) = Graves(linker, linker_size)
               /\ gravestone_count' = gravestone_count
            \/ \E x \in Graves(linker, linker_size) :
                 /\ Graves(linker', linker_size) = Graves(linker, linker_size) \ {x}
                 /\ gravestone_count' = Sub(gravestone_count, 1)
<1> DEFINE x == Probe(Hash[seed][call.key], d, linker_size)
           m == entries_size
           L == Links(linker, linker_size)
<1>1. x \in 0 .. linker_size - 1
  BY ProbeType, Constants, TypeFacts DEF CallType
<1>2. /\ linker' = Put(linker, x, m) /\ ~IsLink(linker[x])
      /\ pc' = "idle" /\ linker_size' = linker_size /\ entries_size' = m + 1
      /\ linker[x] = GRAVESTONE_LINK => gravestone_count' = Sub(gravestone_count, 1)
      /\ linker[x] # GRAVESTONE_LINK => gravestone_count' = gravestone_count
  BY DEF PushNew, Put, Linked, IsLink
<1> HIDE DEF x
<1>3. L \subseteq 0 .. m - 1
  BY LinksFacts DEF InRehash
<1>4. m \in Link /\ IsLink(m) /\ m \in Nat
  BY TypeFacts, Constants, SMTT(60) DEF IsLink, Link
<1>5. linker_size \in Nat /\ linker \in [0 .. linker_size - 1 -> Link]
  BY TypeFacts
<1>6. linker' = Put(linker, x, m) /\ ~IsLink(linker[x])
  BY <1>2
<1>7. Links(linker', linker_size) = L \cup {m}
  <2> HIDE DEF m
  <2>1. Links(linker', linker_size) = (Links(linker, linker_size) \ {linker[x]}) \cup {m}
    BY <1>1, <1>4, <1>5, <1>6, LinksSet
  <2>2. linker[x] \notin L
    BY <1>2 DEF Links
  <2>3. QED BY <2>1, <2>2
<1>8. Graves(linker', linker_size) = Graves(linker, linker_size) \ {x}
  <2>1. m # GRAVESTONE_LINK
    BY <1>4 DEF IsLink
  <2> HIDE DEF m
  <2>2. QED BY <1>1, <1>5, <1>6, <2>1, GravesPut
<1>9. linker[x] = GRAVESTONE_LINK <=> x \in Graves(linker, linker_size)
  BY <1>1 DEF Graves
<1>10. QED BY <1>2, <1>3, <1>4, <1>7, <1>8, <1>9

\* push_new adds the pair of the call
LEMMA PushNewContents ==
  ASSUME IInv, IInv', pc = "probe", NEW d \in 0 .. linker_size - 1, PushNew(d)
  PROVE  MM!Add(call.key, call.value)
<1> DEFINE m == entries_size
           L == Links(linker, linker_size)
           q == <<call.key, call.value>>
<1>1. /\ Links(linker', linker_size') = L \cup {m} /\ m \notin L /\ pc' = "idle"
      /\ entries' = [i \in 0 .. m |-> IF i = m THEN [key |-> call.key, value |-> call.value]
                                              ELSE entries[i]]
  BY PushNewLinks DEF PushNew
<1>2. L \subseteq 0 .. m - 1 /\ IsFiniteSet(L) /\ m \in Nat
  BY LinksFacts, TypeFacts DEF InRehash
<1>3. q \in Key \X Value /\ entries'[m] = Pair(q) /\ call.key \in Key /\ call.value \in Value
  BY <1>1, <1>2, TypeFacts DEF CallType, Pair
<1>4. m \notin L /\ Agree(L, entries, entries')
  BY <1>1, <1>2 DEF Agree
<1>5. Contents = Bag(L, entries) /\ Contents' = Bag(L \cup {m}, entries')
  BY <1>1, TableContents, TableContentsNext DEF InRehash
<1> HIDE DEF L, m, q
<1>6. Bag(L \cup {m}, entries') = Raised(Bag(L, entries), q)
  <2>1. Gains(L, m, entries, entries', q)
    BY <1>2, <1>3, <1>4 DEF Gains
  <2>2. QED BY <2>1, BagAdd
<1>7. Contents' = Raised(Contents, q)
  BY <1>5, <1>6
<1>8. QED BY <1>7 DEF MM!Add, Raised, q

\* set replaces a pair of its key, or stores the value that is already there
LEMMA OverwriteContents ==
  ASSUME IInv, IInv', pc = "probe", NEW d \in 0 .. linker_size - 1,
         ProbeStopsAt(d), Overwrite(d)
  PROVE  call.op = "set" /\ SetPair(call.key, call.value)
<1> DEFINE x == Probe(Hash[seed][call.key], d, linker_size)
           i == linker[x]
           L == Links(linker, linker_size)
           K == L \ {i}
           k == entries[i].key
           v == entries[i].value
           w == call.value
           q == <<k, v>>
           r == <<k, w>>
<1>1. x \in 0 .. linker_size - 1
  BY ProbeType, Constants, TypeFacts DEF CallType
<1>2. /\ entries' = [entries EXCEPT ![i].value = w] /\ IsLink(i)
      /\ pc' = "idle" /\ UNCHANGED <<linker, linker_size>>
  BY DEF Overwrite, Linked, IsLink
<1>2a. call.op = "set" /\ k = call.key
  BY <1>2 DEF ProbeStopsAt, ProbeStops, HasKey, Linked, IsLink
<1> HIDE DEF x
<1>3. /\ L \subseteq 0 .. entries_size - 1 /\ IsFiniteSet(L) /\ i \in L /\ entries[i] \in Entry
  BY <1>1, <1>2, LinksFacts DEF InRehash
<1>4. w \in Value
  BY TypeFacts DEF CallType
<1> HIDE DEF i
<1>5. Contents = Bag(L, entries) /\ Contents' = Bag(L, entries')
  BY <1>2, TableContents, TableContentsNext DEF InRehash
<1>6. IsFiniteSet(K) /\ i \notin K /\ L = K \cup {i}
  BY <1>3, Without
<1>7. entries'[i] = [key |-> k, value |-> w] /\ Agree(K, entries, entries')
  BY <1>2, <1>3, <1>4, TypeFacts DEF Agree, Entry
<1>8. /\ q \in Key \X Value /\ r \in Key \X Value /\ k \in Key /\ v \in Value
      /\ entries[i] = Pair(q) /\ entries'[i] = Pair(r)
  BY <1>3, <1>4, <1>7, EntryPair DEF Pair
<1> HIDE DEF L, K, q, r
<1>9. Contents[q] > 0 /\ Contents' = Raised(Lowered(Contents, q), r)
  BY <1>5, <1>6, <1>7, <1>8, BagReplace
<1>10. MM!Stored(k, v)
  BY <1>9 DEF MM!Stored, q
<1>11. CASE v # w
  <2>1. MM!Replace(k, v, w)
    BY <1>9, <1>10, <1>11 DEF MM!Replace, Raised, Lowered, q, r
  <2>2. QED BY <1>2a, <1>4, <1>8, <2>1 DEF SetPair
<1>12. CASE v = w
  <2>1. entries'[i] = entries[i]
    BY <1>8, <1>12 DEF q, r
  <2>2. Agree(L, entries, entries')
    BY <1>6, <1>7, <2>1 DEF Agree
  <2>3. UNCHANGED Contents
    BY <1>5, <2>2, BagSame
  <2>4. QED BY <1>2a, <1>10, <1>12, <2>3 DEF SetPair
<1>13. QED BY <1>11, <1>12

\* a compaction moves an entry to another index
LEMMA CompactMoveContents ==
  ASSUME IInv, CompactMove
  PROVE  UNCHANGED Contents
<1>1. PICK f \in Holes, b \in marks : /\ f < b
                                     /\ entries' = [entries EXCEPT ![f] = entries[b]]
                                     /\ marks' = (marks \ {b}) \cup {f}
  BY DEF CompactMove
<1> DEFINE K == marks \ {b}
<1>2. /\ marks \subseteq 0 .. entries_size - 1 /\ IsFiniteSet(marks)
      /\ f \in 0 .. entries_size - 1 /\ f \notin marks
  <2>1. marks \subseteq 0 .. entries_size - 1
    BY DEF IInv, TypeOK
  <2>2. IsFiniteSet(0 .. entries_size - 1)
    BY TypeFacts, FS_Interval
  <2>3. QED BY <2>1, <2>2, FS_Subset DEF Holes
<1>3. IsFiniteSet(K) /\ b \notin K /\ marks = K \cup {b} /\ f \notin K
  BY <1>2, Without
<1>4. entries'[f] = entries[b] /\ Agree(K, entries, entries')
  BY <1>1, <1>2, TypeFacts DEF Agree
<1>5. marks' = K \cup {f}
  BY <1>1
<1> HIDE DEF K
<1>6. Bag(K \cup {f}, entries') = Bag(K \cup {b}, entries)
  BY <1>3, <1>4, BagMove
<1>7. Contents = Bag(marks, entries)
  BY RehashContents DEF CompactMove, InRehash
<1>8. Contents' = Bag(marks', entries')
  BY RehashContentsNext DEF CompactMove, InRehash
<1>9. QED BY <1>3, <1>5, <1>6, <1>7, <1>8

\* the linker a rehash fills links the entries it has gone through, and holds
\* no gravestone
RelinkedLinks ==
  pc = "relink" =>
    Links(fresh, call.to_size) = 0 .. relinked - 1 /\ Graves(fresh, call.to_size) = {}

\* the slot in which a rehash links the next entry was empty, and near its hash value
LEMMA RelinkSlot ==
  ASSUME IInv, RelinkEntry
  PROVE  LET n == call.to_size
             h == Hash[call.to_seed][entries[relinked].key]
         IN  /\ n \in Nat /\ fresh \in [0 .. n - 1 -> Link] /\ pc = "relink"
             /\ h \in Nat /\ call.to_seed \in Seed
             /\ relinked \in Nat /\ relinked \in Link /\ IsLink(relinked)
             /\ relinked \in 0 .. entries_size - 1
             /\ UNCHANGED <<call, entries, pc>> /\ relinked' = relinked + 1
             /\ \E d \in 0 .. n - 1, x \in 0 .. n - 1 :
                  /\ x = Probe(h, d, n) /\ fresh[x] = EMPTY_LINK
                  /\ fresh' = Put(fresh, x, relinked)
                  /\ d # 0 => fresh_collisions' = fresh_collisions + 1
                  /\ d = 0 => fresh_collisions' = fresh_collisions
<1> DEFINE n == call.to_size
           h == Hash[call.to_seed][entries[relinked].key]
<1>1. PICK d \in 0 .. n - 1 :
        /\ fresh[Probe(h, d, n)] = EMPTY_LINK
        /\ fresh' = Put(fresh, Probe(h, d, n), relinked)
        /\ fresh_collisions' = fresh_collisions + (IF d = 0 THEN 0 ELSE 1)
  BY DEF RelinkEntry, Put
<1>2. /\ n \in Nat /\ fresh \in [0 .. n - 1 -> Link] /\ pc = "relink"
      /\ call.to_seed \in Seed /\ relinked \in Nat /\ fresh_collisions \in Nat
  BY TypeFacts DEF RelinkEntry, IInv, TypeOK, CallType
<1>3. relinked < Word - 2 /\ relinked \in 0 .. entries_size - 1
  <2>1. alive_count \in 0 .. entries_size /\ relinked < alive_count
    BY <1>2 DEF RelinkEntry, IInv
  <2>2. entries_size \in Nat /\ entries_size < Word - 2 /\ Word \in Nat
    BY TypeFacts, Constants
  <2> HIDE DEF alive_count
  <2>3. QED BY <1>2, <2>1, <2>2
<1>4. relinked \in Link /\ IsLink(relinked)
  BY <1>2, <1>3, Constants DEF IsLink, Link
<1>5. h \in Nat
  BY <1>2, <1>3, TypeFacts, Constants
<1> DEFINE x == Probe(h, d, n)
<1> HIDE DEF h
<1>6. x \in 0 .. n - 1
  BY <1>2, <1>5, ProbeType
<1>7. /\ d # 0 => fresh_collisions' = fresh_collisions + 1
      /\ d = 0 => fresh_collisions' = fresh_collisions
  BY <1>1, <1>2
<1>8. UNCHANGED <<call, entries, pc>> /\ relinked' = relinked + 1
  BY DEF RelinkEntry, table
<1> HIDE DEF n
<1>9. \E e \in 0 .. n - 1, y \in 0 .. n - 1 :
        /\ y = Probe(h, e, n) /\ fresh[y] = EMPTY_LINK
        /\ fresh' = Put(fresh, y, relinked)
        /\ e # 0 => fresh_collisions' = fresh_collisions + 1
        /\ e = 0 => fresh_collisions' = fresh_collisions
  BY <1>1, <1>6, <1>7
<1>10. QED BY <1>2, <1>3, <1>4, <1>5, <1>8, <1>9 DEF n, h

\* relinking links one entry more
LEMMA RelinkEntryLinks == IInv /\ RelinkedLinks /\ RelinkEntry => RelinkedLinks'
<1> SUFFICES ASSUME IInv, RelinkedLinks, RelinkEntry PROVE RelinkedLinks'
  OBVIOUS
<1> DEFINE n == call.to_size
<1>1. PICK x \in 0 .. n - 1 : fresh[x] = EMPTY_LINK /\ fresh' = Put(fresh, x, relinked)
  BY RelinkSlot
<1>2. /\ n \in Nat /\ fresh \in [0 .. n - 1 -> Link] /\ pc = "relink" /\ relinked \in Nat
      /\ relinked \in Link /\ IsLink(relinked) /\ call' = call /\ relinked' = relinked + 1
  BY RelinkSlot
<1>3. ~IsLink(EMPTY_LINK)
  BY DEF IsLink
<1> HIDE DEF n
<1>4. Links(fresh', n) = (Links(fresh, n) \ {fresh[x]}) \cup {relinked}
  BY <1>1, <1>2, <1>3, LinksSet
<1>5. fresh[x] \notin Links(fresh, n)
  BY <1>1, <1>3 DEF Links
<1>6. Links(fresh', n) = 0 .. relinked
  BY <1>2, <1>4, <1>5 DEF RelinkedLinks, n
<1>7. Graves(fresh', n) = Graves(fresh, n) \ {x}
  <2>1. relinked # GRAVESTONE_LINK
    BY <1>2 DEF IsLink
  <2>2. QED BY <1>1, <1>2, <2>1, GravesPut
<1>8. QED BY <1>2, <1>6, <1>7 DEF RelinkedLinks, n

\* an empty linker links nothing
LEMMA CompactDoneLinks == IInv /\ CompactDone => RelinkedLinks'
<1> SUFFICES ASSUME IInv, CompactDone PROVE RelinkedLinks'
  OBVIOUS
<1>1. fresh' = [s \in 0 .. call.to_size - 1 |-> EMPTY_LINK] /\ call' = call
      /\ relinked' = 0
  BY DEF CompactDone, IInv
<1>2. Links(fresh', call.to_size) = {} /\ Graves(fresh', call.to_size) = {}
  <2>1. EMPTY_LINK # GRAVESTONE_LINK
    BY Constants
  <2>2. \A s \in 0 .. call.to_size - 1 :
          ~IsLink(fresh'[s]) /\ fresh'[s] # GRAVESTONE_LINK
    BY <1>1, <2>1 DEF IsLink
  <2>3. \A i \in Link : IsLink(i) => ~\E s \in 0 .. call.to_size - 1 : fresh'[s] = i
    BY <2>2
  <2>4. QED BY <2>2, <2>3 DEF Links, Graves
<1>3. Links(fresh', call'.to_size) = 0 .. relinked' - 1 /\ Graves(fresh', call'.to_size) = {}
  <2>1. call'.to_size = call.to_size /\ 0 .. relinked' - 1 = {}
    BY <1>1
  <2>2. QED BY <1>2, <2>1
<1>4. QED BY <1>3 DEF RelinkedLinks

\* and no other step works on it
LEMMA StepRelinkedLinks == IInv /\ RelinkedLinks /\ [Next]_vars => RelinkedLinks'
<1> SUFFICES ASSUME IInv, RelinkedLinks, [Next]_vars PROVE RelinkedLinks'
  OBVIOUS
<1>1. CASE UNCHANGED vars
  BY <1>1 DEF RelinkedLinks, vars, table, scratch
<1>2. CASE \/ \E k \in Key : Remove(k) \/ MarkRemoved(k)
           \/ Begins \/ Quiet \/ CompactMove \/ RelinkDone \/ FinishInsert
  <2>1. pc' # "relink"
    BY <1>2 DEF Remove, MarkRemoved, MarkRemovedCounting, Begins, Quiet, InRehash,
       CompactMove, RelinkDone, AfterRehash, FinishInsert, Overwrite, PushNew
  <2>2. QED BY <2>1 DEF RelinkedLinks
<1>3. QED BY <1>1, <1>2, NextCases, CompactDoneLinks, RelinkEntryLinks

\* the new linker is installed with a link to every marked entry
LEMMA RelinkDoneContents ==
  ASSUME IInv, IInv', RelinkedLinks, RelinkDone
  PROVE  UNCHANGED Contents
<1> DEFINE m == alive_count
<1>1. /\ pc = "relink" /\ relinked = m /\ linker' = fresh /\ linker_size' = call.to_size
      /\ entries' = [i \in 0 .. m - 1 |-> entries[i]]
      /\ pc' \in {"probe", "grow", "idle"}
  BY DEF RelinkDone, AfterRehash
<1>2. marks = 0 .. m - 1 /\ Links(fresh, call.to_size) = 0 .. m - 1
  BY <1>1 DEF IInv, RelinkedLinks
<1>3. Agree(0 .. m - 1, entries, entries')
  BY <1>1 DEF Agree
<1> HIDE DEF m
<1>4. Contents = Bag(0 .. m - 1, entries)
  BY <1>1, <1>2, RehashContents DEF InRehash
<1>5. Contents' = Bag(0 .. m - 1, entries')
  BY <1>1, <1>2, TableContentsNext DEF InRehash
<1>6. QED BY <1>3, <1>4, <1>5, BagSame

\* filling the new linker leaves the marks and the entries alone
LEMMA RelinkContents ==
  ASSUME CompactDone \/ RelinkEntry
  PROVE  UNCHANGED Contents
<1>1. InRehash /\ (InRehash)' /\ UNCHANGED <<marks, entries>>
  BY DEF CompactDone, RelinkEntry, InRehash, table
<1>2. QED BY <1>1, RehashContents, RehashContentsNext

\* a rehash begins with all linked entries marked
LEMMA BeginsContents ==
  ASSUME IInv, Begins
  PROVE  UNCHANGED Contents
<1>1. Contents' = Bag(LinkedEntries, entries)
  BY RehashContentsNext DEF Begins, InRehash, table
<1>2. LinkedEntries = Links(linker, linker_size)
  BY LinkedAreLinks DEF Begins, InRehash
<1>3. QED BY <1>1, <1>2, TableContents DEF Begins, InRehash

\* an insertion adds or sets the pair of its call
LEMMA FinishInsertContents ==
  ASSUME IInv, IInv', FinishInsert
  PROVE  /\ call.key \in Key /\ call.value \in Value
         /\ IF call.op = "add" THEN MM!Add(call.key, call.value)
                               ELSE SetPair(call.key, call.value)
<1>1. pc = "probe" /\ call.key \in Key /\ call.value \in Value
  BY TypeFacts DEF FinishInsert, CallType
<1>2. PICK d \in 0 .. linker_size - 1 : ProbeStopsAt(d) /\ (Overwrite(d) \/ PushNew(d))
  BY DEF FinishInsert
<1>3. CASE Overwrite(d)
  <2>1. call.op = "set" /\ SetPair(call.key, call.value)
    BY <1>1, <1>2, <1>3, OverwriteContents
  <2>2. QED BY <1>1, <2>1
<1>4. CASE PushNew(d)
  <2>1. MM!Add(call.key, call.value)
    BY <1>1, <1>4, PushNewContents
  <2>2. QED BY <1>1, <2>1 DEF SetPair
<1>5. QED BY <1>2, <1>3, <1>4

\* every step changes the bag as the operation called does, or leaves it alone
LEMMA StepAsCalled ==
  ASSUME IInv, IInv', RelinkedLinks, "entries" \notin Fails, [Next]_vars
  PROVE  BagAsCalled
<1>1. ASSUME NEW k \in Key, Remove(k) \/ MarkRemoved(k)
      PROVE  \E v \in Value : MM!Remove(k, v)
  BY <1>1, RemoveContents, MarkRemovedContents
<1>2. FinishInsert => IF call.op = "add" THEN MM!Add(call.key, call.value)
                                         ELSE SetPair(call.key, call.value)
  BY FinishInsertContents
<1>3. \/ UNCHANGED Contents
      \/ FinishInsert
      \/ \E k \in Key : Remove(k) \/ MarkRemoved(k)
  <2>1. CASE Begins
    BY <2>1, BeginsContents
  <2>2. CASE Quiet
    BY <2>2, TableContents, TableContentsNext DEF Quiet
  <2>3. CASE CompactMove
    BY <2>3, CompactMoveContents
  <2>4. CASE CompactDone \/ RelinkEntry
    BY <2>4, RelinkContents
  <2>5. CASE RelinkDone
    BY <2>5, RelinkDoneContents
  <2>6. CASE UNCHANGED vars
    BY <2>6 DEF Contents, LiveEntries, InRehash, LinkedEntries, Slots, vars, table, scratch
  <2>7. QED BY <2>1, <2>2, <2>3, <2>4, <2>5, <2>6, NextCases
<1>4. QED BY <1>1, <1>2, <1>3 DEF BagAsCalled

\* so every step is one of the multimap or leaves it alone
LEMMA StepContents ==
  ASSUME IInv, IInv', BagAsCalled
  PROVE  [MM!Next]_Contents
<1>1. CASE \E k \in Key : Remove(k) \/ MarkRemoved(k)
  <2>1. PICK k \in Key : Remove(k) \/ MarkRemoved(k)
    BY <1>1
  <2>2. PICK v \in Value : MM!Remove(k, v)
    BY <2>1 DEF BagAsCalled
  <2>3. QED BY <2>2 DEF MM!Next
<1>2. CASE FinishInsert
  <2>1. /\ call.key \in Key /\ call.value \in Value
        /\ MM!Add(call.key, call.value) \/ SetPair(call.key, call.value)
    BY <1>2, FinishInsertContents
  <2>2. CASE MM!Add(call.key, call.value)
    BY <2>1, <2>2 DEF MM!Next
  <2>3. CASE \E w \in Value : MM!Replace(call.key, w, call.value)
    BY <2>1, <2>3 DEF MM!Next
  <2>4. QED BY <2>1, <2>2, <2>3 DEF SetPair
<1>3. QED BY <1>1, <1>2 DEF BagAsCalled

\* a table that has just been made holds nothing
LEMMA InitContents == Init => MM!Init
<1> SUFFICES ASSUME Init PROVE MM!Init
  OBVIOUS
<1>1. LiveEntries = {}
  <2>1. pc = "idle" /\ Slots = {}
    BY DEF Init, Slots
  <2>2. QED BY <2>1 DEF LiveEntries, LinkedEntries, InRehash
<1>2. ASSUME NEW p \in Key \X Value
      PROVE  Cardinality({i \in LiveEntries : entries[i] = [key |-> p[1], value |-> p[2]]}) = 0
  <2>1. {i \in LiveEntries : entries[i] = [key |-> p[1], value |-> p[2]]} = {}
    BY <1>1
  <2>2. QED BY <2>1, FS_EmptySet
<1>3. QED BY <1>2 DEF Contents, MM!Init

\* the table refines a bag of key-value pairs: every call adds, removes or
\* replaces the pair it is asked to and no other, and no rehash or reservation
\* changes the bag, as long as the allocation of the entries does not fail
THEOREM Refinement == "entries" \notin Fails => (Spec => IsMultiMap)
<1> SUFFICES ASSUME "entries" \notin Fails PROVE Spec => IsMultiMap
  OBVIOUS
<1>1. Init => IInv /\ RelinkedLinks
  BY InitIInv DEF Init, RelinkedLinks
<1>2. IInv /\ RelinkedLinks /\ [Next]_vars
      => IInv' /\ RelinkedLinks' /\ BagAsCalled /\ [MM!Next]_Contents
  BY StepIInv, StepRelinkedLinks, StepAsCalled, StepContents
<1>3. QED BY <1>1, <1>2, InitContents, PTL DEF Spec, IsMultiMap, MM!Spec

-----------------------------------------------------------------------------
(* Without mark_removed the arrays hold live entries only *)

\* every entry is linked, also by the marks of a rehash
AllLinked ==
  /\ ~InRehash => Links(linker, linker_size) = 0 .. entries_size - 1
  /\ InRehash => marks = 0 .. entries_size - 1

\* no removal leaves a dead entry behind, and no other step makes one
LEMMA StepAllLinked ==
  ASSUME IInv, RelinkedLinks, AllLinked, "mark" \notin Ops, [Next]_vars
  PROVE  AllLinked'
<1>1. ASSUME NEW k \in Key, Remove(k) PROVE AllLinked'
  <2> DEFINE L == Links(linker, linker_size)
             last == entries_size - 1
  <2>1. PICK i \in L :
          \/ /\ i = last /\ Links(linker', linker_size) = L \ {i}
             /\ entries_size' = last
          \/ /\ i # last /\ last \in L
             /\ Links(linker', linker_size) = ((L \ {i}) \ {last}) \cup {i}
             /\ entries_size' = last
          \/ last \notin L
    BY <1>1, RemoveCases
  <2>2. /\ pc = "idle" /\ pc' = pc /\ linker_size' = linker_size
    BY <1>1 DEF Remove
  <2>3. L = 0 .. last /\ entries_size \in Nat
    BY <2>2, TypeFacts DEF AllLinked, InRehash
  <2> HIDE DEF L
  <2>4. last \in L /\ entries_size' = last /\ Links(linker', linker_size) = L \ {last}
    BY <2>1, <2>3
  <2>5. Links(linker', linker_size') = 0 .. entries_size' - 1
    BY <2>2, <2>3, <2>4
  <2>6. QED BY <2>2, <2>5 DEF AllLinked, InRehash
<1>2. ASSUME NEW k \in Key, MarkRemoved(k) PROVE FALSE
  BY <1>2 DEF MarkRemoved, MarkRemovedCounting
<1>3. CASE Begins
  <2>1. LinkedEntries = 0 .. entries_size - 1
    BY <1>3, LinkedAreLinks DEF Begins, AllLinked, InRehash
  <2>2. QED BY <1>3, <2>1 DEF Begins, AllLinked, InRehash, table
<1>4. CASE Quiet
  BY <1>4 DEF Quiet, AllLinked
<1>5. CASE CompactMove
  BY <1>5 DEF CompactMove, Holes, AllLinked, InRehash
<1>6. CASE CompactDone \/ RelinkEntry
  BY <1>6 DEF CompactDone, RelinkEntry, AllLinked, InRehash, table
<1>7. CASE RelinkDone
  <2>1. /\ linker' = fresh /\ linker_size' = call.to_size /\ entries_size' = relinked
        /\ pc = "relink" /\ (~InRehash)'
    BY <1>7 DEF RelinkDone, AfterRehash, InRehash
  <2>2. QED BY <2>1 DEF AllLinked, RelinkedLinks
<1>8. CASE FinishInsert
  <2>1. ASSUME NEW d \in 0 .. linker_size - 1, Overwrite(d), pc = "probe" PROVE AllLinked'
    BY <2>1 DEF Overwrite, AllLinked, InRehash
  <2>2. ASSUME NEW d \in 0 .. linker_size - 1, PushNew(d), pc = "probe" PROVE AllLinked'
    <3>1. /\ Links(linker', linker_size') = Links(linker, linker_size) \cup {entries_size}
          /\ entries_size' = entries_size + 1 /\ pc' = "idle"
      BY <2>2, PushNewLinks
    <3>2. Links(linker, linker_size) = 0 .. entries_size - 1 /\ entries_size \in Nat
      BY <2>2, TypeFacts DEF AllLinked, InRehash
    <3>3. Links(linker', linker_size') = 0 .. entries_size' - 1
      BY <3>1, <3>2
    <3>4. QED BY <3>1, <3>3 DEF AllLinked, InRehash
  <2>3. QED BY <1>8, <2>1, <2>2 DEF FinishInsert
<1>9. CASE UNCHANGED vars
  BY <1>9 DEF AllLinked, InRehash, vars, table, scratch
<1>10. QED BY <1>1, <1>2, <1>3, <1>4, <1>5, <1>6, <1>7, <1>8, <1>9, NextCases

\* an empty table has no entries
LEMMA InitAllLinked == Init => AllLinked
<1> SUFFICES ASSUME Init PROVE AllLinked
  OBVIOUS
<1>1. linker_size = 0 /\ entries_size = 0 /\ pc = "idle"
  BY DEF Init
<1>2. QED BY <1>1 DEF AllLinked, InRehash, Links

\* as long as no client uses mark_removed keys(table) and values(table) list
\* live entries only: every removal finds the link of the last entry
THEOREM EntriesAllLive == "mark" \notin Ops => (Spec => []NoDeadEntries)
<1> SUFFICES ASSUME "mark" \notin Ops PROVE Spec => []NoDeadEntries
  OBVIOUS
<1>1. Init => IInv /\ RelinkedLinks /\ AllLinked
  BY InitIInv, InitAllLinked DEF Init, RelinkedLinks
<1>2. IInv /\ RelinkedLinks /\ AllLinked /\ [Next]_vars => (IInv /\ RelinkedLinks /\ AllLinked)'
  BY StepIInv, StepRelinkedLinks, StepAllLinked
<1>3. IInv /\ AllLinked => NoDeadEntries
  BY LinkedAreLinks DEF AllLinked, NoDeadEntries, DeadEntries
<1>4. QED BY <1>1, <1>2, <1>3, PTL DEF Spec

-----------------------------------------------------------------------------
(* The gravestone counter *)

\* adding an element to a finite set
LEMMA CardAdd ==
  ASSUME NEW S, IsFiniteSet(S), NEW x, x \notin S
  PROVE  Cardinality(S) \in Nat /\ Cardinality(S \cup {x}) = Cardinality(S) + 1
BY FS_AddElement, FS_CardinalityType

\* taking an element out of a finite set
LEMMA CardDrop ==
  ASSUME NEW S, IsFiniteSet(S), NEW x \in S
  PROVE  /\ Cardinality(S) \in Nat /\ Cardinality(S \ {x}) \in Nat
         /\ Cardinality(S \ {x}) = Cardinality(S) - 1
BY FS_RemoveElement, FS_CardinalityType

\* a part of a finite set that is taken away takes its size away
LEMMA CardWithout ==
  ASSUME NEW S, IsFiniteSet(S), NEW T \in SUBSET S
  PROVE  IsFiniteSet(S \ T) /\ Cardinality(S \ T) = Cardinality(S) - Cardinality(T)
<1>1. S \cap T = T
  OBVIOUS
<1>2. IsFiniteSet(S \ T) /\ Cardinality(S \ T) = Cardinality(S) - Cardinality(S \cap T)
  BY FS_Difference
<1>3. QED BY <1>1, <1>2

\* a number that does not overflow
LEMMA NoWrap ==
  ASSUME NEW x \in Nat, x < Word PROVE x % Word = x
<1>1. Word \in Nat \ {0} /\ x \in 0 .. Word - 1
  BY Constants
<1>2. QED BY <1>1, ModNear

\* there are at most as many gravestones as slots
LEMMA GravesFinite ==
  ASSUME NEW n \in Nat, NEW lk
  PROVE  /\ IsFiniteSet(Graves(lk, n))
         /\ Cardinality(Graves(lk, n)) \in Nat /\ Cardinality(Graves(lk, n)) <= n
<1>1. Graves(lk, n) \in SUBSET (0 .. n - 1)
  BY DEF Graves
<1>2. IsFiniteSet(0 .. n - 1) /\ Cardinality(0 .. n - 1) = n
  BY FS_Interval
<1>3. QED BY <1>1, <1>2, FS_Subset, FS_CardinalityType

\* gc counts the gravestones of a linker for m entries, and some of the m
\* entries it does not link
Bounds(lk, n, m, gc) ==
  /\ Cardinality(Graves(lk, n)) <= gc
  /\ gc + Cardinality(Links(lk, n)) <= Cardinality(Graves(lk, n)) + m

GravesBound == ~InRehash => Bounds(linker, linker_size, entries_size, gravestone_count)

\* the slots and the entries together are fewer than there are uint32_t values
SmallTable == linker_size + entries_size < Word

\* the removals count what they unlink, the insertions what they reuse, and a
\* rehash starts from nothing
LEMMA StepGravesBound ==
  ASSUME IInv, RelinkedLinks, GravesBound, SmallTable, [Next]_vars
  PROVE  GravesBound'
<1> DEFINE n == linker_size
           L == Links(linker, n)
           G == Graves(linker, n)
           c == gravestone_count
<1>1. ASSUME ~InRehash
      PROVE  /\ IsFiniteSet(L) /\ IsFiniteSet(G) /\ Cardinality(L) \in Nat
             /\ Cardinality(G) \in Nat /\ Cardinality(G) <= c
             /\ c + Cardinality(L) <= Cardinality(G) + entries_size
  <2>1. IsFiniteSet(L) /\ Cardinality(L) \in Nat
    BY <1>1, LinksFacts, FS_CardinalityType
  <2>2. IsFiniteSet(G) /\ Cardinality(G) \in Nat
    BY TypeFacts, GravesFinite
  <2>3. QED BY <1>1, <2>1, <2>2 DEF GravesBound, Bounds
<1>2. c \in Nat /\ n \in Nat /\ entries_size \in Nat /\ n + entries_size < Word
  BY TypeFacts, Constants DEF SmallTable, Link
<1>3. ASSUME Bounds(linker', linker_size', entries_size', gravestone_count')
      PROVE  GravesBound'
  BY <1>3 DEF GravesBound, Bounds
<1>4. ASSUME NEW k \in Key, NEW s, NEW i \in L, ~InRehash,
             s \notin G, Graves(linker', n) = G \cup {s},
             Cardinality(Links(linker', n)) = Cardinality(L) - 1,
             NEW j \in {1, 2}, c' = (c + j) % Word,
             entries_size' = entries_size \/ (entries_size' = entries_size - 1 /\ j = 1),
             linker_size' = n, pc' = "idle"
      PROVE  GravesBound'
  <2>1. Cardinality(G \cup {s}) = Cardinality(G) + 1
    BY <1>1, <1>4, CardAdd
  <2>2. Cardinality(G \cup {s}) \in Nat /\ Cardinality(G \cup {s}) <= n
    BY <1>2, <1>4, GravesFinite
  <2>3. Cardinality(L) > 0
    <3>1. IsFiniteSet(L) /\ i \in L /\ Cardinality(L) \in Nat
      BY <1>1, <1>4
    <3> HIDE DEF L
    <3>2. Cardinality(L) = Cardinality(L \ {i}) + 1 /\ Cardinality(L \ {i}) \in Nat
      BY <3>1, CardDrop
    <3>3. QED BY <3>2
  <2>4. entries_size' \in Nat
    <3>1. entries_size > 0
      BY <1>4, <1>2, LinksFacts
    <3>2. QED BY <1>2, <1>4, <3>1
  <2> HIDE DEF L, G, n, c
  <2>5. /\ Cardinality(G \cup {s}) <= c'
        /\ c' + (Cardinality(L) - 1) <= Cardinality(G \cup {s}) + entries_size'
    <3>1. /\ Cardinality(G) \in Nat /\ Cardinality(L) \in Nat /\ Cardinality(G) <= c
          /\ c + Cardinality(L) <= Cardinality(G) + entries_size
      BY <1>1, <1>4
    <3>2. c + j + (Cardinality(L) - 1) <= Cardinality(G \cup {s}) + entries_size'
      BY <1>2, <1>4, <2>1, <3>1
    <3>3. c + j \in Nat /\ c + j < Word
      <4>1. c + j <= n + entries_size
        BY <1>2, <1>4, <2>1, <2>2, <2>3, <2>4, <3>1, <3>2
      <4>2. QED BY <1>2, <4>1, Constants
    <3>4. c' = c + j
      BY <1>4, <3>3, NoWrap
    <3>5. QED BY <1>2, <2>1, <3>1, <3>2, <3>4
  <2>6. Bounds(linker', n, entries_size', c')
    BY <1>4, <2>5 DEF Bounds
  <2>7. QED BY <1>3, <1>4, <2>6 DEF c
<1>5. ASSUME NEW k \in Key, Remove(k) PROVE GravesBound'
  <2> DEFINE last == entries_size - 1
  <2>1. PICK s \in 0 .. n - 1, i \in L :
          /\ s \notin G /\ Graves(linker', n) = G \cup {s}
          /\ \/ Links(linker', n) = L \ {i} /\ entries_size' = last
             \/ /\ i # last /\ last \in L /\ entries_size' = last
                /\ Links(linker', n) = ((L \ {i}) \ {last}) \cup {i}
             \/ Links(linker', n) = L \ {i} /\ entries_size' = entries_size
    BY <1>5, RemoveCases
  <2>2. ~InRehash /\ pc' = "idle" /\ linker_size' = n /\ c' = (c + 1) % Word
    BY <1>5 DEF Remove, InRehash
  <2>3. PICK l \in L : Links(linker', n) = L \ {l}
    <3>1. CASE Links(linker', n) = L \ {i}
      BY <3>1
    <3>2. CASE /\ i # last /\ last \in L
               /\ Links(linker', n) = ((L \ {i}) \ {last}) \cup {i}
      <4>1. Links(linker', n) = L \ {last}
        BY <3>2
      <4>2. QED BY <3>2, <4>1
    <3>3. QED BY <2>1, <3>1, <3>2
  <2>4. Cardinality(Links(linker', n)) = Cardinality(L) - 1
    BY <1>1, <2>2, <2>3, CardDrop
  <2>5. entries_size' = entries_size \/ entries_size' = entries_size - 1
    BY <2>1
  <2> HIDE DEF L, G, n, c
  <2>6. QED BY <1>4, <2>1, <2>2, <2>4, <2>5
<1>6. ASSUME NEW k \in Key, MarkRemoved(k) PROVE GravesBound'
  <2>1. PICK s \in 0 .. n - 1, i \in L :
          /\ s \notin G /\ Graves(linker', n) = G \cup {s}
          /\ Links(linker', n) = L \ {i}
    BY <1>6, MarkRemovedCases
  <2>2. /\ ~InRehash /\ pc' = "idle" /\ linker_size' = n /\ c' = (c + 2) % Word
        /\ entries_size' = entries_size
    BY <1>6 DEF MarkRemoved, MarkRemovedCounting, InRehash
  <2>3. Cardinality(Links(linker', n)) = Cardinality(L) - 1
    BY <1>1, <2>1, <2>2, CardDrop
  <2> HIDE DEF L, G, n, c
  <2>4. QED BY <1>4, <2>1, <2>2, <2>3
<1>7. CASE Begins \/ CompactMove \/ CompactDone \/ RelinkEntry
  BY <1>7 DEF Begins, CompactMove, CompactDone, RelinkEntry, GravesBound, InRehash
<1>8. CASE Quiet
  BY <1>8 DEF Quiet, GravesBound, InRehash
<1>9. CASE RelinkDone
  <2>1. /\ linker' = fresh /\ linker_size' = call.to_size /\ entries_size' = relinked
        /\ gravestone_count' = 0 /\ pc = "relink"
    BY <1>9 DEF RelinkDone
  <2>2. Graves(linker', linker_size') = {} /\ Links(linker', linker_size') = 0 .. relinked - 1
    BY <2>1 DEF RelinkedLinks
  <2>3. relinked \in Nat
    BY <2>1, TypeFacts DEF IInv, TypeOK
  <2>4. Cardinality({}) = 0 /\ Cardinality(0 .. relinked - 1) = relinked
    BY <2>3, FS_EmptySet, FS_Interval
  <2>5. Bounds(linker', linker_size', entries_size', gravestone_count')
    BY <2>1, <2>2, <2>3, <2>4 DEF Bounds
  <2>6. QED BY <1>3, <2>1, <2>5
<1>10. CASE FinishInsert
  <2>1. ASSUME NEW d \in 0 .. linker_size - 1, Overwrite(d), pc = "probe" PROVE GravesBound'
    BY <2>1 DEF Overwrite, GravesBound, InRehash
  <2>2. ASSUME NEW d \in 0 .. linker_size - 1, PushNew(d), pc = "probe" PROVE GravesBound'
    <3> DEFINE m == entries_size
    <3>1. /\ Links(linker', n) = L \cup {m} /\ m \notin L
          /\ entries_size' = m + 1 /\ pc' = "idle" /\ linker_size' = n
          /\ \/ Graves(linker', n) = G /\ c' = c
             \/ \E x \in G : Graves(linker', n) = G \ {x} /\ c' = Sub(c, 1)
      BY <2>2, PushNewLinks
    <3>2. ~InRehash
      BY <2>2 DEF InRehash
    <3>3. Cardinality(Links(linker', n)) = Cardinality(L) + 1
      BY <1>1, <3>1, <3>2, CardAdd
    <3>4. CASE Graves(linker', n) = G /\ c' = c
      <4> HIDE DEF L, G, n, c, m
      <4>1. Bounds(linker', n, m + 1, c)
        BY <1>1, <1>2, <3>2, <3>3, <3>4 DEF Bounds, m
      <4>2. QED BY <1>3, <3>1, <3>4, <4>1 DEF c
    <3>5. ASSUME NEW x \in G, Graves(linker', n) = G \ {x}, c' = Sub(c, 1) PROVE GravesBound'
      <4>1. Cardinality(G \ {x}) = Cardinality(G) - 1 /\ Cardinality(G \ {x}) \in Nat
        BY <1>1, <3>2, CardDrop
      <4>2. c - 1 \in Nat /\ c - 1 < Word
        <5>1. c \in Link
          BY TypeFacts
        <5> HIDE DEF L, G, n, c
        <5>2. QED BY <1>1, <1>2, <3>2, <4>1, <5>1, Constants DEF Link
      <4>3. c' = c - 1
        BY <3>5, <4>2, NoWrap DEF Sub
      <4> HIDE DEF L, G, n, c, m
      <4>4. Bounds(linker', n, m + 1, c')
        BY <1>1, <1>2, <3>2, <3>3, <3>5, <4>1, <4>3 DEF Bounds, m
      <4>5. QED BY <1>3, <3>1, <4>4 DEF c
    <3>6. QED BY <3>1, <3>4, <3>5
  <2>3. QED BY <1>10, <2>1, <2>2 DEF FinishInsert
<1>11. CASE UNCHANGED vars
  BY <1>11 DEF GravesBound, InRehash, vars, table, scratch
<1>12. QED
  BY <1>5, <1>6, <1>7, <1>8, <1>9, <1>10, <1>11, NextCases

\* an empty table has no gravestones and its counter is 0
LEMMA InitGravesBound == Init => GravesBound
<1> SUFFICES ASSUME Init PROVE GravesBound
  OBVIOUS
<1>1. linker_size = 0 /\ entries_size = 0 /\ gravestone_count = 0 /\ pc = "idle"
  BY DEF Init
<1>2. Graves(linker, linker_size) = {} /\ Links(linker, linker_size) = {}
  BY <1>1 DEF Graves, Links
<1>3. QED BY <1>1, <1>2, FS_EmptySet DEF GravesBound, Bounds

\* _gravestone_count is never less than the gravestones in the linker, which
\* unsafe_rehash asserts, nor more than those and the dead entries together, as
\* long as the slots and the entries are fewer than 2^32
THEOREM GravestonesAreCounted == Spec /\ []SmallTable => []GravestonesCounted
<1>1. Init => IInv /\ RelinkedLinks /\ GravesBound
  BY InitIInv, InitGravesBound DEF Init, RelinkedLinks
<1>2. IInv /\ RelinkedLinks /\ GravesBound /\ SmallTable /\ [Next]_vars
        => (IInv /\ RelinkedLinks /\ GravesBound)'
  BY StepIInv, StepRelinkedLinks, StepGravesBound
<1>3. IInv /\ GravesBound => GravestonesCounted
  <2> SUFFICES ASSUME IInv, GravesBound, ~InRehash
               PROVE  /\ Cardinality(Gravestones) <= gravestone_count
                      /\ gravestone_count
                           <= Cardinality(Gravestones) + Cardinality(DeadEntries)
    BY DEF GravestonesCounted
  <2> DEFINE E == 0 .. entries_size - 1
             L == Links(linker, linker_size)
  <2>1. Gravestones = Graves(linker, linker_size)
    BY DEF Gravestones, Graves, Slots
  <2>2. DeadEntries = E \ L /\ L \subseteq E /\ IsFiniteSet(L)
    BY LinkedAreLinks DEF DeadEntries
  <2>3. IsFiniteSet(E) /\ Cardinality(E) = entries_size /\ E \cap L = L
    <3>1. entries_size \in Nat /\ 0 \in Int /\ entries_size - 1 \in Int
      BY TypeFacts
    <3>2. IsFiniteSet(E) /\ Cardinality(E) = entries_size
      BY <3>1, FS_Interval
    <3>3. QED BY <2>2, <3>2
  <2>4. Cardinality(E \ L) = entries_size - Cardinality(L)
    <3> HIDE DEF E, L
    <3>1. L \in SUBSET E
      BY <2>2
    <3>2. QED BY <2>3, <3>1, CardWithout
  <2>5. /\ Cardinality(L) \in Nat /\ Cardinality(Gravestones) \in Nat
        /\ gravestone_count \in Nat /\ entries_size \in Nat
    BY <2>1, <2>2, TypeFacts, Constants, GravesFinite, FS_CardinalityType DEF Link
  <2> HIDE DEF E, L
  <2>6. /\ Cardinality(Gravestones) <= gravestone_count
        /\ gravestone_count + Cardinality(L) <= Cardinality(Gravestones) + entries_size
    BY <2>1 DEF GravesBound, Bounds, L
  <2>7. QED BY <2>2, <2>4, <2>5, <2>6
<1>4. QED BY <1>1, <1>2, <1>3, PTL DEF Spec

-----------------------------------------------------------------------------
(* Without mark_removed insertions and rehashes have the room they need *)

\* every slot is probed from every hash value
LEMMA ProbeReaches ==
  ASSUME NEW n \in Nat, NEW h \in Nat, NEW s \in 0 .. n - 1
  PROVE  \E d \in 0 .. n - 1 : s = Probe(h, d, n)
BY ModReaches DEF Probe

\* links and gravestones take a slot each
LEMMA SlotsShared ==
  ASSUME NEW n \in Nat, NEW lk, IsFiniteSet(Links(lk, n))
  PROVE  Cardinality(Links(lk, n)) + Cardinality(Graves(lk, n)) <= n
<1> DEFINE L == Links(lk, n)
           G == Graves(lk, n)
           T == (0 .. n - 1) \ G
           f == [i \in L |-> CHOOSE s \in 0 .. n - 1 : lk[s] = i]
<1>1. \A i \in L : f[i] \in 0 .. n - 1 /\ lk[f[i]] = i /\ IsLink(i)
  BY DEF Links
<1>2. IsFiniteSet(G) /\ Cardinality(G) \in Nat /\ G \subseteq 0 .. n - 1
  BY GravesFinite DEF Graves
<1>3. IsFiniteSet(T) /\ Cardinality(T) = n - Cardinality(G)
  <2>1. IsFiniteSet(0 .. n - 1) /\ Cardinality(0 .. n - 1) = n
    BY FS_Interval
  <2>2. G \in SUBSET (0 .. n - 1)
    BY <1>2
  <2> HIDE DEF G
  <2>3. /\ IsFiniteSet((0 .. n - 1) \ G)
        /\ Cardinality((0 .. n - 1) \ G) = Cardinality(0 .. n - 1) - Cardinality(G)
    BY <2>1, <2>2, CardWithout
  <2>4. QED BY <2>1, <2>3
<1>4. f \in [L -> T]
  <2>1. \A i \in L : f[i] \notin G
    BY <1>1 DEF Graves, IsLink
  <2>2. \A i \in L : f[i] \in T
    BY <1>1, <2>1
  <2>3. f = [i \in L |-> f[i]]
    OBVIOUS
  <2> HIDE DEF f, T
  <2>4. QED BY <2>2, <2>3
<1>5. \A i, j \in L : f[i] = f[j] => i = j
  BY <1>1
<1>6. Cardinality(L) \in Nat
  BY FS_CardinalityType
<1> HIDE DEF L, G, T, f
<1>7. IsFiniteSet(L)
  BY DEF L
<1>8. ~(Cardinality(T) < Cardinality(L))
  BY <1>3, <1>4, <1>5, <1>7, FS_PigeonHole
<1>9. Cardinality(L) + Cardinality(G) <= n
  BY <1>2, <1>3, <1>6, <1>8
<1>10. QED BY <1>9 DEF L, G

\* the growth of the linker makes sense: it must not get over-full, reserve does
\* not divide by zero, a linker without gravestones is not cleaned, and the
\* first one has some slots
GrowthSane ==
  /\ Growth.full_num > 0 /\ Growth.full_num <= Growth.full_den
  /\ Growth.grave_num > 0 /\ Growth.base_size > 0

\* the uint32_t arithmetic that decides about a rehash does not overflow
ArithmeticFits ==
  /\ SmallTable /\ 2 * linker_size < Word
  /\ linker_size * Growth.full_num < Word /\ entries_size * Growth.full_den < Word
  /\ linker_size * Growth.grave_num < Word /\ linker_size * Growth.grave_den < Word

\* there is a free slot for the insertion under way, also in the linker a
\* rehash is going to install, which has a slot for every entry
Room ==
  /\ InRehash => entries_size <= call.to_size
  /\ InRehash /\ call.op \in {"set", "add"} => entries_size < call.to_size
  /\ pc = "probe" => entries_size < linker_size

\* gravestone_count is exact, and every slot is empty, a gravestone or a link
LEMMA SlotsCounted ==
  ASSUME IInv, AllLinked, GravesBound, ~InRehash
  PROVE  entries_size + gravestone_count <= linker_size
<1> DEFINE L == Links(linker, linker_size)
<1>1. L = 0 .. entries_size - 1 /\ entries_size \in Nat /\ IsFiniteSet(L)
  BY LinksFacts, TypeFacts DEF AllLinked
<1>2. Cardinality(L) = entries_size
  BY <1>1, FS_Interval
<1>3. /\ Cardinality(L) + Cardinality(Graves(linker, linker_size)) <= linker_size
      /\ Cardinality(Graves(linker, linker_size)) \in Nat
  BY <1>1, TypeFacts, SlotsShared, GravesFinite
<1>4. gravestone_count + Cardinality(L)
        <= Cardinality(Graves(linker, linker_size)) + entries_size
  BY DEF GravesBound, Bounds
<1> HIDE DEF L
<1>5. gravestone_count \in Nat /\ linker_size \in Nat
  BY TypeFacts, Constants DEF Link
<1>6. QED BY <1>1, <1>2, <1>3, <1>4, <1>5

\* multiplication keeps the order of natural numbers
LEMMA TimesOrder ==
  ASSUME NEW a \in Nat, NEW b \in Nat, NEW c \in Nat, NEW d \in Nat, a <= b, c <= d
  PROVE  a * c \in Nat /\ a * c <= b * d
<1>1. a * c \in Nat /\ b * c \in Nat /\ b * d \in Nat
  OBVIOUS
<1>2. a * c <= b * c
  <2>1. (b - a) * c \in Nat
    <3>1. b - a \in Nat
      OBVIOUS
    <3>2. QED BY <3>1
  <2>2. (b - a) * c = b * c - a * c
    OBVIOUS
  <2>3. QED BY <1>1, <2>1, <2>2
<1>3. b * c <= b * d
  <2>1. b * (d - c) \in Nat
    <3>1. d - c \in Nat
      OBVIOUS
    <3>2. QED BY <3>1
  <2>2. b * (d - c) = b * d - b * c
    OBVIOUS
  <2>3. QED BY <1>1, <2>1, <2>2
<1>4. QED BY <1>1, <1>2, <1>3

\* the parameters of the growth policy are natural numbers
LEMMA GrowthType ==
  /\ Growth.full_num \in Nat /\ Growth.full_den \in Nat /\ Growth.base_size \in Nat
  /\ Growth.grave_num \in Nat /\ Growth.grave_den \in Nat
BY GrowthAssumption

\* a linker that is not over-full has a free slot
LEMMA NotOverfull ==
  ASSUME IInv, AllLinked, GravesBound, ~InRehash, GrowthSane, ArithmeticFits, ~Overfull
  PROVE  entries_size < linker_size
<1> DEFINE x == linker_size - gravestone_count
           fn == Growth.full_num
           fd == Growth.full_den
<1>1. /\ entries_size \in Nat /\ linker_size \in Nat /\ gravestone_count \in Nat
      /\ entries_size + gravestone_count <= linker_size
      /\ fn \in Nat /\ fd \in Nat /\ fn <= fd
  BY SlotsCounted, TypeFacts, Constants, GrowthType DEF Link, GrowthSane
<1>2. x \in Nat /\ entries_size <= x /\ x <= linker_size /\ x < Word
  BY <1>1, Constants DEF ArithmeticFits, SmallTable
<1>3. linker_size * fn < Word /\ entries_size * fd < Word
  BY DEF ArithmeticFits
<1>4. Sub(linker_size, gravestone_count) = x
  BY <1>2, NoWrap DEF Sub
<1> HIDE DEF x, fn, fd
<1>5. x * fn \in Nat /\ x * fn <= linker_size * fn /\ x * fn < Word
  <2>1. x * fn \in Nat /\ x * fn <= linker_size * fn
    BY <1>1, <1>2, TimesOrder
  <2>2. linker_size * fn \in Nat /\ Word \in Nat
    BY <1>1, Constants
  <2>3. QED BY <1>3, <2>1, <2>2
<1>6. entries_size * fd \in Nat
  BY <1>1
<1>7. Mul(x, fn) = x * fn /\ Mul(entries_size, fd) = entries_size * fd
  BY <1>3, <1>5, <1>6, NoWrap DEF Mul
<1>8. ~(x * fn <= entries_size * fd)
  BY <1>4, <1>7 DEF Overfull, fn, fd
<1>9. ASSUME x <= entries_size PROVE FALSE
  BY <1>1, <1>2, <1>8, <1>9, TimesOrder
<1>10. QED BY <1>1, <1>2, <1>9

\* the linker an insertion asks for has a slot more than there are entries
LEMMA GrownSizeFits ==
  ASSUME IInv, AllLinked, GravesBound, ~InRehash, GrowthSane, ArithmeticFits
  PROVE  entries_size < GrownSize
<1> DEFINE n == linker_size
           gn == Growth.grave_num
           gd == Growth.grave_den
<1>1. /\ entries_size \in Nat /\ n \in Nat /\ gravestone_count \in Nat
      /\ entries_size + gravestone_count <= n
      /\ gn \in Nat /\ gd \in Nat /\ gn > 0
      /\ Growth.base_size \in Nat /\ Growth.base_size > 0
  BY SlotsCounted, TypeFacts, Constants, GrowthType DEF Link, GrowthSane
<1>2. n * gn < Word /\ n * gd < Word /\ 2 * n < Word
  BY DEF ArithmeticFits
<1>3. CASE n = 0
  <2>1. Mul(0, 2) = 0
    BY Constants, NoWrap DEF Mul
  <2>2. GrownSize = Growth.base_size
    BY <1>3, <2>1 DEF GrownSize
  <2>3. QED BY <1>1, <1>3, <2>2
<1>4. CASE n # 0 /\ ~TooManyGravestones
  <2>1. n * 2 \in Nat /\ n * 2 < Word
    BY <1>1, <1>2
  <2>2. Mul(n, 2) = n * 2
    BY <2>1, NoWrap DEF Mul
  <2>3. GrownSize = n * 2
    BY <1>1, <1>4, <2>2 DEF GrownSize
  <2> HIDE DEF n
  <2>4. QED BY <1>1, <1>4, <2>3
<1>5. CASE n # 0 /\ TooManyGravestones
  <2> HIDE DEF n, gn, gd
  <2>1. n * gn \in Nat /\ 1 <= n * gn
    BY <1>1, <1>5, TimesOrder
  <2>2. Mul(n, gn) = n * gn
    BY <1>2, <2>1, NoWrap DEF Mul
  <2>3. gravestone_count * gd \in Nat /\ gravestone_count * gd < Word
    <3>1. gravestone_count * gd \in Nat /\ gravestone_count * gd <= n * gd
      BY <1>1, TimesOrder
    <3>2. n * gd \in Nat /\ Word \in Nat
      BY <1>1, Constants
    <3>3. QED BY <1>2, <3>1, <3>2
  <2>4. Mul(gravestone_count, gd) = gravestone_count * gd
    BY <2>3, NoWrap DEF Mul
  <2>5. gravestone_count * gd >= n * gn
    BY <1>5, <2>2, <2>4 DEF TooManyGravestones, n, gn, gd
  <2>6. gravestone_count > 0
    <3>1. gravestone_count = 0 => gravestone_count * gd = 0
      BY <1>1
    <3>2. QED BY <1>1, <2>1, <2>3, <2>5, <3>1
  <2>7. GrownSize = n
    BY <1>5 DEF GrownSize, n
  <2>8. QED BY <1>1, <2>6, <2>7
<1>6. QED BY <1>3, <1>4, <1>5

\* a rehash begins with a linker for all entries, and for one more in an insertion
LEMMA BeginRehashRoom ==
  ASSUME pc = "idle", NEW c \in CallType, NEW n \in Nat, NEW sd, BeginRehash(c, n, sd),
         entries_size <= n, c.op \in {"set", "add"} => entries_size < n
  PROVE  Room'
<1>1. CASE /\ pc' = "compact" /\ UNCHANGED table
           /\ call' = [c EXCEPT !.to_size = n, !.to_seed = sd]
  <2>1. call'.to_size = n /\ call'.op = c.op /\ entries_size' = entries_size
    BY <1>1 DEF CallType, table
  <2>2. QED BY <1>1, <2>1 DEF Room, InRehash
<1>2. CASE pc' = "panic"
  BY <1>2 DEF Room, InRehash
<1>3. QED BY <1>1, <1>2 DEF BeginRehash

\* the size rehash_failing comes to is enough for all entries
LEMMA RehashSizeFits ==
  ASSUME NEW n, NEW to_size \in Int, entries_size \in Nat, IsRehashSize(n, to_size)
  PROVE  n \in Nat /\ entries_size <= n
<1>1. n \in LinkerSizes /\ n >= NeededSize(to_size)
  BY DEF IsRehashSize
<1>2. n \in Nat
  BY <1>1, Constants DEF LinkerSizes
<1>3. Larger(to_size, (entries_size + 3) \div 4) \in Int
  BY DEF Larger
<1>4. NeededSize(to_size) >= entries_size /\ NeededSize(to_size) \in Int
  BY <1>3 DEF NeededSize, Larger
<1>5. QED BY <1>1, <1>2, <1>4

\* an insertion goes on in the linker it has found big enough or makes it bigger
LEMMA InsertRoom ==
  ASSUME IInv, AllLinked, GravesBound, GrowthSane, ArithmeticFits,
         NEW op \in {"set", "add"}, NEW k \in Key, NEW v \in Value, Insert(op, k, v)
  PROVE  Room'
<1> DEFINE c == [NoCall EXCEPT !.op = op, !.key = k, !.value = v]
<1>1. c \in CallType /\ pc = "idle" /\ ~InRehash /\ GrowIfOverfull(c)
  BY NoCallType DEF CallType, AllOps, Insert, InRehash
<1> HIDE DEF c
<1>2. CASE BeginRehash(c, GrownSize, seed)
  <2>1. GrownSize \in Nat /\ entries_size \in Nat
    BY Constants, TypeFacts DEF GrownSize, Mul
  <2>2. entries_size < GrownSize
    BY <1>1, GrownSizeFits
  <2>3. QED BY <1>1, <1>2, <2>1, <2>2, BeginRehashRoom
<1>3. CASE ~Overfull /\ pc' = "probe" /\ UNCHANGED table
  <2>1. entries_size < linker_size
    BY <1>1, <1>3, NotOverfull
  <2>2. QED BY <1>3, <2>1 DEF Room, InRehash, table
<1>4. QED BY <1>1, <1>2, <1>3 DEF GrowIfOverfull

\* so does a rehash
LEMMA RehashRoom ==
  ASSUME IInv, NEW to_size \in Int, NEW sd, Rehash(to_size, sd)
  PROVE  Room'
<1> DEFINE c == [NoCall EXCEPT !.op = "rehash"]
<1>1. c \in CallType /\ c.op = "rehash"
  BY NoCallType DEF CallType, AllOps
<1>2. pc = "idle" /\ entries_size \in Nat
  BY TypeFacts DEF Rehash
<1>3. PICK n : IsRehashSize(n, to_size) /\ BeginRehash(c, n, sd)
  BY DEF Rehash
<1> HIDE DEF c
<1>4. n \in Nat /\ entries_size <= n
  BY <1>2, <1>3, RehashSizeFits
<1>5. QED BY <1>1, <1>2, <1>3, <1>4, BeginRehashRoom

\* and a reservation
LEMMA ReserveRoom ==
  ASSUME IInv, GrowthSane, NEW to_fit \in ReserveSizes, Reserve(to_fit)
  PROVE  Room'
<1> DEFINE c == [NoCall EXCEPT !.op = "reserve", !.to_fit = to_fit]
           size == (to_fit * Growth.full_den) \div Growth.full_num
<1>1. c \in CallType /\ c.op = "reserve"
  BY NoCallType, ClientAssumption DEF CallType, AllOps
<1>2. pc = "idle" /\ entries_size \in Nat /\ size \in Int
  <2>1. to_fit \in Nat
    BY ClientAssumption, Constants
  <2>2. QED BY <2>1, TypeFacts, GrowthType DEF Reserve, GrowthSane
<1>3. \/ size > linker_size /\ \E n : IsRehashSize(n, size) /\ BeginRehash(c, n, seed)
      \/ pc' = "grow"
  BY DEF Reserve
<1> HIDE DEF c
<1>4. ASSUME NEW n, IsRehashSize(n, size), BeginRehash(c, n, seed) PROVE Room'
  <2> HIDE DEF size
  <2>1. n \in Nat /\ entries_size <= n
    BY <1>2, <1>4, RehashSizeFits
  <2>2. QED BY <1>1, <1>2, <1>4, <2>1, BeginRehashRoom
<1>5. CASE pc' = "grow"
  BY <1>5 DEF Room, InRehash
<1>6. QED BY <1>3, <1>4, <1>5

\* no step takes the room away that a rehash or an insertion has found
LEMMA StepRoom ==
  ASSUME IInv, AllLinked, GravesBound, Room, GrowthSane, ArithmeticFits, [Next]_vars
  PROVE  Room'
<1>1. ASSUME NEW k \in Key, NEW v \in Value, Set(k, v) \/ AddAnother(k, v) PROVE Room'
  BY <1>1, InsertRoom DEF Set, AddAnother
<1>2. ASSUME NEW k \in Key, Remove(k) \/ MarkRemoved(k) PROVE Room'
  BY <1>2 DEF Remove, MarkRemoved, MarkRemovedCounting, Room, InRehash
<1>3. ASSUME NEW n \in RehashSizes, NEW s \in Seed, Rehash(n, s) PROVE Room'
  <2>1. n \in Int
    BY ClientAssumption
  <2>2. QED BY <1>3, <2>1, RehashRoom
<1>4. CASE RehashInPlace
  <2>1. linker_size \in Int
    BY TypeFacts
  <2>2. QED BY <1>4, <2>1, RehashRoom DEF RehashInPlace
<1>5. ASSUME NEW n \in ReserveSizes, Reserve(n) PROVE Room'
  BY <1>5, ReserveRoom
<1>6. CASE CompactMove \/ CompactDone \/ RelinkEntry
  BY <1>6 DEF CompactMove, CompactDone, RelinkEntry, Room, InRehash, table
<1>7. CASE RelinkDone
  <2>1. /\ pc = "relink" /\ linker_size' = call.to_size /\ entries_size' = alive_count
        /\ pc' = AfterRehash(call.op)
    BY <1>7 DEF RelinkDone
  <2>2. alive_count \in 0 .. entries_size /\ entries_size \in Nat /\ call.to_size \in Nat
    BY <2>1, TypeFacts DEF IInv, CallType
  <2>3. pc' \notin {"compact", "relink"} /\ (pc' = "probe" => call.op \in {"set", "add"})
    BY <2>1 DEF AfterRehash
  <2> HIDE DEF alive_count
  <2>4. pc' = "probe" => entries_size' < linker_size'
    BY <2>1, <2>2, <2>3, SMTT(60) DEF Room, InRehash
  <2>5. QED BY <2>3, <2>4 DEF Room, InRehash
<1>8. CASE GrowCapacity \/ ResizeEntries \/ FinishInsert \/ FailInsert
  BY <1>8 DEF GrowCapacity, ResizeEntries, FinishInsert, FailInsert, LoseEntries, Overwrite,
     PushNew, Room, InRehash
<1>9. CASE UNCHANGED vars
  BY <1>9 DEF Room, InRehash, vars, table
<1>10. QED
  BY <1>1, <1>2, <1>3, <1>4, <1>5, <1>6, <1>7, <1>8, <1>9 DEF Next, Call, Step

\* all that is known of a table whose clients do not use mark_removed
RoomInv == IInv /\ RelinkedLinks /\ AllLinked /\ GravesBound /\ Room

\* RoomInv is an invariant as long as the arithmetic fits in its type
LEMMA RoomInvariance ==
  ASSUME "mark" \notin Ops, GrowthSane
  PROVE  Spec /\ []ArithmeticFits => []RoomInv
<1>1. Init => RoomInv
  BY InitIInv, InitAllLinked, InitGravesBound DEF Init, RelinkedLinks, Room, InRehash, RoomInv
<1>2. RoomInv /\ ArithmeticFits /\ [Next]_vars => RoomInv'
  BY StepIInv, StepRelinkedLinks, StepAllLinked, StepGravesBound, StepRoom
     DEF RoomInv, ArithmeticFits
<1>3. QED BY <1>1, <1>2, PTL DEF Spec

\* unsafe_rehash always gets a linker with a slot for every entry, dead ones
\* included, whose marks it keeps there, when no client uses mark_removed
THEOREM RehashesFit ==
  ASSUME "mark" \notin Ops, GrowthSane
  PROVE  Spec /\ []ArithmeticFits => []RehashFits
<1>1. RoomInv => RehashFits
  BY DEF RoomInv, Room, RehashFits, InRehash
<1>2. QED BY <1>1, RoomInvariance, PTL

\* fewer links than slots leave a slot free
LEMMA FreeSlot ==
  ASSUME RoomInv, pc = "probe"
  PROVE  \E s \in Slots : ~Linked(s)
<1> SUFFICES ASSUME \A s \in Slots : Linked(s) PROVE FALSE
  OBVIOUS
<1> DEFINE T == 0 .. entries_size - 1
           S == 0 .. linker_size - 1
<1>1. IInv /\ ~InRehash /\ entries_size < linker_size
  BY DEF RoomInv, Room, InRehash
<1>2. entries_size \in Nat /\ linker_size \in Nat /\ linker \in [S -> Link]
  BY <1>1, TypeFacts
<1>3. \A s \in S : linker[s] \in T /\ \A t \in S : linker[t] = linker[s] => t = s
  <2>1. \A s \in S : IsLink(linker[s])
    BY DEF Slots, Linked, IsLink
  <2>2. Links(linker, linker_size) \subseteq T
    BY <1>1, LinksFacts
  <2>3. QED BY <1>1, <2>1, <2>2, LinksFacts
<1>4. IsFiniteSet(T) /\ Cardinality(T) = entries_size
  BY <1>2, FS_Interval, SMTT(60)
<1>5. IsFiniteSet(S) /\ Cardinality(S) = linker_size
  BY <1>2, FS_Interval
<1>6. linker \in [S -> T]
  BY <1>2, <1>3
<1> HIDE DEF S, T
<1>7. \E x, y \in S : x # y /\ linker[x] = linker[y]
  BY <1>1, <1>4, <1>5, <1>6, FS_PigeonHole
<1>8. QED BY <1>3, <1>7

\* the probe loops of set and add_another find a slot to stop at, when no
\* client uses mark_removed: grow_if_overfull has seen to it
THEOREM InsertionsFindRoom ==
  ASSUME "mark" \notin Ops, GrowthSane
  PROVE  Spec /\ []ArithmeticFits => []ProbeEnds
<1>1. ASSUME RoomInv, pc = "probe" PROVE \E d \in 0 .. linker_size - 1 : ProbeStopsAt(d)
  <2> DEFINE h == Hash[seed][call.key]
             at(d) == Probe(h, d, linker_size)
             D == {d \in 0 .. linker_size - 1 : ProbeStops(at(d))}
  <2>1. h \in Nat /\ linker_size \in Nat
    BY <1>1, TypeFacts, Constants DEF RoomInv, CallType
  <2>2. PICK s \in 0 .. linker_size - 1 : ~Linked(s)
    BY <1>1, FreeSlot DEF Slots
  <2> HIDE DEF h
  <2>3. PICK c \in 0 .. linker_size - 1 : s = at(c)
    BY <2>1, ProbeReaches
  <2>4. c \in D /\ D \in SUBSET Nat
    BY <2>1, <2>2, <2>3 DEF ProbeStops
  <2> HIDE DEF at
  <2>5. PICK d \in D : \A e \in D : d <= e
    BY <2>4, SmallestElement
  <2>6. \A e \in 0 .. d - 1 : ~ProbeStops(at(e))
    BY <2>1, <2>4, <2>5
  <2>7. ProbeStopsAt(d)
    BY <2>5, <2>6 DEF ProbeStopsAt, at, h
  <2>8. QED BY <2>5, <2>7
<1>2. RoomInv => ProbeEnds
  BY <1>1 DEF ProbeEnds
<1>3. QED BY <1>2, RoomInvariance, PTL

-----------------------------------------------------------------------------
(* Without remove and mark_removed the linker holds no gravestone *)

NoGraves == ~InRehash => Graves(linker, linker_size) = {}

\* a table nothing is removed from gets no gravestones, and a rehash copies none
LEMMA StepNoGraves ==
  ASSUME IInv, RelinkedLinks, NoGraves, "remove" \notin Ops, "mark" \notin Ops, [Next]_vars
  PROVE  NoGraves'
<1>1. ASSUME NEW k \in Key, Remove(k) \/ MarkRemoved(k) PROVE FALSE
  BY <1>1 DEF Remove, MarkRemoved, MarkRemovedCounting
<1>2. CASE Begins \/ CompactMove \/ CompactDone \/ RelinkEntry
  BY <1>2 DEF Begins, CompactMove, CompactDone, RelinkEntry, NoGraves, InRehash
<1>3. CASE Quiet
  BY <1>3 DEF Quiet, NoGraves
<1>4. CASE RelinkDone
  BY <1>4 DEF RelinkDone, RelinkedLinks, NoGraves
<1>5. CASE FinishInsert
  <2>1. ASSUME NEW d \in 0 .. linker_size - 1, Overwrite(d), pc = "probe" PROVE NoGraves'
    BY <2>1 DEF Overwrite, NoGraves, InRehash
  <2>2. ASSUME NEW d \in 0 .. linker_size - 1, PushNew(d), pc = "probe" PROVE NoGraves'
    <3>1. /\ Graves(linker', linker_size) \subseteq Graves(linker, linker_size)
          /\ linker_size' = linker_size
      BY <2>2, PushNewLinks
    <3>2. Graves(linker, linker_size) = {}
      BY <2>2 DEF NoGraves, InRehash
    <3>3. QED BY <3>1, <3>2 DEF NoGraves
  <2>3. QED BY <1>5, <2>1, <2>2 DEF FinishInsert
<1>6. CASE UNCHANGED vars
  BY <1>6 DEF NoGraves, InRehash, vars, table
<1>7. QED BY <1>1, <1>2, <1>3, <1>4, <1>5, <1>6, NextCases

-----------------------------------------------------------------------------
(* One entry per key, for clients that only set *)

\* no two of the entries es with indices in L have the same key
Distinct(L, es) == \A i, j \in L : es[i].key = es[j].key => i = j

SetOnly == Ops \cap {"add", "remove", "mark"} = {}

OncePerKey ==
  /\ ~InRehash => Distinct(Links(linker, linker_size), entries)
  /\ InRehash => Distinct(marks, entries)
  /\ call.op # "add"

\* a call keeps its operation until it is done
LEMMA StepNoAdd ==
  ASSUME IInv, call.op # "add", "add" \notin Ops, [Next]_vars
  PROVE  call'.op # "add"
<1>1. ASSUME NEW c \in CallType, NEW n, NEW sd, BeginRehash(c, n, sd), c.op # "add"
      PROVE  call'.op # "add"
  BY <1>1, NoCallType DEF BeginRehash, CallType
<1>2. ASSUME NEW op \in {"set", "add"}, NEW k \in Key, NEW v \in Value, Insert(op, k, v)
      PROVE  call'.op # "add"
  <2> DEFINE c == [NoCall EXCEPT !.op = op, !.key = k, !.value = v]
  <2>1. c \in CallType /\ c.op # "add" /\ GrowIfOverfull(c)
    BY <1>2, NoCallType DEF CallType, AllOps, Insert
  <2> HIDE DEF c
  <2>2. QED BY <1>1, <2>1 DEF GrowIfOverfull
<1>3. ASSUME NEW n, NEW sd, Rehash(n, sd) PROVE call'.op # "add"
  <2> DEFINE c == [NoCall EXCEPT !.op = "rehash"]
  <2>1. c \in CallType /\ c.op # "add" /\ \E z : BeginRehash(c, z, sd)
    BY <1>3, NoCallType DEF CallType, AllOps, Rehash
  <2> HIDE DEF c
  <2>2. QED BY <1>1, <2>1
<1>4. ASSUME NEW n \in ReserveSizes, Reserve(n) PROVE call'.op # "add"
  <2> DEFINE c == [NoCall EXCEPT !.op = "reserve", !.to_fit = n]
  <2>1. c \in CallType /\ c.op # "add"
    BY NoCallType, ClientAssumption DEF CallType, AllOps
  <2>2. (\E z : BeginRehash(c, z, seed)) \/ call' = c
    BY <1>4 DEF Reserve
  <2> HIDE DEF c
  <2>3. QED BY <1>1, <2>1, <2>2
<1>5. CASE Call
  BY <1>2, <1>3, <1>4, <1>5 DEF Call, Set, AddAnother, RehashInPlace, Remove, MarkRemoved,
     MarkRemovedCounting
<1>6. CASE Step
  <2>1. CASE RelinkDone
    BY <2>1, NoCallType, TypeFacts DEF RelinkDone, CallType
  <2>2. CASE GrowCapacity
    BY <2>2, TypeFacts, SMTT(60) DEF GrowCapacity, CallType
  <2>3. CASE ~RelinkDone /\ ~GrowCapacity
    BY <1>6, <2>3, NoCallType DEF Step, CompactMove, CompactDone, RelinkEntry,
       ResizeEntries, FinishInsert, FailInsert, LoseEntries, Overwrite, PushNew
  <2>4. QED BY <2>1, <2>2, <2>3
<1>7. CASE UNCHANGED vars
  BY <1>7 DEF vars
<1>8. QED BY <1>5, <1>6, <1>7 DEF Next

\* the probe of a set that stops at an empty slot has passed all slots in which
\* its key could be
LEMMA NewKey ==
  ASSUME IInv, NoGraves, pc = "probe", call.op = "set",
         NEW d \in 0 .. linker_size - 1, ProbeStopsAt(d),
         ~Linked(Probe(Hash[seed][call.key], d, linker_size)),
         NEW i \in Links(linker, linker_size)
  PROVE  entries[i].key # call.key
<1> SUFFICES ASSUME entries[i].key = call.key PROVE FALSE
  OBVIOUS
<1> DEFINE h == Hash[seed][call.key]
           at(e) == Probe(h, e, linker_size)
<1>1. h \in Nat /\ linker_size \in Nat /\ ~InRehash
  BY TypeFacts, Constants DEF CallType, InRehash
<1>2. PICK t \in 0 .. linker_size - 1 : linker[t] = i /\ IsLink(i)
  BY DEF Links
<1>3. Reached(linker, linker_size, seed, entries, t)
  BY <1>1, <1>2 DEF IInv, Good
<1>4. PICK c \in 0 .. linker_size - 1 :
        t = at(c) /\ \A e \in 0 .. c - 1 : linker[at(e)] # EMPTY_LINK
  BY <1>2, <1>3 DEF Reached
<1>5. linker[at(d)] = EMPTY_LINK
  <2>1. at(d) \in 0 .. linker_size - 1
    BY <1>1, ProbeType
  <2>2. linker[at(d)] # GRAVESTONE_LINK
    BY <1>1, <2>1 DEF NoGraves, Graves
  <2>3. QED BY <2>2 DEF Linked
<1>6. \A e \in 0 .. d - 1 : ~HasKey(at(e), call.key)
  BY DEF ProbeStopsAt, ProbeStops
<1>7. HasKey(t, call.key)
  BY <1>2 DEF HasKey, Linked, IsLink
<1> HIDE DEF h, at
<1>8. c # d
  BY <1>2, <1>4, <1>5 DEF IsLink
<1>9. c < d => c \in 0 .. d - 1
  BY <1>1
<1>10. d < c => d \in 0 .. c - 1
  BY <1>1
<1>11. QED BY <1>1, <1>4, <1>5, <1>6, <1>7, <1>8, <1>9, <1>10

\* an entry with a new key
LEMMA DistinctAdd ==
  ASSUME NEW L, NEW m, m \notin L, NEW es, NEW fs, Agree(L, es, fs), Distinct(L, es),
         \A i \in L : es[i].key # fs[m].key
  PROVE  Distinct(L \cup {m}, fs)
BY DEF Distinct, Agree

\* set looks the key up before it appends, so every step keeps the keys distinct
LEMMA StepOncePerKey ==
  ASSUME IInv, RelinkedLinks, AllLinked, NoGraves, OncePerKey, SetOnly, [Next]_vars
  PROVE  OncePerKey'
<1>1. "mark" \notin Ops /\ "remove" \notin Ops /\ "add" \notin Ops
  BY DEF SetOnly
<1>2. call'.op # "add"
  BY <1>1, StepNoAdd DEF OncePerKey
<1>3. ASSUME NEW k \in Key, Remove(k) \/ MarkRemoved(k) PROVE FALSE
  BY <1>1, <1>3 DEF Remove, MarkRemoved, MarkRemovedCounting
<1>4. CASE Begins
  <2>1. LinkedEntries = Links(linker, linker_size)
    BY <1>4, LinkedAreLinks DEF Begins, InRehash
  <2>2. QED BY <1>2, <1>4, <2>1 DEF Begins, OncePerKey, InRehash, table
<1>5. CASE Quiet
  BY <1>2, <1>5 DEF Quiet, OncePerKey
<1>6. CASE CompactMove
  BY <1>6 DEF CompactMove, Holes, AllLinked, InRehash
<1>7. CASE CompactDone \/ RelinkEntry
  BY <1>2, <1>7 DEF CompactDone, RelinkEntry, OncePerKey, InRehash, table
<1>8. CASE RelinkDone
  <2> DEFINE M == 0 .. alive_count - 1
  <2>1. /\ pc = "relink" /\ Links(linker', linker_size') = M /\ (~InRehash)'
        /\ entries' = [i \in M |-> entries[i]]
    BY <1>8 DEF RelinkDone, RelinkedLinks, AfterRehash, InRehash
  <2>2. Distinct(M, entries)
    BY <2>1 DEF OncePerKey, InRehash, IInv
  <2> HIDE DEF M
  <2>3. Distinct(M, entries')
    BY <2>1, <2>2 DEF Distinct
  <2>4. QED BY <1>2, <2>1, <2>3 DEF OncePerKey
<1>9. CASE FinishInsert
  <2> DEFINE L == Links(linker, linker_size)
             m == entries_size
  <2>1. Distinct(L, entries) /\ pc = "probe" /\ ~InRehash /\ L \subseteq 0 .. m - 1
    BY <1>9, LinksFacts DEF FinishInsert, OncePerKey, InRehash
  <2>2. call.op = "set"
    BY <2>1 DEF IInv, OncePerKey
  <2>3. ASSUME NEW d \in 0 .. linker_size - 1, Overwrite(d) PROVE OncePerKey'
    <3>1. PICK i : entries' = [entries EXCEPT ![i].value = call.value]
      BY <2>3 DEF Overwrite
    <3>2. UNCHANGED <<linker, linker_size>> /\ (~InRehash)'
      BY <2>3 DEF Overwrite, InRehash
    <3>3. \A j \in 0 .. m - 1 : entries'[j].key = entries[j].key
      BY <3>1, TypeFacts DEF Entry
    <3>4. Distinct(L, entries')
      BY <2>1, <3>3 DEF Distinct
    <3>5. QED BY <1>2, <3>2, <3>4 DEF OncePerKey
  <2>4. ASSUME NEW d \in 0 .. linker_size - 1, ProbeStopsAt(d), PushNew(d) PROVE OncePerKey'
    <3>1. /\ Links(linker', linker_size') = L \cup {m} /\ m \notin L /\ (~InRehash)'
      BY <2>1, <2>4, PushNewLinks DEF InRehash
    <3>2. m \in Nat /\ entries' = [i \in 0 .. m |->
             IF i = m THEN [key |-> call.key, value |-> call.value] ELSE entries[i]]
      BY <2>4, TypeFacts DEF PushNew
    <3>3. Agree(L, entries, entries') /\ entries'[m].key = call.key
      BY <2>1, <3>2 DEF Agree
    <3>4. \A i \in L : entries[i].key # call.key
      BY <2>1, <2>2, <2>4, NewKey DEF PushNew
    <3> HIDE DEF L, m
    <3>5. Distinct(L \cup {m}, entries')
      BY <2>1, <3>1, <3>3, <3>4, DistinctAdd
    <3>6. QED BY <1>2, <3>1, <3>5 DEF OncePerKey
  <2>5. QED BY <1>9, <2>3, <2>4 DEF FinishInsert
<1>10. CASE UNCHANGED vars
  BY <1>10 DEF OncePerKey, InRehash, vars, table, scratch
<1>11. QED BY <1>3, <1>4, <1>5, <1>6, <1>7, <1>8, <1>9, <1>10, NextCases

\* a client that only sets stores every key once, whatever rehashes and
\* reservations come in between; with removals it need not
THEOREM KeysStoredOnce == SetOnly => (Spec => []OneEntryPerKey)
<1> SUFFICES ASSUME SetOnly PROVE Spec => []OneEntryPerKey
  OBVIOUS
<1> DEFINE Inv == IInv /\ RelinkedLinks /\ AllLinked /\ NoGraves /\ OncePerKey
<1>1. Init => Inv
  <2>1. Init => Links(linker, linker_size) = {} /\ Graves(linker, linker_size) = {}
    BY DEF Init, Links, Graves
  <2>2. QED
    BY <2>1, InitIInv, InitAllLinked, NoCallType
       DEF Init, RelinkedLinks, NoGraves, OncePerKey, Distinct, InRehash
<1>2. Inv /\ [Next]_vars => Inv'
  BY StepIInv, StepRelinkedLinks, StepAllLinked, StepNoGraves, StepOncePerKey DEF SetOnly
<1>3. Inv => OneEntryPerKey
  <2> SUFFICES ASSUME Inv, ~InRehash, NEW s \in Slots, NEW t \in Slots, Linked(s), Linked(t),
                      entries[linker[s]].key = entries[linker[t]].key
               PROVE  s = t
    BY DEF OneEntryPerKey
  <2>1. IsLink(linker[s]) /\ IsLink(linker[t])
    BY DEF Linked, IsLink
  <2>2. linker[s] \in Links(linker, linker_size) /\ linker[t] \in Links(linker, linker_size)
    BY <2>1, LinksFacts DEF Slots
  <2>3. linker[s] = linker[t]
    BY <2>2 DEF OncePerKey, Distinct
  <2>4. QED BY <2>1, <2>3, LinksFacts DEF Slots
<1>4. QED BY <1>1, <1>2, <1>3, PTL DEF Spec

-----------------------------------------------------------------------------
(* The collision counter *)

\* the linked slots of lk that are not the first one probed for their key
Away(lk, n, sd, es) ==
  {s \in 0 .. n - 1 : IsLink(lk[s]) /\ s # Probe(Hash[sd][es[lk[s]].key], 0, n)}

\* the keys of the first m entries are the same
SameKeys(m, es, fs) == \A i \in 0 .. m - 1 : fs[i].key = es[i].key

\* there are finitely many of them
LEMMA AwayFinite ==
  ASSUME NEW n \in Nat, NEW lk, NEW sd, NEW es
  PROVE  IsFiniteSet(Away(lk, n, sd, es)) /\ Cardinality(Away(lk, n, sd, es)) \in Nat
<1>1. Away(lk, n, sd, es) \in SUBSET (0 .. n - 1)
  BY DEF Away
<1>2. IsFiniteSet(0 .. n - 1)
  BY FS_Interval
<1>3. QED BY <1>1, <1>2, FS_Subset, FS_CardinalityType

\* only the keys of the linked entries matter
LEMMA AwaySame ==
  ASSUME NEW n \in Nat, NEW m \in Nat, NEW lk \in [0 .. n - 1 -> Link], NEW sd,
         NEW es, NEW fs, Links(lk, n) \subseteq 0 .. m - 1, SameKeys(m, es, fs)
  PROVE  Away(lk, n, sd, fs) = Away(lk, n, sd, es)
<1>1. ASSUME NEW s \in 0 .. n - 1, IsLink(lk[s]) PROVE fs[lk[s]].key = es[lk[s]].key
  <2>1. lk[s] \in Links(lk, n)
    BY <1>1 DEF Links
  <2>2. QED BY <2>1 DEF SameKeys
<1>2. QED BY <1>1 DEF Away

\* linking entry m in a free slot x, the d-th one probed for its key, brings at
\* most x away from home, and nothing when d is 0
LEMMA AwayAdd ==
  ASSUME NEW n \in Nat, NEW m \in Nat, NEW lk \in [0 .. n - 1 -> Link], NEW sd,
         NEW es, NEW fs, Links(lk, n) \subseteq 0 .. m - 1, SameKeys(m, es, fs),
         NEW d \in 0 .. n - 1, NEW x \in 0 .. n - 1,
         x = Probe(Hash[sd][fs[m].key], d, n), NEW new, new = Put(lk, x, m)
  PROVE  /\ Away(new, n, sd, fs) \subseteq Away(lk, n, sd, es) \cup {x}
         /\ d = 0 => Away(new, n, sd, fs) \subseteq Away(lk, n, sd, es)
<1>1. new[x] = m /\ \A s \in 0 .. n - 1 : s # x => new[s] = lk[s]
  BY DEF Put
<1>2. ASSUME NEW s \in Away(new, n, sd, fs), s # x PROVE s \in Away(lk, n, sd, es)
  <2>1. s \in 0 .. n - 1 /\ new[s] = lk[s]
    BY <1>1, <1>2, Zenon DEF Away
  <2>2. s \in Away(lk, n, sd, fs)
    BY <2>1, Zenon DEF Away
  <2>3. QED BY <2>2, AwaySame, SMTT(60)
<1>3. d = 0 => x \notin Away(new, n, sd, fs)
  BY <1>1 DEF Away
<1>4. QED BY <1>2, <1>3

\* so a counter at least as high as a set's size keeps up with the set when it
\* goes up with the one element more, and when there is none
LEMMA CountSame ==
  ASSUME NEW A, IsFiniteSet(A), NEW B \in SUBSET A, NEW c \in Nat, Cardinality(A) <= c
  PROVE  Cardinality(B) <= c
<1>1. Cardinality(B) <= Cardinality(A)
  BY FS_Subset
<1>2. Cardinality(A) \in Nat /\ Cardinality(B) \in Nat
  BY FS_Subset, FS_CardinalityType
<1>3. QED BY <1>1, <1>2

\* the same when the set gains one element
LEMMA CountMore ==
  ASSUME NEW A, IsFiniteSet(A), NEW x, NEW B \in SUBSET (A \cup {x}), NEW c \in Nat,
         Cardinality(A) <= c
  PROVE  Cardinality(B) <= c + 1
<1>1. /\ IsFiniteSet(A \cup {x})
      /\ Cardinality(A \cup {x}) = Cardinality(A) \/ Cardinality(A \cup {x}) = Cardinality(A) + 1
  BY FS_AddElement
<1>2. Cardinality(A \cup {x}) <= c + 1
  BY <1>1, FS_CardinalityType
<1>3. QED BY <1>1, <1>2, CountSame

\* the counters are at least as high as the linkers are displaced
AwayBound ==
  /\ ~InRehash => Cardinality(Away(linker, linker_size, seed, entries)) <= hash_collisions
  /\ pc = "relink" =>
       Cardinality(Away(fresh, call.to_size, call.to_seed, entries)) <= fresh_collisions

\* relinking an entry counts a collision whenever it lands away from home
LEMMA RelinkEntryAway ==
  ASSUME IInv, RelinkedLinks, AwayBound, RelinkEntry
  PROVE  AwayBound'
<1> DEFINE n == call.to_size
           sd == call.to_seed
           A == Away(fresh, n, sd, entries)
           B == Away(fresh', n, sd, entries)
<1>1. /\ n \in Nat /\ fresh \in [0 .. n - 1 -> Link] /\ pc = "relink" /\ relinked \in Nat
      /\ UNCHANGED <<call, entries, pc>>
  BY RelinkSlot
<1>2. PICK d \in 0 .. n - 1, x \in 0 .. n - 1 :
        /\ x = Probe(Hash[sd][entries[relinked].key], d, n)
        /\ fresh' = Put(fresh, x, relinked)
        /\ d # 0 => fresh_collisions' = fresh_collisions + 1
        /\ d = 0 => fresh_collisions' = fresh_collisions
  BY RelinkSlot
<1>3. SameKeys(relinked, entries, entries) /\ Links(fresh, n) \subseteq 0 .. relinked - 1
  BY <1>1 DEF SameKeys, RelinkedLinks
<1>4. fresh_collisions \in Nat /\ Cardinality(A) <= fresh_collisions
  BY <1>1 DEF AwayBound, IInv, TypeOK
<1>5. IsFiniteSet(A)
  BY <1>1, AwayFinite
<1> HIDE DEF n, sd
<1>6. B \subseteq A \cup {x} /\ (d = 0 => B \subseteq A)
  BY <1>1, <1>2, <1>3, AwayAdd
<1> HIDE DEF A, B
<1>7. Cardinality(B) <= fresh_collisions'
  <2>1. CASE d = 0
    <3>1. B \in SUBSET A /\ fresh_collisions' = fresh_collisions
      BY <2>1, <1>2, <1>4, <1>5, <1>6
    <3>2. Cardinality(B) <= fresh_collisions
      BY <3>1, <1>2, <1>4, <1>5, <1>6, CountSame
    <3>3. QED BY <3>1, <3>2
  <2>2. CASE d # 0
    <3>1. B \in SUBSET (A \cup {x}) /\ fresh_collisions' = fresh_collisions + 1
      BY <2>2, <1>2, <1>4, <1>5, <1>6
    <3>2. Cardinality(B) <= fresh_collisions + 1
      BY <3>1, <1>2, <1>4, <1>5, <1>6, CountMore
    <3>3. QED BY <3>1, <3>2
  <2>3. QED BY <2>1, <2>2
<1>8. QED BY <1>1, <1>7 DEF AwayBound, InRehash, B, n, sd

\* so does the insertion of a new entry
LEMMA PushNewAway ==
  ASSUME IInv, NoGraves, AwayBound, pc = "probe", NEW d \in 0 .. linker_size - 1, PushNew(d)
  PROVE  AwayBound'
<1> DEFINE n == linker_size
           m == entries_size
           x == Probe(Hash[seed][call.key], d, n)
           A == Away(linker, n, seed, entries)
           B == Away(linker', n, seed, entries')
<1>1. x \in 0 .. n - 1
  BY ProbeType, Constants, TypeFacts DEF CallType
<1>2. /\ linker' = Put(linker, x, m) /\ pc' = "idle" /\ UNCHANGED <<linker_size, seed>>
      /\ hash_collisions' = hash_collisions + (IF Collided(x, d) THEN 1 ELSE 0)
      /\ entries' = [i \in 0 .. m |-> IF i = m THEN [key |-> call.key, value |-> call.value]
                                              ELSE entries[i]]
  BY DEF PushNew, Put
<1>3. linker[x] # GRAVESTONE_LINK
  BY <1>1 DEF NoGraves, InRehash, Graves
<1>4. hash_collisions \in Nat /\ Cardinality(A) <= hash_collisions
  BY DEF AwayBound, InRehash, IInv, TypeOK
<1>5. /\ d # 0 => hash_collisions' = hash_collisions + 1
      /\ d = 0 => hash_collisions' = hash_collisions
  BY <1>2, <1>3, <1>4 DEF Collided
<1>6. m \in Nat /\ n \in Nat /\ linker \in [0 .. n - 1 -> Link]
  BY TypeFacts
<1>7. SameKeys(m, entries, entries') /\ entries'[m].key = call.key
  BY <1>2, <1>6 DEF SameKeys
<1>8. Links(linker, n) \subseteq 0 .. m - 1
  BY LinksFacts DEF InRehash
<1>9. linker' = Put(linker, x, m) /\ x = Probe(Hash[seed][entries'[m].key], d, n)
  BY <1>2, <1>7
<1>10. IsFiniteSet(A)
  BY <1>6, AwayFinite
<1> HIDE DEF x, m
<1>11. B \subseteq A \cup {x} /\ (d = 0 => B \subseteq A)
  BY <1>1, <1>6, <1>7, <1>8, <1>9, AwayAdd, SMTT(60)
<1> HIDE DEF A, B
<1>12. Cardinality(B) <= hash_collisions'
  <2>1. CASE d = 0
    <3>1. B \in SUBSET A /\ hash_collisions' = hash_collisions
      BY <2>1, <1>4, <1>5, <1>10, <1>11
    <3>2. Cardinality(B) <= hash_collisions
      BY <3>1, <1>4, <1>5, <1>10, <1>11, CountSame
    <3>3. QED BY <3>1, <3>2
  <2>2. CASE d # 0
    <3>1. B \in SUBSET (A \cup {x}) /\ hash_collisions' = hash_collisions + 1
      BY <2>2, <1>4, <1>5, <1>10, <1>11
    <3>2. Cardinality(B) <= hash_collisions + 1
      BY <3>1, <1>4, <1>5, <1>10, <1>11, CountMore
    <3>3. QED BY <3>1, <3>2
  <2>3. QED BY <2>1, <2>2
<1>13. QED BY <1>2, <1>12 DEF AwayBound, InRehash, B

\* and nothing else displaces a link
LEMMA StepAwayBound ==
  ASSUME IInv, RelinkedLinks, NoGraves, AwayBound, "remove" \notin Ops, "mark" \notin Ops,
         [Next]_vars
  PROVE  AwayBound'
<1>1. ASSUME NEW k \in Key, Remove(k) \/ MarkRemoved(k) PROVE FALSE
  BY <1>1 DEF Remove, MarkRemoved, MarkRemovedCounting
<1>2. CASE Begins \/ CompactMove
  BY <1>2 DEF Begins, CompactMove, AwayBound, InRehash
<1>3. CASE Quiet
  BY <1>3 DEF Quiet, AwayBound, InRehash, stats
<1>4. CASE CompactDone
  <2>1. /\ pc' = "relink" /\ call' = call /\ UNCHANGED <<entries, fresh_collisions>>
        /\ fresh' = [s \in 0 .. call.to_size - 1 |-> EMPTY_LINK] /\ fresh_collisions = 0
    BY <1>4 DEF CompactDone, IInv, table
  <2>2. Away(fresh', call.to_size, call.to_seed, entries) = {}
    <3>1. ASSUME NEW s \in Away(fresh', call.to_size, call.to_seed, entries) PROVE FALSE
      <4>1. s \in 0 .. call.to_size - 1 /\ IsLink(fresh'[s])
        BY <3>1 DEF Away
      <4>2. fresh'[s] = EMPTY_LINK
        BY <2>1, <4>1
      <4>3. QED BY <4>1, <4>2 DEF IsLink
    <3> HIDE DEF Away
    <3>2. QED BY <3>1, Zenon
  <2>3. Cardinality(Away(fresh', call.to_size, call.to_seed, entries)) = 0
    BY <2>2, FS_EmptySet
  <2> HIDE DEF Away
  <2>4. Cardinality(Away(fresh', call'.to_size, call'.to_seed, entries')) <= fresh_collisions'
    BY <2>1, <2>3
  <2>5. QED BY <2>1, <2>4 DEF AwayBound, InRehash
<1>5. CASE RelinkEntry
  BY <1>5, RelinkEntryAway
<1>6. CASE RelinkDone
  <2> DEFINE n == call.to_size
             m == alive_count
  <2>1. /\ linker' = fresh /\ linker_size' = n /\ seed' = call.to_seed
        /\ entries' = [i \in 0 .. m - 1 |-> entries[i]] /\ relinked = m /\ relinked \in Nat
        /\ hash_collisions' = fresh_collisions /\ pc = "relink" /\ pc' # "relink"
    BY <1>6, TypeFacts DEF RelinkDone, AfterRehash, IInv, TypeOK
  <2>2. n \in Nat /\ fresh \in [0 .. n - 1 -> Link] /\ Links(fresh, n) = 0 .. m - 1
    BY <2>1, TypeFacts DEF RelinkedLinks, IInv, TypeOK
  <2> HIDE DEF m
  <2>3. SameKeys(m, entries, entries')
    BY <2>1 DEF SameKeys
  <2>4. Away(fresh, n, call.to_seed, entries') = Away(fresh, n, call.to_seed, entries)
    <3> HIDE DEF n
    <3>1. QED BY <2>1, <2>2, <2>3, AwaySame
  <2>5. QED BY <2>1, <2>4 DEF AwayBound
<1>7. CASE FinishInsert
  <2>1. ASSUME NEW d \in 0 .. linker_size - 1, Overwrite(d), pc = "probe" PROVE AwayBound'
    <3>1. PICK i : entries' = [entries EXCEPT ![i].value = call.value]
      BY <2>1 DEF Overwrite
    <3>2. UNCHANGED <<linker, linker_size, seed, hash_collisions>> /\ pc' = "idle"
      BY <2>1 DEF Overwrite, stats
    <3>3. SameKeys(entries_size, entries, entries')
      BY <3>1, TypeFacts DEF SameKeys, Entry
    <3>4. Links(linker, linker_size) \subseteq 0 .. entries_size - 1
      BY <2>1, LinksFacts DEF InRehash
    <3>5. Away(linker, linker_size, seed, entries') = Away(linker, linker_size, seed, entries)
      BY <3>3, <3>4, TypeFacts, AwaySame, SMTT(60)
    <3>6. QED BY <2>1, <3>2, <3>5 DEF AwayBound, InRehash
  <2>2. QED BY <1>7, <2>1, PushNewAway DEF FinishInsert
<1>8. CASE UNCHANGED vars
  BY <1>8 DEF AwayBound, InRehash, vars, table, stats, scratch
<1>9. QED BY <1>1, <1>2, <1>3, <1>4, <1>5, <1>6, <1>7, <1>8, NextCases

\* _hash_collisions is at least the number of linked entries that are not in
\* their own slot, as long as nothing is removed
THEOREM CollisionsAreCounted ==
  "remove" \notin Ops /\ "mark" \notin Ops => (Spec => []CollisionsCounted)
<1> SUFFICES ASSUME "remove" \notin Ops, "mark" \notin Ops PROVE Spec => []CollisionsCounted
  OBVIOUS
<1> DEFINE Inv == IInv /\ RelinkedLinks /\ NoGraves /\ AwayBound
<1>1. Init => Inv
  <2> SUFFICES ASSUME Init PROVE Inv
    OBVIOUS
  <2>1. linker_size = 0 /\ hash_collisions = 0 /\ pc = "idle"
    BY DEF Init
  <2>2. Graves(linker, linker_size) = {} /\ Away(linker, linker_size, seed, entries) = {}
    BY <2>1 DEF Graves, Away
  <2>3. AwayBound
    BY <2>1, <2>2, FS_EmptySet DEF AwayBound
  <2>4. QED BY <2>1, <2>2, <2>3, InitIInv DEF RelinkedLinks, NoGraves
<1>2. Inv /\ [Next]_vars => Inv'
  BY StepIInv, StepRelinkedLinks, StepNoGraves, StepAwayBound
<1>3. Inv => CollisionsCounted
  <2>1. Displaced = Away(linker, linker_size, seed, entries)
    BY DEF Displaced, Away, Slots, Linked, IsLink
  <2>2. QED BY <2>1 DEF CollisionsCounted, AwayBound
<1>4. QED BY <1>1, <1>2, <1>3, PTL DEF Spec

-----------------------------------------------------------------------------
(* find_next visits every entry of a key *)

\* the slots find_next stops at from the slots V
NextVisited(k, V) == {t \in Slots : \E s \in V : FindStopsAt(s + 1, k, t)}

\* g is where m calls of find_next lead
Visits(k, m, g) ==
  /\ g[0] = {s \in Slots : FoundAt(k, s)}
  /\ \A n \in 1 .. m : g[n] = NextVisited(k, g[n - 1])

\* find_next can be called any number of times
LEMMA VisitsExist ==
  ASSUME NEW k \in Key, NEW m \in Nat
  PROVE  \E g : Visits(k, m, g)
<1> DEFINE Undefined == {j \in Nat : \A g : ~Visits(k, j, g)}
<1> SUFFICES ASSUME m \in Undefined PROVE FALSE
  OBVIOUS
<1>1. PICK l \in Undefined : \A j \in Undefined : l <= j
  <2>1. Undefined \in SUBSET Nat /\ Undefined # {}
    OBVIOUS
  <2> HIDE DEF Undefined
  <2>2. QED BY <2>1, SmallestElement
<1>2. l \in Nat /\ \A g : ~Visits(k, l, g)
  OBVIOUS
<1>3. CASE l = 0
  <2> DEFINE g == [j \in {0} |-> {s \in Slots : FoundAt(k, s)}]
  <2>1. Visits(k, l, g)
    BY <1>3 DEF Visits
  <2> HIDE DEF g
  <2>2. QED BY <1>2, <2>1
<1>4. CASE l # 0
  <2>1. l - 1 \in Nat /\ l - 1 \notin Undefined
    BY <1>1, <1>2, <1>4
  <2>2. PICK f : Visits(k, l - 1, f)
    BY <2>1
  <2> DEFINE g == [j \in 0 .. l |-> IF j = l THEN NextVisited(k, f[l - 1]) ELSE f[j]]
  <2>3. g[0] = f[0] /\ g[l] = NextVisited(k, f[l - 1]) /\ \A j \in 0 .. l - 1 : g[j] = f[j]
    BY <1>2, <1>4
  <2>4. ASSUME NEW n \in 1 .. l PROVE g[n] = NextVisited(k, g[n - 1])
    <3>1. CASE n = l
      BY <1>2, <1>4, <2>3, <3>1
    <3>2. CASE n # l
      <4>1. n \in 1 .. l - 1 /\ n \in 0 .. l - 1 /\ n - 1 \in 0 .. l - 1
        BY <1>2, <3>2
      <4>2. f[n] = NextVisited(k, f[n - 1])
        BY <2>2, <4>1 DEF Visits
      <4>3. QED BY <2>3, <4>1, <4>2
    <3>3. QED BY <3>1, <3>2
  <2> HIDE DEF g
  <2>5. Visits(k, l, g)
    BY <2>2, <2>3, <2>4 DEF Visits
  <2>6. QED BY <1>2, <2>5
<1>5. QED BY <1>3, <1>4

\* so Visited is what its definition says
LEMMA VisitedUnfolds ==
  ASSUME NEW k \in Key, linker_size \in Nat
  PROVE  Visits(k, linker_size, Visited(k))
<1> DEFINE N == 0 .. linker_size
           First == {s \in Slots : FoundAt(k, s)}
           Step1(v, n) == IF n = 0 THEN First ELSE NextVisited(k, v[n - 1])
           Unfolded(v) == v = [n \in N |-> Step1(v, n)]
<1>1. Visited(k) = CHOOSE v : Unfolded(v)
  BY DEF Visited, NextVisited
<1>2. PICK g : Visits(k, linker_size, g)
  BY VisitsExist
<1> DEFINE f == [n \in N |-> g[n]]
<1>3. Unfolded(f)
  <2>1. ASSUME NEW n \in N PROVE g[n] = Step1(f, n)
    <3>1. CASE n = 0
      BY <1>2, <3>1 DEF Visits
    <3>2. CASE n # 0
      <4>1. n \in 1 .. linker_size /\ n - 1 \in N
        BY <3>2
      <4>2. QED BY <1>2, <3>2, <4>1 DEF Visits
    <3>3. QED BY <3>1, <3>2
  <2>2. QED BY <2>1
<1> HIDE DEF Unfolded, f
<1>4. Unfolded(Visited(k))
  BY <1>1, <1>3
<1>5. Visited(k) = [n \in N |-> Step1(Visited(k), n)]
  BY <1>4 DEF Unfolded
<1>6. 0 \in N /\ \A n \in 1 .. linker_size : n \in N /\ n # 0
  OBVIOUS
<1>7. \A n \in N : Visited(k)[n] = Step1(Visited(k), n)
  BY <1>5
<1>8. QED BY <1>6, <1>7 DEF Visits

\* probing goes on from a slot that was probed
LEMMA ProbeOn ==
  ASSUME NEW n \in Nat \ {0}, NEW h \in Nat, NEW d \in Nat, NEW e \in Nat
  PROVE  Probe(Probe(h, d, n), e, n) = Probe(h, d + e, n)
<1>1. h + d \in Nat /\ h + (d + e) = (h + d) + e
  OBVIOUS
<1>2. (((h + d) % n) + e) % n = ((h + d) + e) % n
  BY <1>1, ModAdd
<1>3. QED BY <1>1, <1>2 DEF Probe

\* find_next, called from where find stopped, visits every entry of the key
LEMMA AllVisited ==
  ASSUME IInv, ~InRehash, NEW k \in Key, NEW s \in Slots, HasKey(s, k)
  PROVE  \E j \in 0 .. linker_size : s \in Visited(k)[j]
<1> DEFINE n == linker_size
           h == Hash[seed][k]
           at(e) == Probe(h, e, n)
           Open(d) == \A e \in 0 .. d - 1 : linker[at(e)] # EMPTY_LINK
           D == {d \in 0 .. n - 1 : HasKey(at(d), k) /\ Open(d)}
           Missed == {d \in D : \A j \in 0 .. d : at(d) \notin Visited(k)[j]}
<1>1. h \in Nat /\ n \in Nat \ {0}
  BY Constants, TypeFacts DEF Slots
<1>2. Visits(k, n, Visited(k))
  BY <1>1, VisitedUnfolds
<1>3. PICK c \in D : s = at(c)
  <2>1. Reached(linker, n, seed, entries, s)
    BY DEF IInv, Good, HasKey, Linked, IsLink, Slots
  <2>2. QED BY <2>1 DEF Reached, HasKey
<1>4. ASSUME NEW d \in 0 .. n - 1 PROVE at(d) \in Slots
  BY <1>1, ProbeType DEF Slots
<1>probe. ASSUME NEW d \in Nat, NEW e \in Nat PROVE Probe(at(d), e, n) = at(d + e)
  <2> HIDE DEF n, h
  <2>1. QED BY <1>1, ProbeOn
<1> HIDE DEF n, h, at
<1>5. Missed = {}
  <2> SUFFICES ASSUME Missed # {} PROVE FALSE
    OBVIOUS
  <2>1. PICK d \in Missed : \A e \in Missed : d <= e
    <3>1. Missed \in SUBSET Nat
      BY <1>1
    <3> HIDE DEF Missed
    <3>2. QED BY <3>1, SmallestElement
  <2>2. d \in 0 .. n - 1 /\ HasKey(at(d), k) /\ Open(d)
    OBVIOUS
  <2>3. ASSUME NEW e \in D, e < d PROVE \E j \in 0 .. e : at(e) \in Visited(k)[j]
    BY <1>1, <2>1, <2>2, <2>3
  <2> DEFINE B == {b \in 1 .. d : HasKey(at(d - b), k)}
  <2>4. CASE B = {}
    <3>1. ASSUME NEW e \in 0 .. d - 1 PROVE ~HasKey(at(e), k)
      <4>1. d - e \in 1 .. d /\ d - (d - e) = e
        BY <1>1, <2>2
      <4>2. QED BY <2>4, <4>1
    <3>2. FindStopsAt(h, k, at(d))
      BY <2>2, <3>1 DEF FindStopsAt, at, n
    <3>3. at(d) \in Visited(k)[0]
      BY <1>2, <1>4, <2>2, <3>2 DEF Visits, FoundAt, h
    <3>4. QED BY <1>1, <2>2, <3>3
  <2>5. CASE B # {}
    <3>1. PICK b \in B : \A m \in B : b <= m
      <4>1. B \in SUBSET Nat
        BY <1>1, <2>2
      <4> HIDE DEF B
      <4>2. QED BY <2>5, <4>1, SmallestElement
    <3> DEFINE e == d - b
    <3>2. b \in 1 .. d /\ e \in 0 .. d - 1 /\ e \in 0 .. n - 1 /\ HasKey(at(e), k)
      BY <1>1, <2>2
    <3>3. Open(e)
      BY <1>1, <2>2, <3>2
    <3>4. PICK j \in 0 .. e : at(e) \in Visited(k)[j]
      BY <1>1, <2>2, <2>3, <3>2, <3>3
    <3>5. ASSUME NEW f \in Nat PROVE Probe(at(e) + 1, f, n) = at(e + 1 + f)
      <4>1. Probe(at(e) + 1, f, n) = Probe(at(e), 1 + f, n)
        BY <1>1, <1>4, <3>2 DEF Probe, Slots
      <4>2. e \in Nat /\ 1 + f \in Nat
        BY <1>1, <3>2
      <4>3. Probe(at(e), 1 + f, n) = at(e + (1 + f))
        BY <1>probe, <4>2
      <4>4. e + (1 + f) = e + 1 + f
        BY <4>2
      <4>5. QED BY <4>1, <4>3, <4>4
    <3> HIDE DEF e
    <3>6. at(d) = Probe(at(e) + 1, b - 1, n)
      <4>1. b - 1 \in Nat /\ e + 1 + (b - 1) = d
        BY <2>2, <3>2 DEF e
      <4>2. QED BY <3>5, <4>1
    <3>7. ASSUME NEW f \in 0 .. b - 1 - 1
          PROVE  /\ linker[Probe(at(e) + 1, f, n)] # EMPTY_LINK
                 /\ ~HasKey(Probe(at(e) + 1, f, n), k)
      <4>1. /\ f \in Nat /\ e + 1 + f \in 0 .. d - 1
            /\ b - 1 - f \in 1 .. d /\ d - (b - 1 - f) = e + 1 + f /\ ~(b <= b - 1 - f)
        BY <2>2, <3>2 DEF e
      <4>2. b - 1 - f \notin B
        BY <3>1, <4>1
      <4>3. ~HasKey(at(e + 1 + f), k)
        BY <4>1, <4>2
      <4>4. linker[at(e + 1 + f)] # EMPTY_LINK
        BY <2>2, <4>1
      <4>5. QED BY <3>5, <4>1, <4>3, <4>4
    <3>8. b - 1 \in 0 .. n - 1
      BY <1>1, <2>2, <3>2
    <3>9. FindStopsAt(at(e) + 1, k, at(d))
      BY <2>2, <3>6, <3>7, <3>8 DEF FindStopsAt, n
    <3>10. j + 1 \in 1 .. n /\ j + 1 \in 0 .. d /\ j + 1 - 1 = j
      BY <1>1, <2>2, <3>2
    <3>11. Visited(k)[j + 1] = NextVisited(k, Visited(k)[j])
      BY <1>2, <3>10 DEF Visits
    <3>12. at(d) \in Visited(k)[j + 1]
      BY <1>4, <2>2, <3>4, <3>9, <3>11 DEF NextVisited
    <3>13. QED BY <2>1, <3>10, <3>12
  <2>6. QED BY <2>4, <2>5
<1>6. PICK j \in 0 .. c : at(c) \in Visited(k)[j]
  BY <1>3, <1>5
<1>7. c \in 0 .. n - 1 /\ j \in 0 .. n
  BY <1>1, <1>3, <1>6
<1>8. QED BY <1>3, <1>6, <1>7 DEF n

\* iterating find_next from find misses no entry of the key
THEOREM EntriesVisited == Spec => []FindNextVisits
<1>1. IInv => FindNextVisits
  BY AllVisited DEF FindNextVisits, InRehash
<1>2. QED BY <1>1, Invariance, PTL
=============================================================================
