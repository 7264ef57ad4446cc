---------------------------- MODULE MC_HashTable ----------------------------
(* Instances of HashTable for TLC *)
EXTENDS HashTable, TLC

CONSTANTS k1, k2, k3

\* k1 and k2 collide under both seeds, k3 is their neighbour or wraps around
MCHash ==
  LET h == [s \in {0, 1} |-> IF s = 0 THEN (k1 :> 0) @@ (k2 :> 0) @@ (k3 :> 1)
                                     ELSE (k1 :> 3) @@ (k2 :> 3) @@ (k3 :> 0)]
  IN  [s \in Seed |-> [k \in Key |-> h[s][k]]]

\* the defaults of Hash_Table_Growth, with a smaller first linker and a
\* smaller linear growth of the entries
MCGrowth == [full_num |-> 1, full_den |-> 4, grave_num |-> 1, grave_den |-> 4,
             entries_num |-> 3, entries_den |-> 2, entries_linear |-> 1,
             base_size |-> 4]

\* the same with the smallest linker that holds two slots
SmallGrowth == [MCGrowth EXCEPT !.base_size = 2]

\* a fuller linker
TightGrowth == [MCGrowth EXCEPT !.full_den = 2, !.base_size = 2]
=============================================================================
