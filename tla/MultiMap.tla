------------------------------- MODULE MultiMap -------------------------------
(****************************************************************************)
(* What a hash table promises, whatever its layout: a bag of key-value      *)
(* pairs.  add_another adds a pair, remove takes out one pair of a key, set *)
(* adds a pair or replaces the value of one; nothing else changes the bag,  *)
(* no rehash and no reservation.                                            *)
(****************************************************************************)
EXTENDS Integers

CONSTANTS Key, Value

VARIABLE contents   \* contents[<<k, v>>]: how often the pair is stored

Init == contents = [p \in Key \X Value |-> 0]

Stored(k, v) == contents[<<k, v>>] > 0

Add(k, v) == contents' = [contents EXCEPT ![<<k, v>>] = @ + 1]

Remove(k, v) ==
  /\ Stored(k, v)
  /\ contents' = [contents EXCEPT ![<<k, v>>] = @ - 1]

Replace(k, v, w) ==
  /\ Stored(k, v) /\ v # w
  /\ contents' = [contents EXCEPT ![<<k, v>>] = @ - 1, ![<<k, w>>] = @ + 1]

Next ==
  \E k \in Key, v \in Value :
    Add(k, v) \/ Remove(k, v) \/ \E w \in Value : Replace(k, v, w)

Spec == Init /\ [][Next]_contents
=============================================================================
