------------------------------- MODULE FreeList -------------------------------
(****************************************************************************)
(* A list kept in the unused places of an array: first is the first place,  *)
(* link[i] the place after i, and none comes after the last one.            *)
(****************************************************************************)
EXTENDS Integers, FiniteSets

\* the k-th place of the list, counted from 0
Place(first, link, none, last) ==
  LET place[k \in 0 .. last] ==
        IF k = 0 THEN first
        ELSE IF place[k - 1] \in DOMAIN link THEN link[place[k - 1]] ELSE none
  IN  place

\* the list goes through exactly these places, through every one once, and ends
ListIs(first, link, none, places) ==
  LET n     == Cardinality(places)
      place == Place(first, link, none, n)
  IN  {place[k] : k \in 0 .. n - 1} = places /\ place[n] = none
=============================================================================
