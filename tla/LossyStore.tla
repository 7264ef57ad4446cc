------------------------------ MODULE LossyStore ------------------------------
(****************************************************************************)
(* A store of items that does not always find a handle it still holds: get  *)
(* returns the item of a handle or nothing.  Insertions never hide a handle *)
(* that was found and may bring back others; removals take out a handle     *)
(* that was found and may hide others, whose items stay what they are.      *)
(****************************************************************************)
EXTENDS HandleStore

VARIABLE found   \* the handles get and remove find

LossyInit == Init /\ found = {}

InsertItem(h, x) ==
  /\ Insert(h, x)
  /\ found \subseteq found' /\ found' \subseteq DOMAIN store'

RemoveFound(h) ==
  /\ h \in found /\ Remove(h)
  /\ found' \subseteq found \ {h}

DestroyAll == Destroy /\ found' = {}

LossyNext ==
  \/ \E h \in Handle, x \in Item : InsertItem(h, x)
  \/ \E h \in Handle : RemoveFound(h)
  \/ DestroyAll

LossySpec == LossyInit /\ [][LossyNext]_<<store, alive, found>>
=============================================================================
