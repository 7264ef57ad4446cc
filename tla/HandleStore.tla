----------------------------- MODULE HandleStore -----------------------------
(****************************************************************************)
(* What an array with stable handles promises, whatever its layout: a       *)
(* handle names the item it was returned for until it is removed, or the    *)
(* array is destroyed.                                                      *)
(****************************************************************************)
CONSTANTS Handle, Item

VARIABLES
  store,   \* from the live handles to their items
  alive    \* whether the array is not destroyed

Empty == [h \in {} |-> h]

Init == store = Empty /\ alive = TRUE

\* the new handle is not the handle of any other item
Insert(h, x) ==
  /\ alive /\ h \notin DOMAIN store
  /\ store' = [g \in DOMAIN store \cup {h} |-> IF g = h THEN x ELSE store[g]]
  /\ UNCHANGED alive

Remove(h) ==
  /\ alive /\ h \in DOMAIN store
  /\ store' = [g \in DOMAIN store \ {h} |-> store[g]]
  /\ UNCHANGED alive

Destroy == alive /\ alive' = FALSE /\ store' = Empty

Next ==
  \/ \E h \in Handle, x \in Item : Insert(h, x)
  \/ \E h \in Handle : Remove(h)
  \/ Destroy

Spec == Init /\ [][Next]_<<store, alive>>
=============================================================================
