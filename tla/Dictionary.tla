------------------------------ MODULE Dictionary ------------------------------
(***************************************************************************)
(* What a locator promises (dzn_locator_init, _set, _get, _clone): a       *)
(* dictionary of services.  A service that was set is found until it is    *)
(* set again or removed, and a clone starts with the services of the       *)
(* locator it is cloned from and then goes its own way.                    *)
(***************************************************************************)
CONSTANTS Locator, Root, Key, Value, None

VARIABLES
  born,  \* the locators that exist
  dict   \* the services of each locator

vars == <<born, dict>>

Init == born = {} /\ dict = [l \in Locator |-> [k \in Key |-> None]]

\* Only main's locator starts empty.
Create ==
  /\ Root \notin born
  /\ born' = born \cup {Root}
  /\ UNCHANGED dict

Set(l, k, v) ==
  /\ l \in born
  /\ dict' = [dict EXCEPT ![l][k] = v]
  /\ UNCHANGED born

Clone(l, c) ==
  /\ l \in born /\ c \notin born
  /\ born' = born \cup {c}
  /\ dict' = [dict EXCEPT ![c] = dict[l]]

Drop(l, k) ==
  /\ l \in born
  /\ dict' = [dict EXCEPT ![l][k] = None]
  /\ UNCHANGED born

Next ==
  \/ Create
  \/ \E l, c \in Locator : Clone(l, c)
  \/ \E l \in Locator, k \in Key : Drop(l, k) \/ \E v \in Value : Set(l, k, v)

Spec == Init /\ [][Next]_vars
===============================================================================
