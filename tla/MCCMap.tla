-------------------------------- MODULE MCCMap --------------------------------
(***************************************************************************)
(* Three keys for module CMap whose chains meet: key1 and key2 share a     *)
(* slot in tables of 4, 8 and 16 slots, and key3 is in the slot behind     *)
(* them in tables of 16.  Rehashing a table of 8 that holds all three fills*)
(* the chain of the last one, so that the table is doubled again inside the*)
(* rehash.                                                                 *)
(***************************************************************************)
EXTENDS CMapProofs, TLC

CONSTANTS key1, key2, key3, u, v, one, two
Keys == {key1, key2, key3}
Hashes == (key1 :> 7) @@ (key2 :> 23) @@ (key3 :> 8)

\* Values are only stored.
Symmetry == Permutations({u, v})
===============================================================================
