------------------------------- MODULE MCContext -------------------------------
(***************************************************************************)
(* Context for TLC: a handful of coroutine contexts.                       *)
(***************************************************************************)
EXTENDS ContextProofs
===============================================================================
