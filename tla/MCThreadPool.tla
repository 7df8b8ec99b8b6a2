----------------------------- MODULE MCThreadPool -----------------------------
(***************************************************************************)
(* ThreadPool for TLC: a caller that holds several futures, and two tasks. *)
(***************************************************************************)
EXTENDS ThreadPool, TLC
===============================================================================
