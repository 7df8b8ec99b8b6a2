-------------------------------- MODULE MCPump --------------------------------
(***************************************************************************)
(* Pump for TLC: one or two application threads and a few events.          *)
(***************************************************************************)
EXTENDS PumpProofs, TLC
===============================================================================
