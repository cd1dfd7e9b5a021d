------------------------------- MODULE MCLink ------------------------------
(***************************************************************************)
(* Link on small instances.                                                *)
(***************************************************************************)
EXTENDS MCMonitor, Link
=============================================================================
