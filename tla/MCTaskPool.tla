----------------------------- MODULE MCTaskPool -----------------------------
(***************************************************************************)
(* TaskPool for TLC.                                                       *)
(***************************************************************************)
EXTENDS TaskPool

AnyFails == Task
=============================================================================
