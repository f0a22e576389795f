------------------------- MODULE MCExecutorManager -------------------------
(***************************************************************************)
(* ExecutorManager for TLC: the .cfg files choose the callers.             *)
(***************************************************************************)
EXTENDS ExecutorManager
=============================================================================
