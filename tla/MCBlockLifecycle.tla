-------------------------- MODULE MCBlockLifecycle --------------------------
(***************************************************************************)
(* BlockLifecycle for TLC.                                                 *)
(***************************************************************************)
EXTENDS BlockLifecycle, TLC

CONSTANTS c1, c2  \* DAG contracts

\* c1 has two DAG transactions, so that an answer can be short or empty.
MCDAGContracts == {c1, c2}
MCDAGSize == (c1 :> 2) @@ (c2 :> 1)
=============================================================================
