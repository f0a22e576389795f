------------------------------- MODULE MCDMT -------------------------------
(***************************************************************************)
(* DMTExecute for TLC; the .cfg files choose the block, the bounds and what *)
(* the executors do.                                                       *)
(***************************************************************************)
EXTENDS DMTExecute
=============================================================================
