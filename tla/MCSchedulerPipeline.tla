------------------------ MODULE MCSchedulerPipeline ------------------------
(***************************************************************************)
(* SchedulerPipeline for TLC.                                              *)
(***************************************************************************)
EXTENDS SchedulerPipeline
=============================================================================
