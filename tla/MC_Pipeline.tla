---------------------------- MODULE MC_Pipeline ----------------------------
(***************************************************************************)
(* Pipeline with three runs.                                               *)
(***************************************************************************)
EXTENDS Pipeline
=============================================================================
