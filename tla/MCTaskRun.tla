----------------------------- MODULE MCTaskRun -----------------------------
(***************************************************************************)
(* Instances of TaskRun for TLC: two attempts that begin in the same       *)
(* second, or in two different ones.                                       *)
(***************************************************************************)
EXTENDS TaskRun

=============================================================================
