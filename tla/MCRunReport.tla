---------------------------- MODULE MCRunReport ----------------------------
(***************************************************************************)
(* The instance of RunReport for TLC: two tasks, two phases, two requests  *)
(* per run.                                                                *)
(***************************************************************************)
EXTENDS RunReport

=============================================================================
