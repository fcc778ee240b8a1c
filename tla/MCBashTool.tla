----------------------------- MODULE MCBashTool -----------------------------
(***************************************************************************)
(* Instances of BashTool for TLC: two calls in two phases, each with a     *)
(* child of any kind.                                                      *)
(***************************************************************************)
EXTENDS BashTool

=============================================================================
