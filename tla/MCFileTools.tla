---------------------------- MODULE MCFileTools ----------------------------
(***************************************************************************)
(* Instances of FileTools for TLC: up to two calls per model response.     *)
(***************************************************************************)
EXTENDS FileTools

TwoFragments == {1, 2}

=============================================================================
