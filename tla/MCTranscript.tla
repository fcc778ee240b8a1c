---------------------------- MODULE MCTranscript ----------------------------
(***************************************************************************)
(* Instances of Transcript for TLC: conversations of up to seven messages  *)
(* and three calls, with two wire ids, so that ids repeat.                 *)
(***************************************************************************)
EXTENDS Transcript, TLC

IdSymmetry == Permutations(Ids)

=============================================================================
