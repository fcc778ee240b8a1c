---------------------------- MODULE MCBatchRuns ----------------------------
(***************************************************************************)
(* Instances of BatchRuns for TLC: two batches of two tasks on one server, *)
(* with a manual run and a CI run.  With the manual run, the experiment of *)
(* the first family may hold one run more than a search of two lists; that *)
(* of the second holds as many at most.                                    *)
(***************************************************************************)
EXTENDS BatchRuns, TLC

CONSTANTS b1, b2, manual, ci

TwoBatches == {b1, b2}
OneBatch == {b1}
TwoAndTwo == [b \in TwoBatches |-> 2]
TwoTasks == [b \in OneBatch |-> 2]
OneManual == {manual}
OneCi == {ci}

\* Two batches of the same length are interchangeable.
BatchSymmetry == Permutations(TwoBatches)

=============================================================================
