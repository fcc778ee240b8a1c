---------------------------- MODULE MCSubmitTest ----------------------------
(***************************************************************************)
(* Instances of SubmitTest for TLC: a test of two tasks and one of a       *)
(* single task among them, in one workspace or two; and one test alone.    *)
(***************************************************************************)
EXTENDS SubmitTest, TLC

CONSTANTS p1, p2, t1, t2, w1, w2

TwoResults == {[exception |-> "none", reward |-> "one"],
               [exception |-> "timeout", reward |-> "one"]}
TwoAndOne == [p \in {p1, p2} |-> IF p = p1 THEN <<t1, t2>> ELSE <<t2>>]
TwoTasks == [p \in {p1} |-> <<t1, t2>>]

WorkspaceSymmetry == Permutations({w1, w2})

=============================================================================
