------------------------------ MODULE MCLedger ------------------------------
(***************************************************************************)
(* Instances of Ledger for TLC: work, a plan and work again; two failures  *)
(* that differ in what they say, one that bash did not flag and differs    *)
(* beyond the key, a success of bash and a page of a file.                 *)
(***************************************************************************)
EXTENDS Ledger

TwoCycles == <<"work", "plan", "work">>

Outcome(call, flagged, code, head, tail) ==
    [call |-> call, flagged |-> flagged, code |-> code, head |-> head, tail |-> tail]

SomeResults == {
    Outcome("make", FALSE, "nonzero", "log", "error1"),
    Outcome("make", FALSE, "nonzero", "log", "error2"),
    Outcome("make", TRUE, "nonzero", "killed", "nothing"),
    Outcome("make", FALSE, "zero", "log", "nothing"),
    Outcome("read", FALSE, "none", "text", "nothing")}

=============================================================================
