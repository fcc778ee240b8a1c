----------------------------- MODULE CycleRegime -----------------------------
(***************************************************************************)
(* The hard cycle regime that runner.py promises: exactly NCycles rounds   *)
(* of plan -> work with a relay between consecutive rounds, the run ending *)
(* right after the last work.  Three things may cut it short and each      *)
(* leaves its own status: a dead endpoint ("done", at the end of any       *)
(* stage), the step guard ("timeout", only between rounds) and an          *)
(* unexpected exception ("error").                                         *)
(***************************************************************************)
EXTENDS Naturals

CONSTANT NCycles        \* at least 1

VARIABLES
    round,      \* 1-based; a relay already belongs to the round it prepares
    stage,      \* "plan", "work", "relay" or "end"
    verdict     \* how the run ended: <<reason, status>>

regimeVars == <<round, stage, verdict>>

Running == <<"running", "none">>

RegimeInit ==
    /\ round = 1
    /\ stage = "plan"
    /\ verdict = Running

PlanToWork ==
    /\ stage = "plan"
    /\ stage' = "work"
    /\ UNCHANGED <<round, verdict>>

WorkToRelay ==
    /\ stage = "work"
    /\ round < NCycles
    /\ stage' = "relay"
    /\ round' = round + 1
    /\ UNCHANGED verdict

RelayToPlan ==
    /\ stage = "relay"
    /\ stage' = "plan"
    /\ UNCHANGED <<round, verdict>>

End(v) ==
    /\ stage' = "end"
    /\ verdict' = v
    /\ UNCHANGED round

\* The regular end: the last round's work has run.
Complete ==
    /\ stage = "work"
    /\ round = NCycles
    /\ \E s \in {"done", "timeout", "error"} : End(<<"complete", s>>)

\* The step guard stops between rounds, never in the last one.
CutByGuard ==
    /\ stage = "relay"
    /\ round < NCycles
    /\ End(<<"budget", "timeout">>)

CutByEndpoint ==
    /\ stage # "end"
    /\ End(<<"finalized", "done">>)

Crash ==
    /\ stage # "end"
    /\ End(<<"crashed", "error">>)

RegimeNext ==
    \/ PlanToWork
    \/ WorkToRelay
    \/ RelayToPlan
    \/ Complete
    \/ CutByGuard
    \/ CutByEndpoint
    \/ Crash

RegimeSpec == RegimeInit /\ [][RegimeNext]_regimeVars

=============================================================================
