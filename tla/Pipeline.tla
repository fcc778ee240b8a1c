------------------------------ MODULE Pipeline ------------------------------
(***************************************************************************)
(* The runner's pipeline (runner.py: _pipeline, _run_phase,                *)
(* _run_phase_with_retries, _final_ask, _plan_handoff, _endpoint_finalize, *)
(* run_prompt) on top of Endpoint.  One step is what the runner does       *)
(* between two awaits: the end of a phase attempt, the stored result, the  *)
(* retry decision, the stall check and the routing are one step, exactly   *)
(* as in the code; the LLM requests of an attempt interleave with its time *)
(* cap.  Texts (prompts, summaries, events) are abstracted to the cycle    *)
(* that produced them.                                                     *)
(***************************************************************************)
EXTENDS Endpoint

CONSTANTS
    NCycles,        \* n_cycles: [agent].max_cycles, at least 1
    MaxSteps,       \* [agent].max_steps, 0 = the guard is off
    MaxRetries      \* [phases.*].max_retries of the three routed phases

Phases == {"plan", "work", "review"}
Asks == {"handoff", "final_ask"}

ASSUME PipelineAssumption ==
    /\ NCycles \in Nat \ {0}
    /\ MaxSteps \in Nat
    /\ MaxRetries \in [Phases -> Nat]

VARIABLES
    pc,             \* where _pipeline is; a phase id while that phase runs
    cycle,          \* 1-based; incremented before the relay runs
    steps,          \* the step guard's counter
    attempt,        \* attempts made by _run_phase_with_retries
    results,        \* state.results: status and the cycle that stored it
    handoff,        \* state.plan_handoff: the cycle that set it, 0 = None
    verdict         \* <<reason, status>> of the ended run

pipelineVars == <<cycle, steps, attempt, results, handoff, verdict>>
vars == <<endpointVars, pc, pipelineVars>>

Statuses == {"done", "timeout", "error"}
NoResult == [status |-> "none", cycle |-> 0]
Running == <<"running", "none">>

Active == Phases \cup Asks

Init ==
    /\ EndpointInit
    /\ pc = "guard"
    /\ cycle = 1
    /\ steps = 0
    /\ attempt = 1
    /\ results = [p \in Phases |-> NoResult]
    /\ handoff = 0
    /\ verdict = Running

-----------------------------------------------------------------------------
(* The loop head.                                                          *)

GuardExhausted == MaxSteps # 0 /\ steps >= MaxSteps /\ cycle < NCycles

\* mark_termination("budget"); return "timeout".
StopAtGuard ==
    /\ pc = "guard"
    /\ GuardExhausted
    /\ pc' = "returned"
    /\ verdict' = <<"budget", "timeout">>
    /\ UNCHANGED <<endpointVars, cycle, steps, attempt, results, handoff>>

StartCycle ==
    /\ pc = "guard"
    /\ ~ GuardExhausted
    /\ pc' = "plan"
    /\ steps' = steps + 1
    /\ UNCHANGED <<endpointVars, cycle, attempt, results, handoff, verdict>>

-----------------------------------------------------------------------------
(* Where the run goes when a phase or a one-shot ask has ended.  Endpoint  *)
(* changes of the same step are visible as Stalled'.                       *)

\* _endpoint_finalize: the status is "done" whatever ran before.
Finalize ==
    /\ pc' = "returned"
    /\ verdict' = <<"finalized", "done">>
    /\ UNCHANGED <<cycle, handoff>>

\* Mutant: the exit gate reports success for every run that got this far.
LeaveWorkAlwaysDone(status) ==
    /\ UNCHANGED handoff
    /\ \/ /\ cycle >= NCycles
          /\ pc' = "returned"
          /\ verdict' = <<"complete", "done">>
          /\ UNCHANGED cycle
       \/ /\ cycle < NCycles
          /\ pc' = "review"
          /\ cycle' = cycle + 1
          /\ UNCHANGED verdict

\* Mutant: the exit gate compares with ">" and runs one cycle too many.
LeaveWorkOneMore(status) ==
    /\ UNCHANGED handoff
    /\ \/ /\ cycle > NCycles
          /\ pc' = "returned"
          /\ verdict' = <<"complete", status>>
          /\ UNCHANGED cycle
       \/ /\ cycle <= NCycles
          /\ pc' = "review"
          /\ cycle' = cycle + 1
          /\ UNCHANGED verdict

\* _post_work_check and the exit gate: the last cycle returns the work's
\* status, the others count up and hand over to the relay.
LeaveWork(status) ==
    /\ UNCHANGED handoff
    /\ \/ /\ cycle >= NCycles
          /\ pc' = "returned"
          /\ verdict' = <<"complete", status>>
          /\ UNCHANGED cycle
       \/ /\ cycle < NCycles
          /\ pc' = "review"
          /\ cycle' = cycle + 1
          /\ UNCHANGED verdict

MoveTo(next) ==
    /\ pc' = next
    /\ UNCHANGED <<cycle, handoff, verdict>>

\* Mutant: no stall check after PLAN, only after WORK and REVIEW.
RouteUncheckedPlan(status) ==
    \/ /\ pc # "plan" /\ Stalled'
       /\ Finalize
    \/ /\ pc = "plan"
       /\ MoveTo(IF status = "timeout" THEN "handoff" ELSE "work")
    \/ /\ ~ Stalled'
       /\ \/ /\ pc = "work"
             /\ IF status = "timeout" THEN MoveTo("final_ask")
                                      ELSE LeaveWork(status)
          \/ /\ pc = "review"
             /\ MoveTo("guard")

Route(status) ==
    \/ /\ Stalled'
       /\ Finalize
    \/ /\ ~ Stalled'
       /\ \/ /\ pc = "plan"
             /\ MoveTo(IF status = "timeout" THEN "handoff" ELSE "work")
          \/ /\ pc = "work"
             /\ IF status = "timeout" THEN MoveTo("final_ask")
                                      ELSE LeaveWork(status)
          \/ /\ pc = "review"
             /\ MoveTo("guard")

\* Mutant: the retry loop forgets the stall check.
RetryAllowedUnchecked(status) ==
    /\ status = "error"
    /\ attempt <= MaxRetries[pc]

\* _run_phase_with_retries: only errors are retried, never on a stalled
\* endpoint; the result is stored after every attempt.
RetryAllowed(status) ==
    /\ status = "error"
    /\ attempt <= MaxRetries[pc]
    /\ ~ Stalled'

\* Mutant: only a successful attempt is stored in state.results.
EndAttemptKeepsFirst(status) ==
    /\ results' = IF status = "done"
                  THEN [results EXCEPT ![pc] = [status |-> status, cycle |-> cycle]]
                  ELSE results
    /\ \/ /\ RetryAllowed(status)
          /\ attempt' = attempt + 1
          /\ UNCHANGED <<pc, cycle, handoff, verdict>>
       \/ /\ ~ RetryAllowed(status)
          /\ attempt' = 1
          /\ Route(status)

EndAttempt(status) ==
    /\ results' = [results EXCEPT ![pc] = [status |-> status, cycle |-> cycle]]
    /\ \/ /\ RetryAllowed(status)
          /\ attempt' = attempt + 1
          /\ UNCHANGED <<pc, cycle, handoff, verdict>>
       \/ /\ ~ RetryAllowed(status)
          /\ attempt' = 1
          /\ Route(status)

\* Mutant: the payload of the first hand-off is kept for the whole run.
EndAskKeepsFirst ==
    /\ UNCHANGED <<attempt, results>>
    /\ \/ /\ pc = "handoff"
          /\ pc' = "work"
          /\ handoff' = IF handoff = 0 THEN cycle ELSE handoff
          /\ UNCHANGED <<cycle, verdict>>
       \/ /\ pc = "final_ask"
          /\ LeaveWork("timeout")

\* _plan_handoff stores its payload and WORK starts, _final_ask has no
\* result; neither is followed by a stall check.
EndAsk ==
    /\ UNCHANGED <<attempt, results>>
    /\ \/ /\ pc = "handoff"
          /\ pc' = "work"
          /\ handoff' = cycle
          /\ UNCHANGED <<cycle, verdict>>
       \/ /\ pc = "final_ask"
          /\ LeaveWork("timeout")

\* The end of what is running; an ask swallows its own failures.
EndRun(status) ==
    /\ UNCHANGED steps
    /\ \/ pc \in Phases /\ EndAttempt(status)
       \/ pc \in Asks /\ EndAsk

-----------------------------------------------------------------------------
(* One attempt of a phase, or one ask: requests until a result, a failure  *)
(* or the time cap.                                                        *)

OpenRequest ==
    /\ pc \in Active
    /\ OpenStream
    /\ UNCHANGED <<pc, pipelineVars>>

\* Tool calls (or an output retry): the agent goes on to another request.
NextRequest ==
    /\ pc \in Active
    /\ CloseStream
    /\ UNCHANGED <<pc, pipelineVars>>

\* The stream carried the typed result.
Finish ==
    /\ pc \in Active
    /\ CloseStream
    /\ EndRun("done")

\* Missing typed output, exhausted output retries, any other exception
\* raised while or after the stream is read.
FinishUntyped ==
    /\ pc \in Active
    /\ CloseStream
    /\ EndRun("error")

\* A refused request raises ModelAPIError or BudgetExceeded: a hand-off.
RequestRefusedTerminal ==
    /\ pc \in Active
    /\ RefuseTerminal
    /\ EndRun("timeout")

RequestRefusedOther ==
    /\ pc \in Active
    /\ RefuseOther
    /\ EndRun("timeout")

\* A terminal status on a chunk is counted and raised as it is: an error.
StreamBreaksTerminal ==
    /\ pc \in Active
    /\ BreakTerminal
    /\ EndRun("error")

\* The prompt could not be built: an error before any request.
PromptFails ==
    /\ pc \in Phases
    /\ RefuseOther
    /\ EndRun("error")

\* Mutant: only opening a stream is bounded in time, reading it is not.
TimeCapOnOpenOnly ==
    /\ pc \in Active
    /\ RefuseOther
    /\ EndRun("timeout")

\* The phase's (or the ask's) asyncio.timeout, or the request wall.
TimeCap ==
    /\ pc \in Active
    /\ (CloseStream \/ RefuseOther)
    /\ EndRun("timeout")

\* run_prompt: an exception outside the attempt's try (the agent or its
\* tools cannot be built) ends the run with status "error".
Crash ==
    /\ pc \in Active
    /\ RefuseOther
    /\ pc' = "returned"
    /\ verdict' = <<"crashed", "error">>
    /\ UNCHANGED <<cycle, steps, attempt, results, handoff>>

Returned ==
    /\ pc = "returned"
    /\ UNCHANGED vars

Next ==
    \/ StopAtGuard
    \/ StartCycle
    \/ OpenRequest
    \/ NextRequest
    \/ Finish
    \/ FinishUntyped
    \/ RequestRefusedTerminal
    \/ RequestRefusedOther
    \/ StreamBreaksTerminal
    \/ PromptFails
    \/ TimeCap
    \/ Crash
    \/ Returned

Spec == Init /\ [][Next]_vars

(***************************************************************************)
(* Fairness: the loop head is synchronous code, and asyncio.timeout fires. *)
(* Nothing is assumed of the endpoint: it may hang in any request and may  *)
(* stream for ever.                                                        *)
(***************************************************************************)
Fairness ==
    /\ WF_vars(StopAtGuard \/ StartCycle)
    /\ WF_vars(TimeCap)

FairSpec == Spec /\ Fairness

-----------------------------------------------------------------------------
(* Properties.                                                             *)

TypeOK ==
    /\ EndpointTypeOK
    /\ pc \in Active \cup {"guard", "returned"}
    /\ cycle \in 1 .. NCycles
    /\ steps \in Nat
    /\ attempt \in Nat \ {0}
    /\ results \in [Phases -> [status : Statuses \cup {"none"}, cycle : Nat]]
    /\ handoff \in 0 .. NCycles
    /\ verdict \in {"running", "complete", "finalized", "budget", "crashed"}
                  \X (Statuses \cup {"none"})

(***************************************************************************)
(* A storm of terminal refusals costs at most one request too many: the    *)
(* two asks run without a stall check, so the streak may reach the limit   *)
(* inside one of them and the next phase still sends a request, but the    *)
(* check after that phase always ends the run (_endpoint_finalize).        *)
(***************************************************************************)
StormOvershoot == fails <= FailLimit + 1

(***************************************************************************)
(* The only way to be about to send a request to a stalled endpoint is to  *)
(* have come out of an ask: WORK right after its cycle's hand-off, or the  *)
(* relay right after a cut-off WORK.  In particular no retry is one.       *)
(***************************************************************************)
StalledOnlyAfterAsk ==
    FailLimit # 0 /\ Stalled /\ pc \in Active =>
        \/ pc = "work" /\ handoff = cycle
        \/ pc = "review" /\ results["work"].status = "timeout"

(***************************************************************************)
(* "the final status is decided by that last WORK alone": a run that was   *)
(* not cut short reports the status its last WORK stored, in its last      *)
(* cycle, whatever PLAN, the relay and the asks did.                       *)
(***************************************************************************)
FinalStatusFromLastWork ==
    verdict[1] = "complete" =>
        /\ cycle = NCycles
        /\ results["work"] = [status |-> verdict[2], cycle |-> NCycles]

(***************************************************************************)
(* What the prompts read from state.results is never stale: PLAN of cycle  *)
(* c > 1 sees the WORK of c-1 and the relay made for c, WORK sees the PLAN *)
(* of its own cycle and, on its first attempt, the previous WORK; a retry  *)
(* sees the error of the attempt it repeats.                               *)
(***************************************************************************)
PromptsSeeFreshResults ==
    /\ pc \in {"guard", "plan", "handoff", "work"} /\ cycle > 1 =>
           results["review"].cycle = cycle
    /\ pc \in {"guard", "plan", "handoff", "review"} =>
           results["work"].cycle = cycle - 1
    /\ pc \in {"handoff", "work", "final_ask"} => results["plan"].cycle = cycle
    /\ pc = "work" =>
           results["work"].cycle = IF attempt = 1 THEN cycle - 1 ELSE cycle
    /\ pc \in Phases /\ attempt > 1 => results[pc].status = "error"

(***************************************************************************)
(* A PLAN that was cut off always leaves the payload of its own cycle for  *)
(* the WORK that follows, also when an earlier cycle left one before.      *)
(***************************************************************************)
CutOffPlanHandsOff ==
    pc \in {"work", "final_ask"} /\ results["plan"].status = "timeout" =>
        handoff = cycle

(***************************************************************************)
(* The step guard counts cycles: at most MaxSteps of them start, except    *)
(* that the last one is never withheld; a run it stops has a relay behind  *)
(* it and its next plan not begun.                                         *)
(***************************************************************************)
StepGuardBoundsCycles ==
    MaxSteps # 0 =>
        /\ steps > MaxSteps => steps = NCycles /\ steps = MaxSteps + 1
        /\ verdict[1] = "budget" =>
               /\ steps = MaxSteps
               /\ results["review"].cycle = MaxSteps + 1

(***************************************************************************)
(* Every run returns, whatever the endpoint does: refuses, hangs, streams  *)
(* without end or breaks every stream.                                     *)
(***************************************************************************)
Terminates == <>(pc = "returned")

\* The hard cycle regime is what the pipeline implements.
Stage ==
    CASE pc \in {"plan", "handoff"}        -> "plan"
      [] pc \in {"work", "final_ask"}      -> "work"
      [] pc = "review"                     -> "relay"
      [] pc = "guard"                      -> IF cycle = 1 THEN "plan" ELSE "relay"
      [] pc = "returned"                   -> "end"

Regime == INSTANCE CycleRegime WITH round <- cycle, stage <- Stage

(***************************************************************************)
(* Refinement: exactly NCycles plan -> work rounds with a relay between    *)
(* them, WORK never skipped and the relay never last, cut short only in    *)
(* the three ways CycleRegime names.                                       *)
(***************************************************************************)
ImplementsRegime == Regime!RegimeSpec

-----------------------------------------------------------------------------
(* What the repository's comments say of the program and the code does not *)
(* do.  The runs that check these look for the counterexample.             *)

(***************************************************************************)
(* _endpoint_finalize: "stop issuing new LLM requests" once the streak     *)
(* reached the limit.  The asks have no check behind them.                 *)
(***************************************************************************)
QuietOnceStalled == [][Stalled => UNCHANGED endpointVars]_vars

=============================================================================
