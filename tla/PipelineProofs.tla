--------------------------- MODULE PipelineProofs ---------------------------
(***************************************************************************)
(* Theorems about Pipeline for every number of cycles, step guard, failure *)
(* limit and retry budget: its type invariant, the bound on what a refusal *)
(* storm costs, who decides the final status, what the step guard bounds,  *)
(* and that the pipeline implements the hard cycle regime.                 *)
(***************************************************************************)
EXTENDS Pipeline, TLAPS

(***************************************************************************)
(* Seven actions end what is running; they differ in what the endpoint did *)
(* and in the status they report.  EndsRun is what they have in common.    *)
(***************************************************************************)
EndsRun(status) ==
    /\ pc \in Active
    /\ CloseStream \/ RefuseOther \/ RefuseTerminal \/ BreakTerminal
    /\ EndRun(status)

\* Requests that leave the pipeline where it is.
OnlyRequests ==
    /\ pc \in Active
    /\ OpenStream \/ CloseStream
    /\ UNCHANGED <<pc, pipelineVars>>

(***************************************************************************)
(* Every step of the pipeline is one of five kinds.                        *)
(***************************************************************************)
LEMMA StepCases ==
    ASSUME [Next]_vars
    PROVE  \/ StopAtGuard
           \/ StartCycle
           \/ OnlyRequests
           \/ \E status \in Statuses : EndsRun(status)
           \/ Crash
           \/ UNCHANGED vars
<1> USE DEF EndsRun, Statuses
<1>1. CASE OpenRequest \/ NextRequest
  BY <1>1 DEF OpenRequest, NextRequest, OnlyRequests
<1>2. CASE Finish
  BY <1>2 DEF Finish
<1>3. CASE FinishUntyped \/ PromptFails \/ StreamBreaksTerminal
  BY <1>3 DEF FinishUntyped, PromptFails, StreamBreaksTerminal, Active
<1>4. CASE RequestRefusedTerminal \/ RequestRefusedOther \/ TimeCap
  BY <1>4 DEF RequestRefusedTerminal, RequestRefusedOther, TimeCap
<1>5. QED
  BY <1>1, <1>2, <1>3, <1>4 DEF Next, Returned

(***************************************************************************)
(* The endpoint's own variables keep their type in every kind of step.     *)
(***************************************************************************)
LEMMA EndpointTypes ==
    ASSUME EndpointTypeOK,
           OpenStream \/ CloseStream \/ RefuseOther \/ RefuseTerminal \/ BreakTerminal
    PROVE  EndpointTypeOK'
BY DEF EndpointTypeOK, OpenStream, CloseStream, RefuseOther, RefuseTerminal,
       BreakTerminal, endpointVars

(***************************************************************************)
(* Type correctness of the pipeline.                                       *)
(***************************************************************************)
LEMMA EndsRunTypes ==
    ASSUME TypeOK, NEW status \in Statuses, EndsRun(status)
    PROVE  TypeOK'
<1> USE PipelineAssumption
<1>1. EndpointTypeOK'
  BY EndpointTypes DEF TypeOK, EndsRun
<1>2. steps' \in Nat
  BY DEF TypeOK, EndsRun, EndRun
<1>3. CASE pc \in Asks /\ EndAsk
  BY <1>1, <1>2, <1>3 DEF TypeOK, EndAsk, LeaveWork, Active, Phases, Asks, Statuses
<1>4. CASE pc \in Phases /\ EndAttempt(status)
  <2>1. results' \in [Phases -> [status : Statuses \cup {"none"}, cycle : Nat]]
    BY <1>4 DEF TypeOK, EndAttempt
  <2>2. attempt' \in Nat \ {0}
    BY <1>4 DEF TypeOK, EndAttempt
  <2>3. CASE RetryAllowed(status)
    BY <1>1, <1>2, <1>4, <2>1, <2>2, <2>3 DEF TypeOK, EndAttempt
  <2>4. CASE ~ RetryAllowed(status)
    BY <1>1, <1>2, <1>4, <2>1, <2>2, <2>4
       DEF TypeOK, EndAttempt, Route, Finalize, MoveTo, LeaveWork, Active,
           Phases, Asks, Statuses
  <2>5. QED
    BY <2>3, <2>4
<1>5. QED
  BY <1>3, <1>4 DEF EndsRun, EndRun

(***************************************************************************)
(* Type correctness (TypeOK) of every reachable state of the pipeline, for *)
(* every configuration.                                                    *)
(***************************************************************************)
THEOREM TypeCorrect == Spec => []TypeOK
<1> USE PipelineAssumption
<1>1. Init => TypeOK
  BY DEF Init, EndpointInit, TypeOK, EndpointTypeOK, Active, Phases, Asks,
         NoResult, Running
<1>2. TypeOK /\ [Next]_vars => TypeOK'
  <2> SUFFICES ASSUME TypeOK, [Next]_vars
               PROVE  TypeOK'
    OBVIOUS
  <2>1. CASE StopAtGuard
    BY <2>1 DEF StopAtGuard, TypeOK, EndpointTypeOK, endpointVars, Statuses
  <2>2. CASE StartCycle
    BY <2>2 DEF StartCycle, TypeOK, EndpointTypeOK, endpointVars, Active, Phases
  <2>3. CASE OnlyRequests
    <3>1. EndpointTypeOK'
      BY <2>3, EndpointTypes DEF OnlyRequests, TypeOK
    <3>2. QED
      BY <2>3, <3>1 DEF OnlyRequests, TypeOK, pipelineVars
  <2>4. CASE \E status \in Statuses : EndsRun(status)
    BY <2>4, EndsRunTypes
  <2>5. CASE Crash
    BY <2>5 DEF Crash, RefuseOther, TypeOK, EndpointTypeOK, endpointVars, Statuses
  <2>6. CASE UNCHANGED vars
    BY <2>6 DEF vars, endpointVars, pipelineVars, TypeOK, EndpointTypeOK
  <2>7. QED
    BY <2>1, <2>2, <2>3, <2>4, <2>5, <2>6, StepCases
<1>3. QED
  BY <1>1, <1>2, PTL DEF Spec

(***************************************************************************)
(* The inductive invariant behind the storm bound.  A phase starts either  *)
(* below the limit or, after an ask, exactly at it; an ask only ever       *)
(* starts below it.                                                        *)
(***************************************************************************)
BelowLimit == fails < FailLimit

StormInv ==
    /\ pc \in {"guard", "plan"} => BelowLimit \/ fails = 0
    /\ pc \in Asks => BelowLimit
    /\ pc = "final_ask" => results["work"].status = "timeout"
    /\ pc = "work" => BelowLimit \/ (fails <= FailLimit /\ handoff = cycle)
    /\ pc = "review" =>
          BelowLimit \/ (fails <= FailLimit /\ results["work"].status = "timeout")
    /\ fails <= FailLimit + 1

(***************************************************************************)
(* What one request can do to the streak.                                  *)
(***************************************************************************)
LEMMA StreakStep ==
    ASSUME EndpointTypeOK,
           OpenStream \/ CloseStream \/ RefuseOther \/ RefuseTerminal \/ BreakTerminal
    PROVE  fails' \in {0, fails, fails + 1}
BY DEF EndpointTypeOK, OpenStream, CloseStream, RefuseOther, RefuseTerminal,
       BreakTerminal, endpointVars

(***************************************************************************)
(* The end of an attempt or an ask, with its retry decision, stall check   *)
(* and routing, keeps the bound on the streak.                             *)
(***************************************************************************)
LEMMA EndsRunStorm ==
    ASSUME TypeOK, StormInv, NEW status \in Statuses, EndsRun(status)
    PROVE  StormInv'
<1> USE PipelineAssumption, FailLimitAssumption
<1>1. /\ fails' \in {0, fails, fails + 1}
      /\ fails \in Nat
  BY StreakStep DEF EndsRun, TypeOK, EndpointTypeOK
<1>2. fails' <= FailLimit + 1
  BY <1>1 DEF EndsRun, StormInv, BelowLimit, Active, Phases, Asks
<1>3. CASE pc \in Asks /\ EndAsk
  BY <1>1, <1>2, <1>3 DEF EndAsk, LeaveWork, StormInv, BelowLimit, Asks
<1>4. CASE pc \in Phases /\ EndAttempt(status)
  <2>1. results'["work"].status = IF pc = "work" THEN status
                                                 ELSE results["work"].status
    BY <1>4 DEF EndAttempt, TypeOK, Phases
  <2>2. CASE Stalled'
    BY <1>2, <1>4, <2>2 DEF EndAttempt, RetryAllowed, Route, Finalize, StormInv, Asks
  <2>3. CASE ~ Stalled'
    <3>1. BelowLimit'
      BY <1>1, <2>3 DEF Stalled, BelowLimit
    <3>2. pc' = "final_ask" => results'["work"].status = "timeout"
      BY <1>4, <2>1, <2>3
         DEF EndAttempt, Route, MoveTo, LeaveWork, Phases
    <3>3. QED
      BY <1>2, <3>1, <3>2 DEF StormInv
  <2>4. QED
    BY <2>2, <2>3
<1>5. QED
  BY <1>3, <1>4 DEF EndsRun, EndRun

(***************************************************************************)
(* StormInv is inductive relative to the type invariant.                   *)
(***************************************************************************)
LEMMA StormInvariant == Spec => []StormInv
<1> USE PipelineAssumption, FailLimitAssumption
<1>1. Init => StormInv
  BY DEF Init, EndpointInit, StormInv, BelowLimit, Asks
<1>2. TypeOK /\ StormInv /\ [Next]_vars => StormInv'
  <2> SUFFICES ASSUME TypeOK, StormInv, [Next]_vars
               PROVE  StormInv'
    OBVIOUS
  <2>1. CASE StopAtGuard
    BY <2>1 DEF StopAtGuard, endpointVars, StormInv, BelowLimit, Asks
  <2>2. CASE StartCycle
    BY <2>2 DEF StartCycle, endpointVars, StormInv, BelowLimit, Asks
  <2>3. CASE OnlyRequests
    BY <2>3 DEF OnlyRequests, OpenStream, CloseStream, pipelineVars, TypeOK,
                EndpointTypeOK, StormInv, BelowLimit, Asks
  <2>4. CASE \E status \in Statuses : EndsRun(status)
    BY <2>4, EndsRunStorm
  <2>5. CASE Crash
    BY <2>5 DEF Crash, RefuseOther, endpointVars, StormInv, BelowLimit, Asks
  <2>6. CASE UNCHANGED vars
    BY <2>6 DEF vars, endpointVars, pipelineVars, StormInv, BelowLimit
  <2>7. QED
    BY <2>1, <2>2, <2>3, <2>4, <2>5, <2>6, StepCases
<1>3. QED
  BY <1>1, <1>2, TypeCorrect, PTL DEF Spec

(***************************************************************************)
(* A refusal storm costs at most one request beyond the limit.             *)
(***************************************************************************)
THEOREM StormIsBounded == Spec => []StormOvershoot
<1>1. StormInv => StormOvershoot
  BY DEF StormInv, StormOvershoot
<1>2. QED
  BY <1>1, StormInvariant, PTL

(***************************************************************************)
(* Only WORK after a hand-off and the relay after a cut-off WORK can be    *)
(* about to send a request to a stalled endpoint.                          *)
(***************************************************************************)
THEOREM StallGapIsAfterAsks == Spec => []StalledOnlyAfterAsk
<1>1. TypeOK /\ StormInv => StalledOnlyAfterAsk
  BY FailLimitAssumption
     DEF TypeOK, EndpointTypeOK, StormInv, BelowLimit, StalledOnlyAfterAsk,
         Stalled, Active, Phases, Asks
<1>2. QED
  BY <1>1, TypeCorrect, StormInvariant, PTL

(***************************************************************************)
(* Bookkeeping: how cycle, steps, attempt and the stored results agree at  *)
(* each place.  PromptsSeeFreshResults is not inductive alone; it needs    *)
(* the attempt counter to be back at 1 and WORK's result to survive the    *)
(* final_ask.                                                              *)
(***************************************************************************)
Counters ==
    /\ pc \in Asks \cup {"guard"} => attempt = 1
    /\ pc \in {"guard", "review"} => steps = cycle - 1
    /\ pc \in {"plan", "work"} \cup Asks => steps = cycle
    /\ pc # "returned" <=> verdict = Running
    /\ pc = "final_ask" =>
          results["work"] = [status |-> "timeout", cycle |-> cycle]
    /\ pc = "handoff" => results["plan"].status = "timeout"
    /\ pc = "review" => cycle > 1

BookInv == Counters /\ PromptsSeeFreshResults

(***************************************************************************)
(* Storing a result and routing keep the books: who wrote which result in  *)
(* which cycle.                                                            *)
(***************************************************************************)
LEMMA EndsRunBook ==
    ASSUME TypeOK, BookInv, NEW status \in Statuses, EndsRun(status)
    PROVE  BookInv'
<1> USE PipelineAssumption
<1>1. CASE pc \in Asks /\ EndAsk
  BY <1>1 DEF EndsRun, EndRun, EndAsk, LeaveWork, TypeOK, BookInv, Counters,
              PromptsSeeFreshResults, Asks, Phases, Running
<1>2. CASE pc \in Phases /\ EndAttempt(status)
  <2>1. /\ results'[pc] = [status |-> status, cycle |-> cycle]
        /\ \A p \in Phases \ {pc} : results'[p] = results[p]
    BY <1>2 DEF EndAttempt, TypeOK
  <2>2. steps' = steps
    BY DEF EndsRun, EndRun
  <2>3. CASE RetryAllowed(status)
    BY <1>2, <2>1, <2>2, <2>3
       DEF EndAttempt, RetryAllowed, TypeOK, BookInv, Counters,
           PromptsSeeFreshResults, Phases, Asks
  <2>4. CASE ~ RetryAllowed(status) /\ Stalled'
    BY <1>2, <2>1, <2>2, <2>4
       DEF EndAttempt, Route, Finalize, BookInv, Counters,
           PromptsSeeFreshResults, Phases, Asks, Running
  <2>5. CASE ~ RetryAllowed(status) /\ ~ Stalled'
    <3> USE <1>2, <2>1, <2>2, <2>5
        DEF EndAttempt, Route, MoveTo, LeaveWork, TypeOK, BookInv, Counters,
            PromptsSeeFreshResults, Phases, Asks, Running, Statuses
    <3>1. CASE pc = "plan"
      BY <3>1
    <3>2. CASE pc = "work"
      BY <3>2
    <3>3. CASE pc = "review"
      BY <3>3
    <3>4. QED
      BY <3>1, <3>2, <3>3
  <2>6. QED
    BY <2>3, <2>4, <2>5
<1>3. QED
  BY <1>1, <1>2 DEF EndsRun, EndRun

(***************************************************************************)
(* BookInv is inductive relative to the type invariant.                    *)
(***************************************************************************)
LEMMA BookInvariant == Spec => []BookInv
<1> USE PipelineAssumption
<1>1. Init => BookInv
  BY DEF Init, Asks, Phases, NoResult, BookInv, Counters, PromptsSeeFreshResults
<1>2. TypeOK /\ BookInv /\ [Next]_vars => BookInv'
  <2> SUFFICES ASSUME TypeOK, BookInv, [Next]_vars
               PROVE  BookInv'
    OBVIOUS
  <2> USE DEF BookInv, Counters, PromptsSeeFreshResults
  <2>1. CASE StopAtGuard
    BY <2>1 DEF StopAtGuard, Asks, Phases, Running
  <2>2. CASE StartCycle
    BY <2>2 DEF StartCycle, Asks, Phases, TypeOK
  <2>3. CASE OnlyRequests
    BY <2>3 DEF OnlyRequests, pipelineVars
  <2>4. CASE \E status \in Statuses : EndsRun(status)
    BY <2>4, EndsRunBook
  <2>5. CASE Crash
    BY <2>5 DEF Crash, Asks, Phases, Running
  <2>6. CASE UNCHANGED vars
    BY <2>6 DEF vars, pipelineVars
  <2>7. QED
    BY <2>1, <2>2, <2>3, <2>4, <2>5, <2>6, StepCases
<1>3. QED
  BY <1>1, <1>2, TypeCorrect, PTL DEF Spec

(***************************************************************************)
(* No prompt is built from a stale result.                                 *)
(***************************************************************************)
THEOREM PromptsAreFresh == Spec => []PromptsSeeFreshResults
<1>1. BookInv => PromptsSeeFreshResults
  BY DEF BookInv
<1>2. QED
  BY <1>1, BookInvariant, PTL

(***************************************************************************)
(* A WORK behind a PLAN that was cut off has the payload of its own cycle. *)
(***************************************************************************)
THEOREM CutOffPlansHandOff == Spec => []CutOffPlanHandsOff
<1>1. Init => CutOffPlanHandsOff
  BY DEF Init, CutOffPlanHandsOff
<1>2. TypeOK /\ CutOffPlanHandsOff /\ [Next]_vars => CutOffPlanHandsOff'
  <2> SUFFICES ASSUME TypeOK, CutOffPlanHandsOff, [Next]_vars
               PROVE  CutOffPlanHandsOff'
    OBVIOUS
  <2> USE DEF CutOffPlanHandsOff
  <2>1. CASE StopAtGuard \/ StartCycle \/ Crash
    BY <2>1 DEF StopAtGuard, StartCycle, Crash
  <2>2. CASE OnlyRequests \/ UNCHANGED vars
    BY <2>2 DEF OnlyRequests, vars, pipelineVars
  <2>3. ASSUME NEW status \in Statuses, EndsRun(status)
        PROVE  CutOffPlanHandsOff'
    <3>1. CASE pc \in Asks /\ EndAsk
      BY <3>1 DEF EndAsk, LeaveWork, Asks
    <3>2. CASE pc \in Phases /\ EndAttempt(status)
      <4>1. /\ results'[pc].status = status
            /\ \A p \in Phases \ {pc} : results'[p] = results[p]
        BY <3>2 DEF EndAttempt, TypeOK
      <4>2. QED
        BY <3>2, <4>1 DEF EndAttempt, RetryAllowed, Route, Finalize, MoveTo, LeaveWork,
                          Phases, Statuses
    <3>3. QED
      BY <2>3, <3>1, <3>2 DEF EndsRun, EndRun
  <2>4. QED
    BY <2>1, <2>2, <2>3, StepCases
<1>3. QED
  BY <1>1, <1>2, TypeCorrect, PTL DEF Spec

(***************************************************************************)
(* A run that was not cut short reports its last WORK.                     *)
(***************************************************************************)
THEOREM LastWorkDecides == Spec => []FinalStatusFromLastWork
<1> USE PipelineAssumption
<1>1. Init => FinalStatusFromLastWork
  BY DEF Init, Running, FinalStatusFromLastWork
<1>2. TypeOK /\ BookInv /\ FinalStatusFromLastWork /\ [Next]_vars
      => FinalStatusFromLastWork'
  <2> SUFFICES ASSUME TypeOK, BookInv, FinalStatusFromLastWork, [Next]_vars
               PROVE  FinalStatusFromLastWork'
    OBVIOUS
  <2> USE DEF FinalStatusFromLastWork
  <2>1. CASE StopAtGuard
    BY <2>1 DEF StopAtGuard
  <2>2. CASE StartCycle \/ OnlyRequests
    BY <2>2 DEF StartCycle, OnlyRequests, pipelineVars, BookInv, Counters,
                Running, Active, Phases, Asks
  <2>3. ASSUME NEW status \in Statuses, EndsRun(status)
        PROVE  FinalStatusFromLastWork'
    <3>1. verdict = Running
      BY <2>3 DEF EndsRun, BookInv, Counters, Active, Phases, Asks
    <3>2. CASE pc \in Asks /\ EndAsk
      BY <3>1, <3>2 DEF EndAsk, LeaveWork, TypeOK, BookInv, Counters, Running, Asks
    <3>3. CASE pc \in Phases /\ EndAttempt(status)
      <4>1. results'[pc] = [status |-> status, cycle |-> cycle]
        BY <3>3 DEF EndAttempt, TypeOK
      <4>2. QED
        BY <3>1, <3>3, <4>1
           DEF EndAttempt, Route, Finalize, MoveTo, LeaveWork, TypeOK, Running, Phases
    <3>4. QED
      BY <2>3, <3>2, <3>3 DEF EndsRun, EndRun
  <2>4. CASE Crash
    BY <2>4 DEF Crash
  <2>5. CASE UNCHANGED vars
    BY <2>5 DEF vars, pipelineVars
  <2>6. QED
    BY <2>1, <2>2, <2>3, <2>4, <2>5, StepCases
<1>3. QED
  BY <1>1, <1>2, TypeCorrect, BookInvariant, PTL DEF Spec

(***************************************************************************)
(* The step guard stops between cycles and withholds only complete ones.   *)
(***************************************************************************)
THEOREM GuardBoundsCycles == Spec => []StepGuardBoundsCycles
<1> USE PipelineAssumption
<1>1. Init => StepGuardBoundsCycles
  BY DEF Init, Running, StepGuardBoundsCycles
<1>2. TypeOK /\ BookInv /\ StepGuardBoundsCycles /\ [Next]_vars
      => StepGuardBoundsCycles'
  <2> SUFFICES ASSUME TypeOK, BookInv, StepGuardBoundsCycles, [Next]_vars
               PROVE  StepGuardBoundsCycles'
    OBVIOUS
  <2> USE DEF StepGuardBoundsCycles
  <2>1. CASE StopAtGuard
    BY <2>1 DEF StopAtGuard, GuardExhausted, TypeOK, BookInv, Counters,
                PromptsSeeFreshResults
  <2>2. CASE StartCycle
    BY <2>2 DEF StartCycle, GuardExhausted, TypeOK, BookInv, Counters, Running
  <2>3. ASSUME steps' = steps, verdict'[1] # "budget"
        PROVE  StepGuardBoundsCycles'
    BY <2>3
  <2>4. CASE OnlyRequests
    BY <2>4 DEF OnlyRequests, pipelineVars
  <2>5. ASSUME NEW status \in Statuses, EndsRun(status)
        PROVE  StepGuardBoundsCycles'
    <3>1. steps' = steps /\ verdict = Running
      BY <2>5 DEF EndsRun, EndRun, BookInv, Counters, Active, Phases, Asks
    <3>2. verdict'[1] # "budget"
      BY <2>5, <3>1 DEF EndsRun, EndRun, EndAsk, EndAttempt, Route, Finalize,
                        MoveTo, LeaveWork, Running
    <3>3. QED
      BY <2>3, <3>1, <3>2
  <2>6. CASE Crash
    BY <2>3, <2>6 DEF Crash
  <2>7. CASE UNCHANGED vars
    BY <2>7 DEF vars, pipelineVars
  <2>8. QED
    BY <2>1, <2>2, <2>4, <2>5, <2>6, <2>7, StepCases
<1>3. QED
  BY <1>1, <1>2, TypeCorrect, BookInvariant, PTL DEF Spec

(***************************************************************************)
(* Refinement: every step of the pipeline is a step of the hard cycle      *)
(* regime or leaves it alone.                                              *)
(***************************************************************************)
LEMMA EndsRunRefines ==
    ASSUME TypeOK, BookInv, NEW status \in Statuses, EndsRun(status)
    PROVE  [Regime!RegimeNext]_(Regime!regimeVars)
<1> USE PipelineAssumption
    DEF Regime!RegimeNext, Regime!regimeVars, Regime!PlanToWork,
        Regime!WorkToRelay, Regime!RelayToPlan, Regime!Complete,
        Regime!CutByEndpoint, Regime!End, Stage
<1>1. CASE pc \in Asks /\ EndAsk
  BY <1>1 DEF EndAsk, LeaveWork, TypeOK, Asks
<1>2. CASE pc \in Phases /\ EndAttempt(status)
  <2>1. CASE RetryAllowed(status)
    BY <1>2, <2>1 DEF EndAttempt
  <2>2. CASE ~ RetryAllowed(status) /\ Stalled'
    BY <1>2, <2>2 DEF EndAttempt, Route, Finalize, Phases
  <2>3. CASE ~ RetryAllowed(status) /\ ~ Stalled'
    <3> USE <1>2, <2>3
        DEF EndAttempt, Route, MoveTo, LeaveWork, TypeOK, BookInv, Counters, Statuses
    <3>1. CASE pc = "plan"
      BY <3>1
    <3>2. CASE pc = "work"
      <4>1. CASE status = "timeout"
        BY <3>2, <4>1
      <4>2. CASE status # "timeout" /\ cycle < NCycles
        BY <3>2, <4>2
      <4>3. CASE status # "timeout" /\ cycle = NCycles
        <5>1. Stage = "work" /\ Stage' = "end" /\ cycle' = cycle
          BY <3>2, <4>3
        <5>2. verdict' = <<"complete", status>>
          BY <3>2, <4>3
        <5>3. Regime!Complete
          BY <4>3, <5>1, <5>2
        <5>4. QED
          BY <5>3
      <4>4. QED
        BY <4>1, <4>2, <4>3
    <3>3. CASE pc = "review"
      <4>1. pc' = "guard" /\ UNCHANGED <<cycle, verdict>> /\ cycle # 1
        BY <3>3
      <4>2. Stage = "relay" /\ Stage' = "relay"
        BY <3>3, <4>1 DEF Stage
      <4>3. QED
        BY <4>1, <4>2
    <3>4. QED
      BY <3>1, <3>2, <3>3 DEF Phases
  <2>4. QED
    BY <2>1, <2>2, <2>3
<1>3. QED
  BY <1>1, <1>2 DEF EndsRun, EndRun

(***************************************************************************)
(* The pipeline (_pipeline with its retries, asks and stall checks)        *)
(* implements the hard cycle regime: NCycles plan -> work rounds with a    *)
(* relay between them, cut short only in the three ways CycleRegime names. *)
(***************************************************************************)
THEOREM PipelineImplementsRegime == Spec => ImplementsRegime
<1> USE PipelineAssumption
<1>1. Init => Regime!RegimeInit
  BY DEF Init, Regime!RegimeInit, Stage, Running, Regime!Running
<1>2. TypeOK /\ BookInv /\ [Next]_vars
      => [Regime!RegimeNext]_(Regime!regimeVars)
  <2> SUFFICES ASSUME TypeOK, BookInv, [Next]_vars
               PROVE  [Regime!RegimeNext]_(Regime!regimeVars)
    OBVIOUS
  <2>1. CASE StopAtGuard
    BY <2>1 DEF StopAtGuard, GuardExhausted, TypeOK, BookInv, Counters, Stage,
                Regime!RegimeNext, Regime!CutByGuard, Regime!End
  <2>2. CASE StartCycle
    BY <2>2 DEF StartCycle, Stage, Regime!RegimeNext, Regime!RelayToPlan,
                Regime!regimeVars
  <2>3. CASE OnlyRequests
    BY <2>3 DEF OnlyRequests, pipelineVars, Stage, Regime!regimeVars
  <2>4. CASE \E status \in Statuses : EndsRun(status)
    BY <2>4, EndsRunRefines
  <2>5. CASE Crash
    BY <2>5 DEF Crash, Stage, Active, Phases, Asks, Regime!RegimeNext,
                Regime!Crash, Regime!End
  <2>6. CASE UNCHANGED vars
    BY <2>6 DEF vars, pipelineVars, Stage, Regime!regimeVars
  <2>7. QED
    BY <2>1, <2>2, <2>3, <2>4, <2>5, <2>6, StepCases
<1>3. QED
  BY <1>1, <1>2, TypeCorrect, BookInvariant, PTL
     DEF Spec, ImplementsRegime, Regime!RegimeSpec

=============================================================================
