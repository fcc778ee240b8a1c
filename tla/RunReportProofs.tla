-------------------------- MODULE RunReportProofs --------------------------
(***************************************************************************)
(* Theorems about RunReport for every number of tasks, set of phases and   *)
(* bound on requests: what a killed process takes with it, that trace and  *)
(* result tell the same ending and the same tokens, and which trace a run  *)
(* is tagged with.                                                         *)
(***************************************************************************)
EXTENDS RunReport, FiniteSetTheorems, TLAPS

USE DEF Root

AgentSteps ==
    \/ Boot \/ (\E p \in Phases : StartPhase(p)) \/ SendRequest \/ EndPhase

RequestEnds == Answer \/ AnswerWithoutUsage

RunEnds == Finish \/ TimeOut \/ Crash

EngineSteps == Collect \/ GiveUp \/ TagTrace \/ OmitTag

LEMMA StepCases ==
    [Next]_vars <=>
        \/ ExportInBackground \/ FlushAnswer
        \/ (\E t \in onTheWay : Deliver(t))
        \/ AgentSteps \/ RequestEnds \/ RunEnds \/ Shutdown
        \/ OutOfMemory \/ StopContainer \/ EngineSteps \/ NextTask
        \/ UNCHANGED vars
BY DEF Next, Done, AgentSteps, RequestEnds, RunEnds, EngineSteps

(***************************************************************************)
(* What the steps between two requests, and the engine's, leave alone.     *)
(***************************************************************************)
LEMMA AgentStepsFrame ==
    AgentSteps =>
        /\ agent \in {"boot", "between", "phase"}
        /\ agent' \in {"between", "phase", "request"}
        /\ agent' = "request" => agent = "phase" /\ sent' = sent + 1
        /\ agent' # "request" => sent' = sent
        /\ UNCHANGED <<usage, queue, reached, excused, root, output, engine,
                       result, task, tag, onTheWay, traces>>
<1>1. CASE Boot
  BY <1>1 DEF Boot, engineVars, runVars, spanVars, captureVars, exportVars, serverVars
<1>2. CASE \E p \in Phases : StartPhase(p)
  BY <1>2 DEF StartPhase, engineVars, spanVars, captureVars, exportVars, serverVars
<1>3. CASE SendRequest
  BY <1>3 DEF SendRequest, engineVars, exportVars, serverVars
<1>4. CASE EndPhase
  BY <1>4 DEF EndPhase, engineVars, spanVars, exportVars, serverVars
<1>5. QED
  BY <1>1, <1>2, <1>3, <1>4 DEF AgentSteps

LEMMA EngineStepsFrame ==
    EngineSteps =>
        UNCHANGED <<agent, sent, usage, queue, reached, excused, root, output,
                    task, onTheWay, traces>>
BY DEF EngineSteps, Collect, GiveUp, TagTrace, OmitTag, runVars, spanVars,
       captureVars, exportVars, serverVars

LEMMA RunEndsFrame ==
    RunEnds =>
        /\ agent \in {"boot", "between", "phase", "request"}
        /\ agent' = "closing"
        /\ UNCHANGED <<sent, usage, reached, excused, engine, result, task, tag,
                       onTheWay, traces>>
<1> USE DEF CloseRoot, engineVars, spanVars, captureVars, exportVars, serverVars
<1>1. CASE Finish
  BY <1>1 DEF Finish
<1>2. CASE TimeOut
  BY <1>2 DEF TimeOut
<1>3. CASE Crash
  BY <1>3 DEF Crash
<1>4. QED
  BY <1>1, <1>2, <1>3 DEF RunEnds

-----------------------------------------------------------------------------
(***************************************************************************)
(* Answers and flushes: outside a flush every answer with usage has        *)
(* reached the collector or had a flush that did not go through; inside    *)
(* one the last answer may still be in the queue, and a kill loses it.     *)
(***************************************************************************)
Missing == usage \ (reached \cup excused)

Flushed ==
    /\ agent \notin {"flushing", "killed"} => Missing = {}
    /\ agent \in {"flushing", "killed"} => Missing \subseteq {sent}
    /\ agent = "flushing" => Missing \subseteq queue

LEMMA FlushLosesNothing ==
    ASSUME Flush(queue)
    PROVE  UNCHANGED usage => Missing' \subseteq Missing \ queue
BY DEF Flush, Missing

LEMMA FlushedStep == Flushed /\ [Next]_vars => Flushed'
<1> SUFFICES ASSUME Flushed, [Next]_vars PROVE Flushed'
  OBVIOUS
<1>1. CASE ExportInBackground
  <2>1. UNCHANGED <<agent, sent, usage>> /\ Flush(queue)
    BY <1>1 DEF ExportInBackground, runVars, spanVars
  <2>2. Missing' \subseteq Missing \ queue
    BY <2>1, FlushLosesNothing
  <2>3. QED
    BY <2>1, <2>2 DEF Flushed
<1>2. CASE FlushAnswer
  <2>1. /\ agent = "flushing" /\ agent' = "phase" /\ UNCHANGED <<sent, usage>>
        /\ Flush(queue)
    BY <1>2 DEF FlushAnswer, runVars, spanVars
  <2>2. Missing' \subseteq Missing \ queue
    BY <2>1, FlushLosesNothing
  <2>3. Missing \subseteq queue
    BY <2>1 DEF Flushed
  <2>4. QED
    BY <2>1, <2>2, <2>3 DEF Flushed
<1>3. CASE \E t \in onTheWay : Deliver(t)
  BY <1>3 DEF Deliver, runVars, spanVars, Flushed, Missing
<1>4. CASE AgentSteps
  BY <1>4, AgentStepsFrame DEF Flushed, Missing
<1>5. CASE Answer
  BY <1>5 DEF Answer, Enqueue, exportVars, Flushed, Missing
<1>6. CASE AnswerWithoutUsage
  BY <1>6 DEF AnswerWithoutUsage, runVars, spanVars, exportVars, Flushed, Missing
<1>7. CASE RunEnds
  BY <1>7, RunEndsFrame DEF Flushed, Missing
<1>8. CASE Shutdown
  BY <1>8 DEF Shutdown, runVars, spanVars, Flushed, Missing
<1>9. CASE OutOfMemory
  BY <1>9 DEF OutOfMemory, Kill, runVars, spanVars, exportVars, Flushed, Missing
<1>10. CASE StopContainer
  BY <1>10 DEF StopContainer, Kill, runVars, spanVars, exportVars, Flushed, Missing
<1>11. CASE EngineSteps
  BY <1>11, EngineStepsFrame DEF Flushed, Missing
<1>12. CASE NextTask
  BY <1>12 DEF NextTask, Flushed, Missing
<1>13. CASE UNCHANGED vars
  BY <1>13 DEF vars, runVars, spanVars, exportVars, Flushed, Missing
<1>14. QED
  BY StepCases, <1>1, <1>2, <1>3, <1>4, <1>5, <1>6, <1>7, <1>8, <1>9, <1>10,
     <1>11, <1>12, <1>13 DEF RequestEnds

(***************************************************************************)
(* Whenever the process is killed, the collector lacks at most the answer  *)
(* it was flushing, and those whose flush did not go through.              *)
(***************************************************************************)
THEOREM AKillLosesOneFlush == Spec => []KillLosesOneFlush
<1>1. Init => Flushed
  BY DEF Init, Flushed, Missing
<1>2. Flushed => KillLosesOneFlush
  BY DEF Flushed, Missing, KillLosesOneFlush
<1>3. QED
  BY FlushedStep, <1>1, <1>2, PTL DEF Spec

-----------------------------------------------------------------------------
(***************************************************************************)
(* Endings: which reasons on the root span go with which recorded end.     *)
(***************************************************************************)
Agree(reason, end) ==
    /\ end = "ok" => reason \in {"none", "endpoint_finalized"}
    /\ end = "timeout" => reason \in {"timeout", "budget"}
    /\ end = "error" => reason \in {"error", "none"}
    /\ end = "crash" => reason = "crash:Exc"

Over == {"closing", "exited", "killed"}

(***************************************************************************)
(* The root span leaves the process only after the run is over, when the   *)
(* output is there; what the engine records is that output or a hard       *)
(* time-out.                                                               *)
(***************************************************************************)
Told ==
    /\ sent \in Nat
    /\ agent \in {"request", "flushing"} => sent # 0
    /\ agent \notin Over => Root \notin reached \cup queue /\ output = NoMarker
    /\ agent \in {"closing", "exited"} => Agree(root.reason, output.end)
    /\ agent = "killed" /\ Root \in reached => Agree(root.reason, output.end)
    /\ engine = "agent" => result = NoMarker
    /\ engine # "agent" => \/ result.end = "exec_timeout"
                           \/ result = output /\ agent \in {"exited", "killed"}

LEMMA EndingsAgree ==
    RunEnds => Agree(root'.reason, output'.end)
<1>1. CASE Finish
  <2>1. PICK e \in Endings :
            output'.end = Termination(e[2]) /\ root'.reason = e[1]
    BY <1>1 DEF Finish, Marker, CloseRoot
  <2>2. QED
    BY <2>1 DEF Endings, Termination, Agree
<1>2. CASE TimeOut
  BY <1>2 DEF TimeOut, Marker, CloseRoot, Agree
<1>3. CASE Crash
  BY <1>3 DEF Crash, Unmarked, NoMarker, CloseRoot, Agree
<1>4. QED
  BY <1>1, <1>2, <1>3 DEF RunEnds

LEMMA ToldStep == Told /\ [Next]_vars => Told'
<1> SUFFICES ASSUME Told, [Next]_vars PROVE Told'
  OBVIOUS
<1> USE DEF Over
<1>1. CASE ExportInBackground
  BY <1>1 DEF ExportInBackground, Flush, engineVars, runVars, Told
<1>2. CASE FlushAnswer
  BY <1>2 DEF FlushAnswer, Flush, engineVars, runVars, Told
<1>3. CASE \E t \in onTheWay : Deliver(t)
  BY <1>3 DEF Deliver, engineVars, runVars, Told
<1>4. CASE AgentSteps
  BY <1>4, AgentStepsFrame DEF Told
<1>5. CASE RequestEnds
  BY <1>5 DEF RequestEnds, Answer, AnswerWithoutUsage, Enqueue, engineVars, runVars,
              exportVars, Told
<1>6. CASE RunEnds
  BY <1>6, RunEndsFrame, EndingsAgree DEF Told
<1>7. CASE Shutdown
  BY <1>7 DEF Shutdown, engineVars, runVars, Told
<1>8. CASE OutOfMemory
  <2>1. /\ agent' = "killed" /\ UNCHANGED <<root, reached, sent, engine, result>>
        /\ agent \notin {"exited", "killed"}
        /\ output' = IF output.marked THEN output ELSE Unmarked("oom")
    BY <1>8 DEF OutOfMemory, Kill, engineVars, runVars, exportVars
  <2>2. Root \in reached => agent = "closing"
    BY <2>1 DEF Told
  <2>3. Agree(root.reason, Unmarked("oom").end)
    BY DEF Agree, Unmarked, NoMarker
  <2>4. QED
    BY <2>1, <2>2, <2>3 DEF Told
<1>9. CASE StopContainer
  BY <1>9 DEF StopContainer, Kill, runVars, exportVars, Told
<1>10. CASE Collect \/ GiveUp
  BY <1>10 DEF Collect, GiveUp, Unmarked, NoMarker, runVars, exportVars, Told
<1>11. CASE TagTrace \/ OmitTag
  BY <1>11 DEF TagTrace, OmitTag, runVars, exportVars, Told
<1>12. CASE NextTask
  BY <1>12 DEF NextTask, Told
<1>13. CASE UNCHANGED vars
  BY <1>13 DEF vars, engineVars, runVars, exportVars, Told
<1>14. QED
  BY StepCases, <1>1, <1>2, <1>3, <1>4, <1>5, <1>6, <1>7, <1>8, <1>9, <1>10,
     <1>11, <1>12, <1>13 DEF EngineSteps

(***************************************************************************)
(* A root span that reached the collector never contradicts the result.    *)
(***************************************************************************)
THEOREM TraceAndResultAgree == Spec => []ReasonsAgree
<1>1. Init => Told
  BY DEF Init, Told, Over
<1>2. Told => ReasonsAgree
  BY DEF Told, ReasonsAgree, Agree, Over, NoMarker
<1>3. QED
  BY ToldStep, <1>1, <1>2, PTL DEF Spec

-----------------------------------------------------------------------------
(***************************************************************************)
(* Tokens: the log counts an answer when its usage is no longer pending,   *)
(* the spans when it is there; the phase of a pending usage is still the   *)
(* current one.                                                            *)
(***************************************************************************)
SpansTyped ==
    /\ sent \in 0 .. MaxRequests
    /\ usage \subseteq 1 .. sent /\ pending \subseteq usage
    /\ label \in [Requests -> Phases \cup {"none"}]
    /\ \A r \in usage : label[r] \in Phases

PendingIsCurrent ==
    /\ agent \in {"phase", "request", "flushing"} => phase \in Phases
    /\ \A r \in pending : agent \in {"phase", "flushing"} => label[r] = phase
    /\ agent \in {"boot", "between", "request"} => pending = {}
    /\ agent = "request" => sent > 0 /\ sent \notin usage /\ label[sent] = phase

CaptureCounts ==
    /\ capture = [tokens |-> capture.tokens, byPhase |-> capture.byPhase]
    /\ capture.tokens = Cardinality(usage \ pending)
    /\ capture.byPhase \in [Phases -> Nat]
    /\ \A p \in Phases : capture.byPhase[p] = Cardinality(Logged(p))
    /\ counted = Cardinality(usage)

\* What a process that is over has told, and what the engine took of it.
MarkerCounts ==
    /\ output.marked =>
           /\ agent \in Over
           /\ output.tokens = capture.tokens /\ output.byPhase = capture.byPhase
           /\ output.end # "timeout" => pending = {}
    /\ agent \notin Over => Root \notin reached \cup queue
    /\ agent \in {"closing", "exited"} \/ Root \in reached \cup queue =>
           root.tokens = counted
    /\ result.marked => result = output /\ agent \in {"exited", "killed"}

Counts == SpansTyped /\ PendingIsCurrent /\ CaptureCounts /\ MarkerCounts

(***************************************************************************)
(* The parts that a step about other things leaves as they are.            *)
(***************************************************************************)
LEMMA CountsFrame ==
    ASSUME SpansTyped, CaptureCounts,
           UNCHANGED <<sent, label, usage, pending, capture, counted>>
    PROVE  SpansTyped' /\ CaptureCounts'
BY DEF SpansTyped, CaptureCounts, Logged

LEMMA FiniteUsage ==
    ASSUME SpansTyped
    PROVE  /\ IsFiniteSet(usage) /\ IsFiniteSet(pending)
           /\ \A s \in SUBSET usage : IsFiniteSet(s) /\ Cardinality(s) \in Nat
<1>1. IsFiniteSet(1 .. sent)
  BY FS_Interval DEF SpansTyped
<1>2. \A s \in SUBSET usage : IsFiniteSet(s)
  BY <1>1, FS_Subset DEF SpansTyped
<1>3. QED
  BY <1>2, FS_CardinalityType DEF SpansTyped

(***************************************************************************)
(* log_pending_usage: what was pending is now logged, under the phase its  *)
(* span carries.                                                           *)
(***************************************************************************)
LEMMA PendingIsLogged ==
    ASSUME SpansTyped, CaptureCounts, LogPending, UNCHANGED <<usage, counted>>,
           \A r \in usage : label'[r] = label[r],
           phase \in Phases, \A r \in pending : label[r] = phase
    PROVE  CaptureCounts'
<1> DEFINE logged == usage \ pending
<1>1. /\ capture.tokens \in Nat /\ Cardinality(pending) \in Nat
      /\ Cardinality(usage) = Cardinality(logged) + Cardinality(pending)
  <2>1. IsFiniteSet(logged) /\ IsFiniteSet(pending) /\ logged \cap pending = {}
    BY FiniteUsage
  <2>2. logged \cup pending = usage
    BY DEF SpansTyped
  <2>3. Cardinality(logged) \in Nat /\ Cardinality(pending) \in Nat
    BY <2>1, FS_CardinalityType
  <2>4. Cardinality(usage) = Cardinality(logged) + Cardinality(pending)
                                  - Cardinality(logged \cap pending)
    BY <2>1, <2>2, FS_Union
  <2>5. QED
    BY <2>1, <2>3, <2>4, FS_EmptySet DEF CaptureCounts
<1>2. /\ capture' = [tokens |-> capture.tokens + Cardinality(pending),
                     byPhase |-> [capture.byPhase EXCEPT
                         ![phase] = capture.byPhase[phase] + Cardinality(pending)]]
      /\ pending' = {}
  <2>1. (capture.tokens + Cardinality(pending)) - capture.tokens = Cardinality(pending)
    BY <1>1
  <2>2. QED
    BY <2>1, Zenon DEF LogPending, Consume
<1>3. ASSUME NEW p \in Phases PROVE capture'.byPhase[p] = Cardinality(Logged(p)')
  <2>1. Logged(p)' = {r \in usage : label[r] = p}
    BY <1>2 DEF Logged
  <2>2. CASE p = phase
    <3>1. Logged(p)' = Logged(p) \cup pending /\ Logged(p) \cap pending = {}
      BY <2>1, <2>2 DEF Logged, SpansTyped
    <3>2. IsFiniteSet(Logged(p)) /\ IsFiniteSet(pending)
      BY FiniteUsage DEF Logged
    <3>3. Cardinality(Logged(p)) \in Nat /\ Cardinality(Logged(p) \cap pending) = 0
      BY <3>1, <3>2, FS_CardinalityType, FS_EmptySet
    <3>4. Cardinality(Logged(p) \cup pending) = Cardinality(Logged(p))
              + Cardinality(pending) - Cardinality(Logged(p) \cap pending)
      BY <3>2, FS_Union
    <3>5. Cardinality(Logged(p)') = Cardinality(Logged(p)) + Cardinality(pending)
      BY <1>1, <3>1, <3>3, <3>4
    <3>6. QED
      BY <1>2, <2>2, <3>5 DEF CaptureCounts
  <2>3. CASE p # phase
    <3>1. Logged(p)' = Logged(p)
      BY <2>1, <2>3 DEF Logged
    <3>2. QED
      BY <1>2, <2>3, <3>1 DEF CaptureCounts
  <2>4. QED
    BY <2>2, <2>3
<1>4. capture'.byPhase \in [Phases -> Nat]
  BY <1>1, <1>2 DEF CaptureCounts
<1>5. capture'.tokens = Cardinality((usage \ pending)')
  <2>1. (usage \ pending)' = usage
    BY <1>2
  <2>2. QED
    BY <1>1, <1>2, <2>1 DEF CaptureCounts
<1>6. counted' = Cardinality(usage')
  BY DEF CaptureCounts
<1>7. capture' = [tokens |-> capture'.tokens, byPhase |-> capture'.byPhase]
  BY <1>2
<1>8. QED
  BY <1>3, <1>4, <1>5, <1>6, <1>7 DEF CaptureCounts

LEMMA AnswerCounts ==
    ASSUME Counts, Answer PROVE Counts'
<1> USE DEF Counts
<1>1. /\ agent = "request" /\ agent' = "flushing"
      /\ usage' = usage \cup {sent} /\ pending' = {sent} /\ counted' = counted + 1
      /\ queue' = queue \cup {sent}
      /\ UNCHANGED <<phase, sent, label, capture, root, reached, output, result>>
  BY DEF Answer, Enqueue, engineVars, exportVars
<1>2. /\ sent \in 1 .. MaxRequests /\ sent \notin usage /\ pending = {}
      /\ label[sent] = phase /\ phase \in Phases
  BY <1>1 DEF SpansTyped, PendingIsCurrent
<1>3. SpansTyped'
  BY <1>1, <1>2 DEF SpansTyped
<1>4. PendingIsCurrent'
  BY <1>1, <1>2 DEF PendingIsCurrent
<1>5. CaptureCounts'
  <2>1. usage' \ pending' = usage \ pending
    BY <1>1, <1>2
  <2>2. Cardinality(usage') = Cardinality(usage) + 1
    BY <1>1, <1>2, FiniteUsage, FS_AddElement
  <2>3. \A p \in Phases : Logged(p)' = Logged(p)
    BY <1>1, <2>1 DEF Logged
  <2>4. QED
    BY <1>1, <2>1, <2>2, <2>3 DEF CaptureCounts
<1>6. MarkerCounts'
  BY <1>1, <1>2 DEF MarkerCounts, Over
<1>7. QED
  BY <1>3, <1>4, <1>5, <1>6

LEMMA SendCounts ==
    ASSUME Counts, SendRequest PROVE Counts'
<1> USE DEF Counts
<1>1. /\ agent = "phase" /\ agent' = "request" /\ sent' = sent + 1 /\ sent < MaxRequests
      /\ LogPending /\ pending' = {} /\ label' = [label EXCEPT ![sent + 1] = phase]
      /\ UNCHANGED <<phase, usage, counted, root, queue, reached, output, result>>
  BY DEF SendRequest, LogPending, engineVars, exportVars
<1>2. /\ phase \in Phases /\ \A r \in pending : label[r] = phase
      /\ sent + 1 \in Requests /\ sent + 1 \notin usage
      /\ \A r \in usage : r \in Requests /\ label'[r] = label[r]
  BY <1>1, RunReportAssumption DEF PendingIsCurrent, SpansTyped, Requests
<1>3. CaptureCounts'
  BY <1>1, <1>2, PendingIsLogged
<1>4. SpansTyped'
  BY <1>1, <1>2, RunReportAssumption DEF SpansTyped, Requests
<1>5. PendingIsCurrent'
  BY <1>1, <1>2, RunReportAssumption DEF PendingIsCurrent, SpansTyped
<1>6. MarkerCounts'
  BY <1>1 DEF MarkerCounts, Over
<1>7. QED
  BY <1>3, <1>4, <1>5, <1>6

LEMMA EndPhaseCounts ==
    ASSUME Counts, EndPhase PROVE Counts'
<1> USE DEF Counts
<1>1. /\ agent = "phase" /\ agent' = "between" /\ LogPending /\ pending' = {}
      /\ UNCHANGED <<sent, label, usage, counted, root, queue, reached, output, result>>
  BY DEF EndPhase, LogPending, engineVars, spanVars, exportVars
<1>2. CaptureCounts'
  BY <1>1, PendingIsLogged DEF PendingIsCurrent
<1>3. SpansTyped' /\ PendingIsCurrent' /\ MarkerCounts'
  BY <1>1 DEF SpansTyped, PendingIsCurrent, MarkerCounts, Over
<1>4. QED
  BY <1>2, <1>3

LEMMA RunEndCounts ==
    ASSUME Counts, RunEnds PROVE Counts'
<1> USE DEF Counts
<1>1. /\ agent' = "closing" /\ root'.tokens = counted
      /\ UNCHANGED <<sent, label, usage, pending, capture, counted, reached, result>>
      /\ agent \in {"boot", "between", "phase", "request"}
  BY RunEndsFrame DEF RunEnds, Finish, TimeOut, Crash, CloseRoot, spanVars, captureVars
<1>2. output'.marked =>
          /\ output'.tokens = capture.tokens /\ output'.byPhase = capture.byPhase
          /\ output'.end # "timeout" => agent = "between"
  <2>1. CASE Finish
    BY <2>1 DEF Finish, Marker
  <2>2. CASE TimeOut
    BY <2>2 DEF TimeOut, Marker
  <2>3. CASE Crash
    BY <2>3 DEF Crash, Unmarked, NoMarker
  <2>4. QED
    BY <2>1, <2>2, <2>3 DEF RunEnds
<1>3. SpansTyped' /\ CaptureCounts'
  BY <1>1, CountsFrame
<1>4. PendingIsCurrent'
  BY <1>1 DEF PendingIsCurrent
<1>5. MarkerCounts'
  BY <1>1, <1>2 DEF MarkerCounts, PendingIsCurrent, Over
<1>6. QED
  BY <1>3, <1>4, <1>5

LEMMA CountsStep == Counts /\ [Next]_vars => Counts'
<1> SUFFICES ASSUME Counts, [Next]_vars PROVE Counts'
  OBVIOUS
<1> USE DEF Counts
<1>1. CASE ExportInBackground \/ FlushAnswer
  <2>1. /\ Flush(queue)
        /\ UNCHANGED <<phase, sent, label, usage, pending, capture, counted, root,
                       output, result>>
        /\ \/ UNCHANGED agent /\ agent \notin {"exited", "killed"}
           \/ agent = "flushing" /\ agent' = "phase"
    BY <1>1 DEF ExportInBackground, FlushAnswer, engineVars, runVars, spanVars, captureVars
  <2>2. reached' \cup queue' \subseteq reached \cup queue
    BY <2>1 DEF Flush
  <2>3. SpansTyped' /\ CaptureCounts'
    BY <2>1, CountsFrame
  <2>4. QED
    BY <2>1, <2>2, <2>3 DEF PendingIsCurrent, MarkerCounts, Over
<1>2. CASE \E t \in onTheWay : Deliver(t)
  <2>1. UNCHANGED <<agent, phase, sent, label, usage, pending, capture, counted, root,
                    queue, reached, output, result>>
    BY <1>2 DEF Deliver, engineVars, runVars, spanVars, captureVars
  <2>2. QED
    BY <2>1, CountsFrame DEF PendingIsCurrent, MarkerCounts
<1>3. CASE Boot \/ \E p \in Phases : StartPhase(p)
  <2>1. /\ UNCHANGED <<sent, label, usage, pending, capture, counted, root, queue,
                       reached, output, result>>
        /\ agent \in {"boot", "between"}
        /\ agent' = "between" \/ (agent' = "phase" /\ phase' \in Phases)
    BY <1>3 DEF Boot, StartPhase, engineVars, runVars, spanVars, captureVars, exportVars
  <2>2. QED
    BY <2>1, CountsFrame DEF PendingIsCurrent, MarkerCounts, Over
<1>4. CASE SendRequest \/ EndPhase \/ Answer \/ RunEnds
  BY <1>4, SendCounts, EndPhaseCounts, AnswerCounts, RunEndCounts
<1>5. CASE AnswerWithoutUsage
  <2>1. /\ UNCHANGED <<phase, sent, label, usage, pending, capture, counted, root,
                       reached, output, result>>
        /\ agent = "request" /\ agent' = "phase" /\ queue' = queue \cup {sent}
    BY <1>5 DEF AnswerWithoutUsage, Enqueue, engineVars, runVars, spanVars, captureVars,
                exportVars
  <2>2. SpansTyped' /\ CaptureCounts'
    BY <2>1, CountsFrame
  <2>3. PendingIsCurrent'
    BY <2>1 DEF PendingIsCurrent
  <2>4. MarkerCounts'
    BY <2>1 DEF MarkerCounts, PendingIsCurrent, SpansTyped, Over
  <2>5. QED
    BY <2>2, <2>3, <2>4
<1>6. CASE Shutdown
  <2>1. /\ UNCHANGED <<phase, sent, label, usage, pending, capture, counted, root,
                       output, result>>
        /\ agent = "closing" /\ agent' = "exited"
    BY <1>6 DEF Shutdown, engineVars, runVars, spanVars, captureVars
  <2>2. QED
    BY <2>1, CountsFrame DEF PendingIsCurrent, MarkerCounts, Over
<1>7. CASE OutOfMemory \/ StopContainer
  <2>1. /\ UNCHANGED <<phase, sent, label, usage, pending, capture, counted, root,
                       reached, result>>
        /\ \/ agent' = "killed" /\ queue' = {} 
           \/ UNCHANGED <<agent, queue>>
        /\ \/ UNCHANGED output
           \/ agent \notin {"exited", "killed"} /\ ~ output'.marked
    BY <1>7 DEF OutOfMemory, StopContainer, Kill, Unmarked, NoMarker, engineVars, runVars,
                spanVars, captureVars, exportVars
  <2>2. SpansTyped' /\ CaptureCounts'
    BY <2>1, CountsFrame
  <2>3. QED
    BY <2>1, <2>2 DEF PendingIsCurrent, MarkerCounts, Over
<1>8. CASE EngineSteps
  <2>1. /\ UNCHANGED <<agent, phase, sent, label, usage, pending, capture, counted, root,
                       queue, reached, output>>
        /\ \/ UNCHANGED result
           \/ ~ result'.marked
           \/ result' = output /\ agent \in {"exited", "killed"}
    BY <1>8 DEF EngineSteps, Collect, GiveUp, TagTrace, OmitTag, Unmarked, NoMarker,
                runVars, spanVars, captureVars, exportVars
  <2>2. QED
    BY <2>1, CountsFrame DEF PendingIsCurrent, MarkerCounts
<1>9. CASE NextTask
  <2>1. SpansTyped' /\ PendingIsCurrent' /\ MarkerCounts'
    BY <1>9, RunReportAssumption
       DEF NextTask, SpansTyped, PendingIsCurrent, MarkerCounts, NoMarker, Over
  <2>2. CaptureCounts'
    BY <1>9, FS_EmptySet DEF NextTask, CaptureCounts, Logged, NoTokens
  <2>3. QED
    BY <2>1, <2>2
<1>10. CASE UNCHANGED vars
  BY <1>10, CountsFrame DEF vars, engineVars, runVars, spanVars, captureVars, exportVars,
                            PendingIsCurrent, MarkerCounts
<1>11. QED
  BY StepCases, <1>1, <1>2, <1>3, <1>4, <1>5, <1>6, <1>7, <1>8, <1>9, <1>10
     DEF AgentSteps, RequestEnds

(***************************************************************************)
(* Log and spans tell the same tokens: per phase, in total, and on the     *)
(* root span.                                                              *)
(***************************************************************************)
THEOREM LogAndSpansAgree == Spec => []TokensAgree
<1>1. Init => Counts
  <2> SUFFICES ASSUME Init PROVE Counts
    OBVIOUS
  <2>1. SpansTyped /\ PendingIsCurrent /\ MarkerCounts
    BY RunReportAssumption
       DEF Init, SpansTyped, PendingIsCurrent, MarkerCounts, NoMarker, Over
  <2>2. CaptureCounts
    BY FS_EmptySet DEF Init, CaptureCounts, Logged, NoTokens
  <2>3. QED
    BY <2>1, <2>2 DEF Counts
<1>2. Counts => TokensAgree
  <2> SUFFICES ASSUME Counts PROVE TokensAgree
    OBVIOUS
  <2>1. UNION {Logged(p) : p \in Phases} = usage \ pending
    <3>1. ASSUME NEW r \in usage \ pending
          PROVE  \E p \in Phases : r \in Logged(p)
      BY DEF Counts, SpansTyped, Logged
    <3>2. QED
      BY <3>1 DEF Logged
  <2>2. QED
    BY <2>1 DEF Counts, CaptureCounts, MarkerCounts, TokensAgree
<1>3. QED
  BY CountsStep, <1>1, <1>2, PTL DEF Spec

-----------------------------------------------------------------------------
(***************************************************************************)
(* Traces: only tasks that have begun have one.                            *)
(***************************************************************************)
Arrived ==
    /\ task \in 1 .. NTasks
    /\ onTheWay \cup traces \subseteq 1 .. task
    /\ DOMAIN tag = Tasks

LEMMA ArrivedStep == Arrived /\ [Next]_vars => Arrived'
<1> SUFFICES ASSUME Arrived, [Next]_vars PROVE Arrived'
  OBVIOUS
<1> USE RunReportAssumption DEF Arrived, Tasks
<1>1. CASE ExportInBackground \/ FlushAnswer
  BY <1>1 DEF ExportInBackground, FlushAnswer, Flush, engineVars
<1>2. CASE \E t \in onTheWay : Deliver(t)
  BY <1>2 DEF Deliver, engineVars
<1>3. CASE AgentSteps \/ RunEnds
  BY <1>3, AgentStepsFrame, RunEndsFrame
<1>4. CASE RequestEnds
  BY <1>4 DEF RequestEnds, Answer, AnswerWithoutUsage, engineVars, exportVars, serverVars
<1>5. CASE Shutdown
  BY <1>5 DEF Shutdown, engineVars
<1>6. CASE OutOfMemory \/ StopContainer
  BY <1>6 DEF OutOfMemory, StopContainer, engineVars, exportVars, serverVars
<1>7. CASE EngineSteps
  BY <1>7 DEF EngineSteps, Collect, GiveUp, TagTrace, OmitTag, exportVars, serverVars
<1>8. CASE NextTask
  BY <1>8 DEF NextTask, serverVars
<1>9. CASE UNCHANGED vars
  BY <1>9 DEF vars, engineVars, exportVars, serverVars
<1>10. QED
  BY StepCases, <1>1, <1>2, <1>3, <1>4, <1>5, <1>6, <1>7, <1>8, <1>9

(***************************************************************************)
(* The newest of the traces found is the run's own if that has arrived, or *)
(* if the server lets no other one through.                                *)
(***************************************************************************)
LEMMA NewestIsOwn ==
    ASSUME Arrived, Found(task) # 0, HasTrace(task) \/ ~ promotes
    PROVE  Found(task) = task
<1> DEFINE found == {t \in Tasks : Matches(t, task)}
<1>1. found # {} /\ Found(task) = Max(found)
  BY DEF Found, Newest
<1>2. found \subseteq 1 .. task
  BY DEF Matches, HasTrace, Arrived
<1>3. task \in found
  BY <1>1 DEF Matches, HasTrace, Arrived, Tasks
<1>4. Max(found) \in found /\ \A t \in found : Max(found) >= t
  <2>1. \E x \in found : \A y \in found : x >= y
    BY <1>2, <1>3 DEF Arrived
  <2>2. QED
    BY <2>1 DEF Max
<1>5. QED
  BY <1>1, <1>2, <1>3, <1>4 DEF Arrived

(***************************************************************************)
(* A run is tagged with another task's trace only if the server promotes   *)
(* the batch id and the run's own trace has not arrived.                   *)
(***************************************************************************)
THEOREM TagsAreOwn == Spec => TagsOwnTrace
<1>1. Init => Arrived
  BY RunReportAssumption DEF Init, Arrived, Tasks
<1>2. Arrived /\ [Next]_vars =>
          [\A t \in Tasks : tag'[t] # tag[t] =>
              tag'[t] = t \/ (promotes /\ ~ HasTrace(t))]_vars
  <2> SUFFICES ASSUME Arrived, [Next]_vars, NEW t \in Tasks, tag'[t] # tag[t]
               PROVE  tag'[t] = t \/ (promotes /\ ~ HasTrace(t))
    OBVIOUS
  <2>1. TagTrace
    <3>1. CASE ExportInBackground \/ FlushAnswer \/ (\E s \in onTheWay : Deliver(s))
      BY <3>1 DEF ExportInBackground, FlushAnswer, Deliver, engineVars
    <3>2. CASE AgentSteps \/ RunEnds
      BY <3>2, AgentStepsFrame, RunEndsFrame
    <3>3. CASE RequestEnds \/ Shutdown \/ OutOfMemory
      BY <3>3 DEF RequestEnds, Answer, AnswerWithoutUsage, Shutdown, OutOfMemory,
                  engineVars
    <3>4. CASE StopContainer \/ Collect \/ GiveUp \/ OmitTag \/ NextTask
      BY <3>4 DEF StopContainer, Collect, GiveUp, OmitTag, NextTask
    <3>5. CASE UNCHANGED vars
      BY <3>5 DEF vars, engineVars
    <3>6. QED
      BY StepCases, <3>1, <3>2, <3>3, <3>4, <3>5 DEF EngineSteps
  <2>2. t = task /\ tag'[t] = Found(task) /\ Found(task) # 0
    BY <2>1 DEF TagTrace, Arrived
  <2>3. QED
    BY <2>2, NewestIsOwn
<1>3. QED
  BY ArrivedStep, <1>1, <1>2, PTL DEF Spec, TagsOwnTrace

=============================================================================
