----------------------------- MODULE RunReport -----------------------------
(***************************************************************************)
(* What a run tells about itself, and what of it survives: a batch of      *)
(* tasks, one after the other, each with an agent process that reports its *)
(* tokens and the reason it ended twice - through its log events, folded   *)
(* by MetricsCapture into the marker line on stderr (dev_env.py,           *)
(* metrics_capture.py), and through spans that reach the trace server with *)
(* a lag (telemetry/__init__.py) - and the engine that reads the marker    *)
(* and looks for the trace (run_engine.py).                                *)
(* An answer that reports usage counts one token.                          *)
(***************************************************************************)
EXTENDS Naturals, FiniteSets, FiniteSetsExt

CONSTANTS
    NTasks,         \* tasks of the batch, numbered
    Phases,         \* phase ids
    MaxRequests     \* bound: requests per run

ASSUME RunReportAssumption ==
    /\ NTasks \in Nat \ {0}
    /\ MaxRequests \in Nat
    /\ "none" \notin Phases

Tasks == 1 .. NTasks
Requests == 1 .. MaxRequests
Root == 0                               \* the agent.run span
NoTokens == [p \in Phases |-> 0]

VARIABLES
    promotes,       \* environment: does the server copy span attributes
                    \* to trace tags?
    task,           \* the task the engine is at
    engine,         \* where run_task and log_task_to_mlflow are
    agent,          \* where the agent process is
    phase,          \* phase of the run in progress, "none" between phases
    sent,           \* requests sent in this run
    label,          \* per request: phase its span carries
    usage,          \* requests whose answer reported usage
    pending,        \* requests with usage that is not logged yet
    capture,        \* MetricsCapture: tokens, and tokens per phase
    counted,        \* _ShlepaSpanProcessor: tokens, stamped on the open root
    root,           \* the root span, once it ended: reason and tokens
    queue,          \* ended spans the exporter still holds
    reached,        \* spans of this run the collector has taken
    onTheWay,       \* tasks with spans between collector and trace server
    traces,         \* tasks with a trace on the server
    output,         \* what the process leaves: marker and exit code
    result,         \* what the engine recorded of this run
    tag,            \* per task: the task whose trace its run is tagged with
    excused         \* history: answers whose flush did not go through

spanVars == <<label, usage>>
captureVars == <<pending, capture>>
runVars == <<phase, sent, spanVars, captureVars, counted>>
serverVars == <<onTheWay, traces>>
exportVars == <<reached, serverVars, excused>>
engineVars == <<task, engine, result, tag>>
vars == <<promotes, engineVars, agent, runVars, root, queue, exportVars, output>>

NoMarker == [marked |-> FALSE, tokens |-> 0, byPhase |-> NoTokens, end |-> "none"]
Unmarked(end) == [NoMarker EXCEPT !.end = end]
NoRoot == [reason |-> "none", tokens |-> 0]

Init ==
    /\ promotes \in BOOLEAN
    /\ task = 1
    /\ engine = "agent"
    /\ onTheWay = {} /\ traces = {}
    /\ tag = [t \in Tasks |-> 0]
    /\ agent = "boot" /\ phase = "none" /\ sent = 0
    /\ label = [r \in Requests |-> "none"]
    /\ usage = {} /\ pending = {}
    /\ capture = [tokens |-> 0, byPhase |-> NoTokens]
    /\ counted = 0 /\ root = NoRoot
    /\ queue = {} /\ reached = {} /\ excused = {}
    /\ output = NoMarker /\ result = NoMarker

-----------------------------------------------------------------------------
(* Spans.                                                                  *)

\* An ended span is handed to the BatchSpanProcessor.
Enqueue(spans) == queue' = queue \cup spans

\* flush_spans: the queue leaves the process, or the flush window is over
\* first and the spans wait for another one, or the collector is not there
\* and the exporter drops them.
Flush(spans) ==
    /\ UNCHANGED traces
    /\ \/ /\ reached' = reached \cup spans
          /\ onTheWay' = onTheWay \cup {task}
          /\ queue' = {}
          /\ UNCHANGED excused
       \/ /\ queue' \in {spans, {}}
          /\ excused' = excused \cup (spans \cap usage)
          /\ UNCHANGED <<reached, onTheWay>>

\* The background thread of the BatchSpanProcessor.
ExportInBackground ==
    /\ agent \notin {"exited", "killed"}
    /\ queue # {}
    /\ Flush(queue)
    /\ UNCHANGED <<promotes, engineVars, agent, runVars, root, output>>

\* The collector passes on what it has taken, in batches and with a lag.
Deliver(t) ==
    /\ onTheWay' = onTheWay \ {t}
    /\ traces' = traces \cup {t}
    /\ UNCHANGED <<promotes, engineVars, agent, runVars, root, queue, reached,
                   excused, output>>

-----------------------------------------------------------------------------
(* The agent process: runner, model and span processor.                    *)

\* load_config and the logging set-up ran; preflight makes no LLM span here.
Boot ==
    /\ agent = "boot"
    /\ agent' = "between"
    /\ UNCHANGED <<promotes, engineVars, runVars, root, queue, exportVars, output>>

\* phase_context and model.current_phase.
StartPhase(p) ==
    /\ agent = "between"
    /\ agent' = "phase"
    /\ phase' = p
    /\ UNCHANGED <<promotes, engineVars, sent, spanVars, captureVars, counted,
                   root, queue, exportVars, output>>

\* MetricsCapture.consume of a usage event: the totals are the cumulative
\* ones, the phase gets what they grew by.
Consume(logged, p) ==
    LET cumulative == capture.tokens + Cardinality(logged) IN
    capture' = [tokens |-> cumulative,
                byPhase |-> [capture.byPhase EXCEPT
                                ![p] = @ + (cumulative - capture.tokens)]]

\* log_pending_usage, tagged with the phase that is current now.
LogPending ==
    /\ Consume(pending, phase)
    /\ pending' = {}

\* A request logs the usage of the one before it; on_start labels its span.
SendRequest ==
    /\ agent = "phase"
    /\ sent < MaxRequests
    /\ agent' = "request"
    /\ sent' = sent + 1
    /\ LogPending
    /\ label' = [label EXCEPT ![sent + 1] = phase]
    /\ UNCHANGED <<promotes, engineVars, phase, usage, counted, root, queue,
                   exportVars, output>>

\* Mutant: the counting processor runs before the one that queues the span,
\* so that its flush comes too early.
AnswerFlushFirst ==
    /\ agent = "request"
    /\ agent' = "phase"
    /\ usage' = usage \cup {sent}
    /\ pending' = {sent}
    /\ counted' = counted + 1
    /\ reached' = reached \cup queue
    /\ queue' = {sent}
    /\ UNCHANGED <<promotes, engineVars, phase, sent, label, capture, root,
                   serverVars, excused, output>>

\* The answer is complete: its span ends, is queued, counted on the root.
Answer ==
    /\ agent = "request"
    /\ agent' = "flushing"
    /\ usage' = usage \cup {sent}
    /\ pending' = {sent}
    /\ counted' = counted + 1
    /\ Enqueue({sent})
    /\ UNCHANGED <<promotes, engineVars, phase, sent, label, capture, root,
                   exportVars, output>>

\* The rest of on_end, in the same thread.
FlushAnswer ==
    /\ agent = "flushing"
    /\ agent' = "phase"
    /\ Flush(queue)
    /\ UNCHANGED <<promotes, engineVars, runVars, root, output>>

\* A failed request, or an answer without usage: its span carries no token
\* counts, is not counted and not flushed.
AnswerWithoutUsage ==
    /\ agent = "request"
    /\ agent' = "phase"
    /\ Enqueue({sent})
    /\ UNCHANGED <<promotes, engineVars, runVars, root, exportVars, output>>

\* Mutant: the end of a phase run leaves the last usage pending.
EndPhaseUnlogged ==
    /\ agent = "phase"
    /\ agent' = "between"
    /\ phase' = "none"
    /\ UNCHANGED <<promotes, engineVars, sent, spanVars, captureVars, counted,
                   root, queue, exportVars, output>>

\* Every end of _run_phase and of an ask logs the pending usage.
EndPhase ==
    /\ agent = "phase"
    /\ agent' = "between"
    /\ phase' = "none"
    /\ LogPending
    /\ UNCHANGED <<promotes, engineVars, sent, spanVars, counted, root, queue,
                   exportVars, output>>

-----------------------------------------------------------------------------
(* The ends of a run.                                                      *)

\* How _pipeline and run_prompt end: the reason they stamp on the root span
\* and the status of the agent_done event.  An unexpected exception is
\* swallowed and stamps nothing.
Endings == {<<"none", "done">>, <<"timeout", "timeout">>, <<"error", "error">>,
            <<"budget", "timeout">>, <<"endpoint_finalized", "done">>,
            <<"none", "error">>}

\* _TERMINATION: every other status stands for itself.
Termination(status) ==
    IF status = "done" THEN "ok" ELSE status

Marker(end) == [marked |-> TRUE, tokens |-> capture.tokens,
                byPhase |-> capture.byPhase, end |-> end]

\* The root span ends with the run and waits for provider.shutdown; what
\* was stamped on it before its end cannot be flushed any earlier.
CloseRoot(why) ==
    /\ agent' = "closing"
    /\ root' = [reason |-> why, tokens |-> counted]
    /\ Enqueue({Root} \cup IF agent = "request" THEN {sent} ELSE {})
    /\ UNCHANGED <<promotes, engineVars, phase, sent, spanVars, captureVars, counted,
                   exportVars>>

Finish ==
    /\ agent = "between"
    /\ \E e \in Endings :
           /\ output' = Marker(Termination(e[2]))
           /\ CloseRoot(e[1])

\* Mutant: the handled time-out is not stamped on the trace.
TimeOutUnmarked ==
    /\ agent \in {"between", "phase", "request"}
    /\ output' = Marker("timeout")
    /\ CloseRoot("none")

\* wait_for expires while the run awaits something: the run is cancelled
\* where it is, so a usage that is still pending is never logged.
TimeOut ==
    /\ agent \in {"between", "phase", "request"}
    /\ output' = Marker("timeout")
    /\ CloseRoot("timeout")

\* An exception outside run_prompt's try, for instance of load_config.
Crash ==
    /\ agent = "boot"
    /\ output' = Unmarked("crash")
    /\ CloseRoot("crash:Exc")

\* provider.shutdown and the end of the process.
Shutdown ==
    /\ agent = "closing"
    /\ agent' = "exited"
    /\ queue' = {}
    /\ UNCHANGED <<promotes, engineVars, runVars, root, traces, output>>
    /\ \/ /\ reached' = reached \cup queue
          /\ onTheWay' = onTheWay \cup {task}
          /\ UNCHANGED excused
       \/ /\ excused' = excused \cup (queue \cap usage)
          /\ UNCHANGED <<reached, onTheWay>>

\* SIGKILL: nothing of what the process still holds is flushed.
Kill == agent' = "killed" /\ queue' = {}

\* Out of memory: the exit code is 137, a marker printed before stays.
OutOfMemory ==
    /\ agent \notin {"exited", "killed"}
    /\ Kill
    /\ output' = IF output.marked THEN output ELSE Unmarked("oom")
    /\ UNCHANGED <<promotes, engineVars, runVars, root, exportVars>>

-----------------------------------------------------------------------------
(* The engine.                                                             *)

\* run_agent_in_container: with a marker its content counts, whatever the
\* exit code; without one _classify_termination names the exception.
Collect ==
    /\ engine = "agent"
    /\ agent \in {"exited", "killed"}
    /\ result' = output
    /\ engine' = "grader"
    /\ UNCHANGED <<promotes, task, tag, agent, runVars, root, queue, exportVars, output>>

\* The hard time-out of docker exec gives up; the process goes on.
GiveUp ==
    /\ engine = "agent"
    /\ result' = Unmarked("exec_timeout")
    /\ engine' = "grader"
    /\ UNCHANGED <<promotes, task, tag, agent, runVars, root, queue, exportVars, output>>

\* docker stop, at the end of run_task.
StopContainer ==
    /\ engine = "grader"
    /\ engine' = "search"
    /\ IF agent = "exited" THEN UNCHANGED <<agent, queue>> ELSE Kill
    /\ UNCHANGED <<promotes, task, result, tag, runVars, root, exportVars, output>>

\* The search has all traces of the batch's time window, the newest first.
Newest(found) == IF found = {} THEN 0 ELSE Max(found)

HasTrace(t) == t \in traces

\* Mutant: spans of the same batch are enough.
MatchesBatchOnly(t, wanted) == HasTrace(t)

\* _find_batch_trace_inner: a trace that carries the batch id as a tag is
\* taken as it is; of the others the spans must name batch and task.
Matches(t, wanted) == HasTrace(t) /\ (promotes \/ t = wanted)

Found(wanted) == Newest({t \in Tasks : Matches(t, wanted)})

\* record_trace_tag: the first trace a search finds within the deadline.
TagTrace ==
    /\ engine = "search"
    /\ Found(task) # 0
    /\ tag' = [tag EXCEPT ![task] = Found(task)]
    /\ engine' = "logged"
    /\ UNCHANGED <<promotes, task, result, agent, runVars, root, queue, exportVars, output>>

\* The deadline passes while the server has nothing, or does not answer.
OmitTag ==
    /\ engine = "search"
    /\ engine' = "logged"
    /\ UNCHANGED <<promotes, task, result, tag, agent, runVars, root, queue, exportVars, output>>

NextTask ==
    /\ engine = "logged"
    /\ task < NTasks
    /\ task' = task + 1
    /\ engine' = "agent"
    /\ agent' = "boot" /\ phase' = "none" /\ sent' = 0
    /\ label' = [r \in Requests |-> "none"]
    /\ usage' = {} /\ pending' = {}
    /\ capture' = [tokens |-> 0, byPhase |-> NoTokens]
    /\ counted' = 0 /\ root' = NoRoot
    /\ queue' = {} /\ reached' = {} /\ excused' = {}
    /\ output' = NoMarker /\ result' = NoMarker
    /\ UNCHANGED <<promotes, tag, serverVars>>

Done ==
    /\ engine = "logged" /\ task = NTasks
    /\ UNCHANGED vars

Next ==
    \/ ExportInBackground
    \/ \E t \in onTheWay : Deliver(t)
    \/ Boot
    \/ \E p \in Phases : StartPhase(p)
    \/ SendRequest \/ Answer \/ FlushAnswer \/ AnswerWithoutUsage \/ EndPhase
    \/ Finish \/ TimeOut \/ Crash \/ Shutdown \/ OutOfMemory
    \/ Collect \/ GiveUp \/ StopContainer \/ TagTrace \/ OmitTag \/ NextTask
    \/ Done

Spec == Init /\ [][Next]_vars

-----------------------------------------------------------------------------
\* The usage a run has logged, as its spans carry it: by phase label.
Logged(p) == {r \in usage \ pending : label[r] = p}

(***************************************************************************)
(* The tokens of a run are told the same way by its log and by its spans:  *)
(* the marker's total is all answered requests of its phases, its phases   *)
(* are those with their label and so add up to it, only a cancelled run    *)
(* lacks its last answer, and the root span lacks none.                    *)
(***************************************************************************)
TokensAgree ==
    /\ result.marked =>
           /\ result.tokens = Cardinality(UNION {Logged(p) : p \in Phases})
           /\ \A p \in Phases : result.byPhase[p] = Cardinality(Logged(p))
           /\ result.end # "timeout" => pending = {}
    /\ Root \in reached => root.tokens = Cardinality(usage)

(***************************************************************************)
(* "a hard docker exec timeout right after the last LLM call loses at most *)
(* one in-flight batch" (flush_spans): of the answers with usage, the      *)
(* collector lacks those whose flush did not go through and at most the    *)
(* last one, when the process was killed inside its flush.                 *)
(***************************************************************************)
KillLosesOneFlush ==
    LET missing == usage \ (reached \cup excused) IN
    missing # {} => /\ agent \in {"flushing", "killed"}
                    /\ missing = {sent}

(***************************************************************************)
(* A trace never contradicts the result its run is listed with: of the     *)
(* reasons on a root span that reached the collector, each goes with one   *)
(* way the engine says the run ended (budget is listed as a time-out).     *)
(***************************************************************************)
ReasonsAgree ==
    Root \in reached =>
        /\ result.end = "ok" => root.reason \in {"none", "endpoint_finalized"}
        /\ result.end = "timeout" => root.reason \in {"timeout", "budget"}
        /\ result.end = "error" => root.reason \in {"error", "none"}
        /\ result.end = "crash" => root.reason = "crash:Exc"

(***************************************************************************)
(* find_batch_trace finds "the trace of one task in this batch": a run is  *)
(* tagged with the trace of another task only when the server promotes the *)
(* batch id to a trace tag and the run's own trace has not arrived yet.    *)
(***************************************************************************)
TagsOwnTrace ==
    [][\A t \in Tasks : tag'[t] # tag[t] =>
           tag'[t] = t \/ (promotes /\ ~ HasTrace(t))]_vars

=============================================================================
