# A verification project for shlepa

`shlepa` is an LLM agent for container tasks (`src/agent`), with a command-line
tool that runs it on task suites, grades the result and records everything in
MLflow (`src/cli`).  This directory holds TLA+ models of the parts whose
behaviour depends on the order of events - requests that fail in many ways,
time caps, retries, parallel tool calls, a server whose answers get lost - the
TLC runs that check them, and TLAPS proofs about the core.

Everything is translated from the code; comments and docs are only used as the
statements the code is held against (section 5).

## 1. The system and its parts

**Agent (one process, one asyncio event loop).**

| part | code | state | operations | depends on |
|---|---|---|---|---|
| pipeline runner | `runner.py`, `phases/*.py` | `RunState`: cycle counter, `results` per phase, `plan_handoff`, deliverable spec, terminal status | `_pipeline`, `_run_phase`, `_run_phase_with_retries`, `_final_ask`, `_plan_handoff`, `_endpoint_finalize` | TrackedModel, tools |
| TrackedModel | `model.py` | effective output cap, failure streak, pending usage, last messages, current phase | `preflight`, `request`, `request_stream`, `log_pending_usage`, `note_endpoint_*` | the endpoint |
| file tools | `tools/write.py`, `edit.py`, `base.py` | the work directory, `RepairScope` budget | `write`, `edit` under `run_file_tool` | worker threads |
| bash tool | `tools/bash.py` | a process group per call, bounded output | spawn, drain, time-out kill | finalization reserve |
| read tool | `tools/read.py` | none; the reader's place in the file | one page, where to continue | files that others write |
| recon | `tools/recon_tool.py`, `recon.py` | frontier, results, request count, deadline | five stages against a web target; maps of a source tree or data | the target, the wall of the tool |
| failure ledger, stagnation | `state.py`, `tools/base.py` | failure keys seen, bounded key window | record and compress repeated failures | every tool result |
| transcript, hand-off | `state.py`, `phases/commit.py` | `last_messages` | `trim_history`, `extract_last_tools` | runner, TrackedModel |
| telemetry | `telemetry/` | open spans, token totals, export queue | label, count, flush, export; stamp the reason of the end | TrackedModel, runner |
| deliverable check | `deliverable_check.py` | | check cascade after WORK | runner, files of the work directory |
| test guard | `test_guard.py` | hashes of protected files | compare before and after | runner |
| disabled phases | `phases/commit.py`, `salvage.py`, `emergency.py` | | not routed to by the runner | |
| configuration | `config.py`, `config.toml`, `budget.py`, `toolsets.py` | settings | load, merge, clamp | |
| reporting | `outputs.py`, `template.py`, `log.py` | | schemas, text, best-effort events | |

**Command line (one process per command, blocking calls).**

| part | code | state | operations | depends on |
|---|---|---|---|---|
| batch engine | `run_engine.py` (`run_preset`, `log_task_to_mlflow`, sweep) | MLflow runs, loop position | create, log, close runs; sweep its orphans | tracking server |
| reconciliation | `clean.py` | | close dev runs left open | tracking server |
| task run | `run_engine.py` (`run_task`), `dev_env.py`, `docker_client.py`, `evaluation.py` | workspace, container, reward file | build, start, agent, grader, stop | docker, agent |
| metrics | `metrics_capture.py` | cumulative counters, per-phase buckets | consume log events | agent's `usage` events |
| traces | `trace_export.py`, `mlflow_compat.py`, `trace_digest.py`, `record_trace_tag` | page token, ids seen | search, tag, export | tracking server |
| submission | `zip_build.py`, `zip_register.py`, `compliance.py`, `submit_test.py` | zip, register file | pack, check, run, register | |
| the rest | `smoke.py`, `doctor.py`, `tasks.py`, `main.py`, ... | | command wrappers | |

**How they interact.**  The runner drives one phase at a time; a phase sends
requests through TrackedModel and runs the tool calls of each response, several
of them concurrently.  TrackedModel hands its failure streak back to the runner
(`endpoint_stalled`), which then ends the run.  The runner tells TrackedModel the
current phase, which TrackedModel puts on usage records it logs *later*.  Tools
share the disk and `AgentDeps`.  The engine sees the agent only as a process with
a log, and the tracking server as a set of calls that may raise; what it reports of
a run comes from the log (marker line) and from the agent's spans, which reach the
trace server by themselves.

**What is hard, and what makes each part correct.**

* *Runner.*  Three phases, two one-shot asks, retries, a stall check in some
  places and not in others, results overwritten at different times.  Correct
  when it runs exactly the promised cycles, builds no prompt from a stale result,
  reports the last WORK's status, stops a storm, and always returns.
* *TrackedModel.*  One request has two open attempts and a stream that can fail
  on any chunk; the cap sent is discovered and shrinks; usage is logged one request
  late.  Correct when a request counts once, the cap only moves down to what fits,
  usage is attributed to the phase that spent it, and no request hangs.
* *File tools.*  Check and write are separated by awaits, and a call that timed
  out leaves a thread that still writes.  Correct when the disk is what the
  model was told - as far as that can be had.
* *Bash.*  The command is a tree of processes that hold the pipes or do not, outlive the
  shell or leave its session; the call has its own time-out and the phase cap on top.
  Correct when a result is final: killed means killed, and nothing that still writes
  is behind a result that claims to be complete.
* *Ledger.*  One table for the run, one window for a phase, results of all tools in
  any order.  Correct when "repeated Nx" counts what happened and what is compressed
  was shown.
* *Task run.*  A time-out gives up a docker call, not what it started; a container
  can exist that the engine does not know.  Correct when no container outlives its
  attempt, nothing is graded while the agent still works, and what is recorded -
  error, termination, grade, status - tells one story.
* *Transcript.*  A conversation can be cut anywhere; the next one goes on from the
  *request side* of its last request.  Correct when the endpoint accepts what is sent -
  every call answered, nothing else - and when the hand-off and the relay tell what
  really happened.
* *Reports.*  Tokens and the reason of the end are told twice, by log events and by
  spans, each of which may be cut off by a kill.  Correct when the two stories agree, a
  kill costs at most the answer being flushed, and a run is tagged with its own trace.
* *Submit test.*  Job directories are found by name or by being the only one, in a
  directory that other commands fill too; runs are logged without a finally block.
  Correct when a directory stands in for at most one task and nothing but a death
  leaves a run open.
* *Read.*  A page is cut by lines and by characters and continued from an offset the
  last page gave.  Correct when a reader who follows the offsets misses nothing and gets
  to the end.
* *Recon.*  Waves of requests to a target that may be slow, refuse or redirect, one
  deadline, one limit on requests for two stages.  Correct when it asks for no page
  twice, goes level by level, stays in its limits and gets its result out in time.
* *Trace export.*  Pages of a list that grows at its head while it is read.  Correct when
  an export that is written is whole and has no duplicates.
* *MLflow runs.*  Every call can be applied and yet raise; a batch can die
  anywhere; batches and reconciliation overlap.  Correct when no run stays open
  after an orderly end, a FINISHED run is a complete one, and nobody closes
  what is not theirs.

`PROJECT.json` lists each hazard at its line with the properties that cover it,
and the ones no property covers yet.

## 2. Modules

| module | models | source |
|---|---|---|
| `Endpoint` | what the runner may rely on about one request at a time: open, refuse, break, close; the failure streak | `model.py`, interface |
| `CycleRegime` | abstract: the rounds a run goes through and the ways it may end | `runner.py`, module rules as implemented |
| `Pipeline` | the runner, on top of `Endpoint` | `runner.py`, `phases/base.py` |
| `TrackedModel` | preflight, open attempts, cap halving, streams, late usage | `model.py` |
| `BatchRuns` | batches and reconciliations on one tracking server | `run_engine.py`, `clean.py` |
| `TaskRun` | attempts at one task: container, agent, verifier, grade | `run_engine.py`, `dev_env.py`, `docker_client.py`, `evaluation.py` |
| `FileTools` | write and edit on one path, with worker threads and time-outs | `tools/*.py` |
| `BashTool` | commands with background children under time-outs and phases | `tools/bash.py`, `tools/base.py`, `runner.py` |
| `Ledger` | failure ledger and stagnation tracker behind every tool result | `tools/base.py`, `state.py` |
| `Transcript` | what each conversation begins with and what it hands over | `runner.py`, `model.py`, `phases/commit.py`, `state.py` |
| `RunReport` | tokens, reasons of the end and traces, from agent to MLflow run | `telemetry/`, `model.py`, `dev_env.py`, `metrics_capture.py`, `run_engine.py` |
| `SubmitTest` | submit-test commands, their job directories and MLflow runs | `submit_test.py` |
| `ReadPages` | a file read page by page | `tools/read.py` |
| `ReconWeb` | the inventory of a web target and the wall it runs against | `recon.py`, `tools/recon_tool.py` |
| `TraceExport` | the paged search of a batch's traces while others arrive | `trace_export.py`, `mlflow_compat.py` |
| `PipelineProofs`, `BatchRunsProofs`, `TaskRunProofs`, `FileToolsProofs`, `RunReportProofs`, `SubmitTestProofs` | theorems about the modules they are named after | |
| `TrackedModelProofs` | theorems about the model client and what it is sent: `TrackedModel`, `Transcript` | |
| `ToolProofs` | theorems about the agent's tools: `BashTool`, `Ledger`, `ReconWeb` | |
| `MC*` | values of the constants for TLC | |

```
   CycleRegime  <== implements ==  Pipeline  -- extends -->  Endpoint
                                                               ^
                                        TrackedModel == implements
```

So Pipeline is checked against an endpoint of six actions, and TrackedModel,
with its many more, is checked to be such an endpoint.

### Pipeline

One step is what the runner does between two awaits.  The end of an attempt is
one step with everything behind it: the result is stored
(`_run_phase_with_retries`), the retry is decided, the stall check is made and the
next phase is chosen, because no await lies between them.  `pc` is the phase or
ask that runs; while it runs, `OpenRequest`/`NextRequest` interleave with every
way to end: typed result (`Finish`), no typed result or an exception
(`FinishUntyped`, `PromptFails`, `StreamBreaksTerminal`: status "error"), a
refused request or the context limit (`RequestRefused*`: a hand-off, status
"timeout"), the phase's `asyncio.timeout` (`TimeCap`), and an exception outside the
attempt's `try` (`Crash`).  `results[p]` keeps the status and *the cycle that
stored it*: that is all the properties need to know of a summary.

Left out: prompt and event text, `save_state` (never read back), the deliverable
check, test guard and snapshot after WORK (no routing reads them).

### TrackedModel

`serverCap` and `needsCap` are the endpoint's shape, chosen once and never read by
anything but `Fits`.  `place` is `probe`, `idle`, one of two open attempts, or a
stream before/after its first chunk.  A stream opens *before* the endpoint has
judged the request, which is sent with the first read; this is why a rejected cap
or a terminal status can surface in `StreamEnds`/`StreamTerminal`.  A whole
response (`request`) is judged in the open attempt.  `EndRun` can come at any
time: it is the phase's time cap abandoning the request in flight.

### BatchRuns

One process per batch, `at` being the call it is about to make.  A call is
answered (`Sets`) or raises (`MaySet`), having been applied or not.  The finally
blocks open at a place decide where an exception leads: to `abandon`,
`closeFailed` or straight to `sweep`.  `InterruptSweep` is Ctrl-C with no handler
left, `Kill` is SIGKILL and also SIGTERM, for which the engine installs no handler
(a Ctrl-C elsewhere is one of the raising branches).  The reconciliation runs at
any time, any number of times, and may be stopped at any point (`StopReconcile`); each
search is a snapshot it then works through while batches go on.  `due` is a history:
what the reconciliation owes.

No search asks for a second page, and none filters by status: the sweep sees 500 of its
batch's runs (`SweepLimit`), a reconciliation 1000 of an experiment, runs long finished
and manual ones included (`ReconcileLimit`).  `Pages` is what such a search may list, the
order being the server's.  So `ShutdownClosesRuns` speaks of batches the sweep can see
whole, and `ReconcileIsThorough` exempts crowded experiments (`Crowded`), where the
docstring's "every run" does not hold (section 5).

Left out: pages of the list of experiments, calls that the server applies only after the
client has gone on, and trace tagging.

### TaskRun

`BatchRuns` has one step for `run_task`; this module is its inside, for several
`shlepa run` processes at work on the same task.  `at` is the docker call in
progress; the agent and the verifier are processes of their own in the container
`box[a]`, and a time-out gives up the call, not the process.  `known` is "the
variable `container` is set", which is what the finally block looks at.  Workspace
names have a resolution of one second, so two attempts may share one and with it
the reward file: `workspace` is chosen in `Init` among all ways of sharing.
`MarkedFailed` is the rule by which `log_task_to_mlflow` closes the run, the
"outcome" of `BatchRuns`.  `scripted` tells tasks with a `tests/test.sh` from those
graded by pytest.

Left out: the experimental host mode, image contents and hashes, token counts.

### FileTools

Calls of one response run concurrently (pydantic-ai); the steps are what lies
between two awaits of a tool body.  A `write_text` thread goes from `queued` over
`open` (the file is truncated) to `landed`; a time-out cancels a queued thread or
leaves a running one behind.  `told` is a history: the file according to the
reports.  The repair scope is only set by a phase the runner does not route to at
present; `edit` still enforces it, so both cases are modelled (`repairing`).

Left out: several fragments in one edit call, `read`, other paths, size limits.

### BashTool

Per call a shell, which leads a session of its own, and one background child of a
kind chosen in `Init`: it holds the pipes, had them redirected (`nohup ... &`), or
has left the session with them (`setsid`).  `Reads`, `Drained`, `TimeOut` and `Reap`
are the awaits of `bash`; `Drained` needs both pipes at their end, that is empty and
held by nobody.  `Kill` does not look at the shell's exit, as the code's comment
demands, and reaches neither a redirected child's pipes nor one outside the session.
A killed process is `dying` until it is gone, which the engine does not wait for
beyond five seconds.  `PhaseCut` is the phase's `asyncio.timeout`: it abandons the
call in `draining` or `reaping` and kills nothing.  In the reserve a call is answered
without a process.

Left out: clock values, the clamping of the time-out, what the retainer keeps of the
output, cancellation in the middle of the spawn.

### Ledger

A result is a record of what the code distinguishes: the tool with its arguments,
whether the tool flagged a failure, the exit code found in the text (it decides what
is a failure, and is in the key only as part of the text), the text within the 4000
characters of the key (`head`) - and what it does not, the text beyond (`tail`).  `Result` is one `format_tool_result` with the tracker and the ledger in the
order of the code; calls of one response come one after the other, as there is no
await in it.  `results` is a history.  `PhaseIds` is the sequence of phases of a run:
ids repeat from cycle to cycle, which is all the tracker compares.

`enabled` is the `SHLEPA_LEDGER` switch, chosen once per run: switched off, every result
goes out in full while the tracker works on.

Left out: whitespace normalisation.

### Transcript

A message is what `trim_history` looks at: request or response, prompt, calls, returns,
retry prompts.  Calls are numbered within a conversation; `idOf` is what they are called
on the wire, where an id is unique in one response only - this is what makes the pairing
of calls and results in `extract_last_tools` interesting.  `last` is
`model.last_messages`, set when a request is *sent*: it holds no response to it.  A
conversation ends by its typed result, by an error, by a retry of the phase (which
starts afresh) or cut off at any point; the one-shot asks and the relay go on from
`last`, PLAN and WORK start anew.  Whether the agent library merges a new prompt into
the request that ends a history is unknown to the code, hence `merges`.  `ran`,
`latest` and `answer` are histories.  (The names of `Transcript`, `Ledger` and `ReconWeb`
that other modules use too carry the module's name, `TranscriptInit`, `LedgerNext`, ...:
their theorems stand in one module with those of another.)

Left out: caps on texts, the environment switch of the tool tail, thinking parts.

### RunReport

A batch of tasks, one after the other.  In the agent, `Answer` and the actions behind
it are the span processors in their order: the span is queued, its tokens are stamped
on the open root span, then `flush_spans` tries to get the queue out (delivered,
window over, or dropped by the exporter).  The log goes its own way: `LogPending` one
request late, `MetricsCapture` folding cumulative counters into phases, the marker
printed by `dev_env` at the end.  A run ends normally, by the hard time-out
(`wait_for`), by an exception outside `run_prompt`'s `try`, out of memory or by
SIGKILL; `docker stop` reaps what a hard time-out left.  The engine reads the marker
and the exit code, and looks for the trace a bounded number of times while collector
and trace server lag behind.  Whether the server copies span attributes to trace tags
(`promotes`) is not up to this code.  An answer that reports usage counts one token.

Left out: rewriting of span texts and attribute caps, the SIGTERM hook (which
`docker stop` does not reach: it signals PID 1), durations and event counters.

### SubmitTest

Several commands, each in a workspace whose name has a resolution of one second and
may be shared.  `Harbor` leaves a directory under the name asked for or its own, with
or without the job's result, or nothing.  `FindJobDir` is the set of directories
`find_job_dir` may return; a trial keeps in `dir` where it came from and in `of` the
task it was counted for.  Logging is one run per trial, call by call; no exception is
caught, so `TestDies` is possible everywhere, and what the call in progress was about
may have happened.

Left out: building, checking and registering the zip, metrics of a run.

### ReadPages

A line is its length and how it ends: in what Python's universal newlines turn into a
newline, in another line end of `str.splitlines` (a form feed, a Unicode separator), or
in nothing, at the end of the file.  `Page` is the body of `read`; `Open` and `Follow`
are the model that calls it and goes on where the note tells it to; `Grow` is a command
that appends meanwhile.  `shown` and `start` are histories.

Left out: refused files (missing, binary, too large), which give no page; the time-out
of `run_file_tool`, whose thread only reads.

### ReconWeb

`stage` is the place in `recon_web`, `clock` the time in coarse units.  A wave of
requests is one step, since the thread pool is left when its last request is over.  The
time-out of `http_get` is that of a socket: it starts again with every operation that
blocks - connect, handshake, sending, each `recv` of headers and body - on the first
request and on each redirect.  So a wave takes up to the clamped time-out for each of
them (`Takes`), and how many there are is up to the target; `MaxOperations` only bounds the
exploration, and the theorems hold for every value of it.  `site` is what
links to what and never read but through `linked`, the pages that were answered and
whose links have not been taken.  `Budget`, `requests` and the base probe are counted as
the code does, apart from each other; they count paths and probes, not the further
requests that redirects cost.  The call ends in one of four ways: refused, answered,
killed at its wall with nothing kept of the output, or cancelled by the phase cap
(`Cancel`), which kills nothing: the script then runs on, beside the next phase.

Left out: modes `code` and `data`; the resolution of host names, which has no time-out of
the script's; the certificate of https targets, which costs up to four seconds more for
each of its operations; what is derived from the answers, and the rendering.

### TraceExport

`listed` is the server's list per experiment, newest first; a token is an offset into
it, so arrivals push the rest down.  A server may also repeat its token for ever
(`stuck`).  `Request` is one page with what `_find_batch_traces_inner` takes from it;
`RequestFails` is an exception in any call of the search, which `find_batch_traces`
turns into an empty list.  `Burst` bounds the arrivals between two requests.

Left out: the time window (a filter on start times), that a trace's spans may be
incomplete, digests and report formatting.

## 3. Runs

Twelve runs, all of which must pass.  Beside them stand two configurations that pass as
well (`MCReadPages.cfg`, `MCTraceExport.cfg`; some 43,000 and 430,000 states) and
those of section 5, which refute what a comment says.

| run | instance | shows |
|---|---|---|
| `pipeline` | 3 cycles, shipped retries (1, 1, 0), limit 2 | storm bound, final status, freshness of prompts, refinement of `CycleRegime`, termination |
| `pipeline_guard` | 4 cycles, guard 2, retries (2, 1, 1), limit 1 | who may still ask a stalled endpoint |
| `model` | configured cap 12, five endpoint caps, limit 2 | usage attribution, preflight outcome, refinement of `Endpoint`, every request ends |
| `batch` | two batches of 2 tasks, a manual and a CI run; searches of 2 runs | orderly end closes, FINISHED is complete, batches apart and others untouched, reconciliation thorough where it sees all |
| `task` | 2 attempts, sharing a workspace or not | no container left behind, a score has a verifier, one story about the end, a FINISHED trial is valid, every attempt ends |
| `files` | 3 calls, up to 2 in parallel, 2 fragments | disk equals reports for lone calls, lone writes never overwrite |
| `bash` | 2 calls, 2 phases, all kinds of children | killed is killed, output is whole, what is left over was cut, every call comes back |
| `ledger` | 5 sorts of results, up to 6 of them; work, plan, work; window 4, threshold 3; ledger on or off | counts are honest over the run, streaks within a phase |
| `report` | 2 tasks, 2 phases, up to 2 requests per run | log and spans tell the same tokens and reasons, a kill loses one flush, whose trace a run is tagged with |
| `transcript` | up to 7 messages, 3 calls and 2 wire ids per conversation, tool tail of 2 | the endpoint is sent paired calls only, the relay has the evidence, the hand-off is true |
| `submit` | commands of two tasks and of one, 2 workspaces, 2 results | at most one stand-in directory, only deaths leave runs open |
| `recon` | 3 sites of 6 pages, 2 seeds, 3 sensitive paths, waves of 2, 5 requests | within the limit and nothing twice, breadth first, no wave begins late and no time-out passes what is left, the call returns |
| (`MCReadPages`) | every file of up to 3 lines out of 6 inner and 4 last ones, growing to 5; 4 offsets, 4 limits; pages of 2 lines and 4 characters | nothing is skipped, following the notes ends |
| (`MCTraceExport`) | 2 experiments, 4 traces and 3 more to come, pages of 2, one arrival between two requests | a written export is whole, nothing twice, the walk ends |

**Bounds, and why they are enough.**

* *Cycles.*  Three gives a first, a middle and a last cycle: the middle one is the
  only one with a relay on both sides, where stale results would show.  Four with
  a guard of two lets the guard bite before the last cycle is near.
* *Failure limit 2 (shipped: 3).*  The streak must be reachable across two
  different requests; an open stream resets it, so larger limits repeat the same
  step.  With the limit of 1 in `pipeline_guard` a single failure on a chunk, which
  is an error and not a hand-off, reaches it: only then does the stall check of
  the retry loop decide anything by itself.  In `Pipeline` the streak needs no bound: `StormOvershoot` *is* the bound,
  and it is proved.  In `TrackedModel` the runner that would stop is not there, so
  `FailBound` = 3 (limit + 1) caps the streak and its history in the guards of
  the two terminal actions.
* *Caps in units of 1024.*  12 halves to 6, 3 and then meets the floor 2; endpoint
  caps 1, 2, 5, 8, 16 are: below the floor, at it, between two steps of the
  ladder, at a step, above everything.
* *Batches.*  Two tasks exercise the loop, and a second batch the sharing (the two are
  symmetric).  Both batches meet in both experiments; with a limit of two, the first,
  which also has the manual run, gets crowded, and the second is full but seen whole, so
  a search lists two open runs.  A sweep sees its two runs; beyond its limit nothing is
  claimed.  The step count is bounded by the code itself; reconciliations are
  unbounded.
* *Attempts.*  Two are enough to share a reward file; what a third does to it, the
  second does.  The agent's exits are grouped by what is recorded: "timeout"
  stands for "budget" as well.
* *Files.*  Three calls are a response of two and one before or after it; two
  fragments let an edit lose another's replacement.
* *Bash.*  Calls do not look at each other, so two show all a phase can cut at once;
  a second phase is where leftovers show.  A second child would repeat the first.
* *Ledger.*  Six results fill the window of four (shipped: 8) and push two keys out; the
  threshold is the shipped one.  Two of the sorts share a key without being the same,
  one succeeds with an exit code and one without.
* *Conversations.*  Seven messages are a prompt and three exchanges; two ids for three
  calls must repeat.  Results of tools are abstracted to the call they belong to.
* *Reports.*  Two requests put one answer before the last; the second task is
  the other one whose trace may be taken.  The search for a trace is bounded by the code.
* *Submit test.*  Two tasks are one that left a job of its own and one that did not;
  the other command of one task fills the directory meanwhile.
* *Pages.*  Lines are shorter than a page, fill it or exceed it; two lines of a page and
  three of a file put the cut by lines and the cut by characters in every order.
* *Recon.*  A unit of time is about 2.5 seconds: ten to the deadline, with the reserves in
  the order of the code's, and requests that block up to four times.  The sites are a chain that is
  longer than the crawl is deep, a ring with links back, and a star wider than a wave.
* *Export.*  Two experiments are the family and the fallback; pages of two (shipped: 500)
  are the smallest with an overlap that is not the whole page.

No run is spent on type invariants, nor on `CutOffPlanHandsOff`, `CountsOncePerRequest`,
`CapOnlyShrinks` and `MutationsInOneResponse`: they are proved (section 4).  `Ledger` only states
its own; `Transcript` and `RunReport` need none, their properties say more.

**Fairness, and why the code justifies it.**

* `Pipeline`: `StopAtGuard \/ StartCycle` is synchronous code; `TimeCap` is
  `asyncio.timeout` around each phase run and ask, which fires whatever the request
  does.  Nothing is assumed of the endpoint, which may hang, stream for ever or
  refuse every request.  Termination needs no bound on requests: the cap ends an
  attempt, retries are counted, cycles are counted.
* `TrackedModel`: each probe and open attempt runs under its own time-out
  (`ProbeNoCap`, `ProbeCap`, `OpenFails`), each stream under the request wall
  (`StreamEnds`).
* `TaskRun`: each docker call runs under a subprocess time-out, so every action of
  the engine itself is fair; agent, verifier and docker may hang.
* `BashTool`: the two `asyncio.wait_for` of a call expire (`TimeOut`, `Reap`).  Nothing is
  assumed of the command, not even that a killed process dies.
* `ReadPages`: the reader is assumed to follow the notes; the tool itself does not wait.
* `ReconWeb`: every socket has a time-out, so the script goes on (`Script`), until it is
  killed; the wall is an `asyncio.wait_for` (`Answer`, `Kill`).
* `TraceExport`: requests are answered or fail (`Step`); without that the export waits, as
  the code sets no time-out.
* `BatchRuns` has safety properties only: the engine's calls have no time-out of
  their own that the code sets, so nothing there must eventually happen.  So have
  `FileTools`, where a thread may hang for ever, `Ledger` and `Transcript`, where nothing
  waits, `RunReport`, whose spans may be lost, and `SubmitTest`, where every call may raise.

Where a system may stop it does so by an explicit step that changes nothing
(`Returned`, `Finished`, `Over`).  Deadlock is checked
in every run.

Every property of a run has a mutant: the definition as a plausible bug
would have it (`...Unchecked`, `...KeepsFirst`, ...), kept next to the definition
it replaces; under the mutant TLC finds the property violated.

## 4. Proofs

`PipelineProofs` proves, for every `NCycles >= 1`, `MaxSteps`, `FailLimit` and
`MaxRetries` in `[Phases -> Nat]` (the named assumptions `PipelineAssumption` and
`FailLimitAssumption`):

| theorem | property |
|---|---|
| `TypeCorrect` | `TypeOK` |
| `StormIsBounded` | `StormOvershoot` |
| `StallGapIsAfterAsks` | `StalledOnlyAfterAsk` |
| `PromptsAreFresh` | `PromptsSeeFreshResults` |
| `LastWorkDecides` | `FinalStatusFromLastWork` |
| `GuardBoundsCycles` | `StepGuardBoundsCycles` |
| `CutOffPlansHandOff` | `CutOffPlanHandsOff` |
| `PipelineImplementsRegime` | `ImplementsRegime` |

The thirteen actions are first reduced to five kinds of step (`StepCases`): two at
the loop head, requests that leave the pipeline where it is, the seven ways an
attempt ends (`EndsRun(status)`, which differ only in what the endpoint did), and a
crash.  Each invariant then needs one case per kind.

* `StormInv` strengthens the storm bound: the streak is below the limit at every
  place that was reached through a stall check, at most the limit in the two places
  reached through an ask, and one more only once the run has returned.  Alone,
  `fails <= FailLimit + 1` is not inductive: nothing in it says that the check after
  the extra request ends the run.
* `BookInv` ties together the counters and the book of results: which cycle each
  phase's last result belongs to at each place, how `steps` relates to `cycle`, and
  that a retry stands on an error.  `PromptsSeeFreshResults`,
  `FinalStatusFromLastWork` and `StepGuardBoundsCycles` follow from it.
* The refinement maps `pc` to a stage (`Stage`); asks are stutters of the stage
  they belong to, the loop head belongs to the relay behind it.  `EndsRunRefines`
  is the step lemma and uses `Counters` to know where the guard can bite.

`BatchRunsProofs`, for every set of batches of any length, any limits of the searches and
any other runs on the server (`BatchRunsAssumption`, and `OtherRunsAssumption`: the other
runs are none of a batch's, and there are finitely many runs):

| theorem | property |
|---|---|
| `TypeCorrect` | `TypeOK` |
| `ExitedBatchesAreClosed` | `ShutdownClosesRuns` |
| `ReconcileClosesListed` | `ReconcileIsThorough` |
| `FinishedRunsAreComplete` | `FinishedIsComplete` |
| `BatchesAreSeparate` | `BatchesStayApart` |

Two frame lemmas carry most of it: what a step of a batch may do to the server
(`ServerEffects`: create its current run, mark it or an orphan of its own FAILED,
mark it FINISHED when closing a good task) and that it changes nothing another
process knows (`OthersKnowNothing`).  The inductive invariant adds to the
properties: the runs a batch has not come to do not exist (`NothingAhead`, without
which a reconciliation could close a run that is then created again); a sweep that
got through, of a batch it could see whole, holds every open run of it while it closes
them (`SweepIsThorough`) and never one of another batch (`SweepFindsOwn`); what is due
and open is found, still to be searched for, or in a crowded experiment
(`ReconcileInv`).  A page is all there is or as long as the limit (`PageIsWhole`), and as
the server forgets no run, what is crowded stays so (`MoreAndMore`).

`TaskRunProofs`, for every number of attempts and every way they share workspaces
(`TaskRunAssumption`):

| theorem | property |
|---|---|
| `TypeCorrect` | `TypeOK` |
| `ContainersAreStopped` | `NoContainerLeft` |
| `UnfinishedWorkIsNotGraded` | `VerifierAlone` |
| `ScoresAreEarned` | `ScoreHasAVerifier` |
| `RecordsAgree` | `TerminationMatchesGrade` |
| `FinishedMeansEvaluated` | `FinishedTrialIsValid` |

The invariant says of each attempt how far its container, agent, verifier and
results have come at each place of `run_task` (`Accounted`); the verifier of one
attempt may write the reward another reads, so who wrote a reward or a score is
tracked across attempts (`RewardHasAWriter`, `ScoreHasAWriter`).

`ToolProofs`, for every number of phases and calls (`BashToolAssumption`), every set of
results, sequence of phases, window and threshold (`LedgerAssumption`), and every target,
list of paths, depth, budget and time-out (`ReconWebAssumption`):

| theorem | property |
|---|---|
| `TypeCorrect` | `TypeOK` of `BashTool` |
| `TheKilledAreDead` | `KilledMeansKilled` |
| `ResultsAreFinal` | `OutputIsWhole` |
| `OnlyCapsLeaveWork` | `LeftoversWereCut` |
| `CountsAreHonest` | `CountIsHonest` |
| `StreaksAreReal` | `StreakIsReal` |
| `OneWaveOverruns` | `OverrunIsOneWave` |
| `CrawlStaysWithinBudget` | `WithinBudget` |
| `CrawlGoesByLevels` | `CrawlIsBreadthFirst` |

*Bash.* `KilledMeansKilled` is not inductive by itself: nothing in it says that the session
was killed before the call was reaped (`Signalled`).  `LeftoversWereCut` also needs that
no phase ends with a call still waiting (`OfThisPhase`) and that what was never
spawned has no processes (`NothingRuns`).

*Ledger.* `LedgerCounts` says that the table holds, for every key, the number of failures
with that key so far; a result then moves the count of one key by one
(`WithKeyGrows`).  The tracker forgets all but a window, so its streak cannot be read
off it directly: `Tracked` says that the window is the end of the row of results of the
phase id (`Tracks`), and `StreakIsTail` that a streak shorter than the window begins with a
result that broke it.  `Row`, the failures since then, is the property's own definition.

*Recon.* `Counted` ties the three counters together: pages asked for once, results, and what
the budget still allows (`requests` counts the base probe and successes, the budget counts
answers of either kind).  For the order of the crawl, `BreadthFirst` says what has been asked
for before a level begins and inside it: all of the nearer levels as long as there was time
and budget, and nothing beyond.  The levels of a site are a recursive function; that it
is what its definition says is proved first (`LevelsExist`).  `OverrunIsOneWave` is an action
property and needs only the types: the time-out is clamped to what is left of the deadline.
It holds for any number of operations on a socket, which is why it says nothing in seconds.

`TrackedModelProofs`, for every configured cap, endpoint, failure limit and set of
phases (the assumptions named in `TrackedModel` and `Endpoint`), and for every set of wire
ids, bounds on calls and messages, and either behaviour of the agent library
(`TranscriptAssumption`):

| theorem | property |
|---|---|
| `TypeCorrect` | `TypeOK` |
| `UsageIsAttributed` | `UsageAttributed` |
| `RequestsCountOnce` | `CountsOncePerRequest` |
| `PreflightIsRight` | `PreflightPicksAccepted` |
| `CapsOnlyShrink` | `CapOnlyShrinks` |
| `ModelImplementsEndpoint` | `ImplementsEndpoint` |
| `HistoriesAreAccepted` | `EveryCallIsAnswered` |
| `RelayHasTheEvidence` | `RelayKeepsEvidence` |
| `HandoffsAreTrue` | `HandoffIsTrue` |

With `PipelineImplementsRegime` this closes the chain: the client is the endpoint the
pipeline was proved over.  The refinement maps the client's places to "a stream is
open or not" and needs to know which of them have already counted their request.

*Transcript.*  None of the properties is inductive: while a response waits for its tools the
conversation is not acceptable, and it is `last` that goes on from there.  `TranscriptInv`
therefore speaks of the messages of the last request (`Base`): they are an accepted history
(`Sent`), what ran of a response is in the message behind it (`Evidence`), and nothing that
ran is missing but the response that was cut off (`Remembered`); a response that has come in
makes new calls (`Incoming`).  Three lemmas carry the steps: a message that follows
keeps a history accepted (`OneMessageMore`), trimming cuts off an end in which nothing ran
(`TrimLeavesOff`), and a prompt may be merged into a closed history (`ContinueKeeps`).

`HandoffIsTrue` is about what `extract_last_tools` computes, so it needs both an invariant and
what a recursion over messages and their parts yields.  The invariant `Numbered`, beside
`TranscriptInv`: calls are numbered in the order of the messages, those of one response
have ids of their own, and no `final_result` is returned (`Ordered`).  Through the
parts of such a conversation `Told` holds: the entries are the calls so far in order, those
returned with their own result, and the entry of a call still to be answered is the open one under
its id (`CallTold`, `ReturnTold`, then per message and conversation: `MessageTold`,
`ConversationTold`).  It is here that a call taking over an id which an older call left open
matters.  The rest is counting: as many entries as calls (`AsManyAsTold`), and the last
of them (`LastEntries`).  `RunExists` and `RunIsUnique` give the recursive functions
their meaning.  TLC checked `TranscriptInv` and `Numbered` on the run's instance before they
were proved.

`FileToolsProofs`, for any number of calls, any parallelism and any fragments
(`FileToolsAssumption`):

| theorem | property |
|---|---|
| `TypeCorrect` | `TypeOK` |
| `ReportsAddUp` | `FileIsAsReported` |
| `LoneWritesCreate` | `LoneWriteNeverOverwrites` |
| `RepairEditsOnce` | `MutationsInOneResponse` |

`CallsAreOrdered` says that what is not reported is of the last response.  The budget
then follows from `EditsOfOneResponse`: behind a reported edit stand only edits of its
own response, because the others found the counter raised.  For the file,
`OneByOne` says how far the only call under way has got, what its thread is going to
write, and on top of what (`InProgress`, `Due`).

`RunReportProofs`, for any number of tasks, phases and requests
(`RunReportAssumption`):

| theorem | property |
|---|---|
| `AKillLosesOneFlush` | `KillLosesOneFlush` |
| `TraceAndResultAgree` | `ReasonsAgree` |
| `TagsAreOwn` | `TagsOwnTrace` |
| `LogAndSpansAgree` | `TokensAgree` |

`TokensAgree` compares the log of the agent with its spans at the end of a run.  Its
invariant `Counts` says what each counts at any time: the log the usage that is no
longer pending, the span counter all usage there is (`CaptureCounts`); that pending usage is
labelled with the phase that is current (`PendingIsCurrent`); and what a process that is over
has told of either (`MarkerCounts`).

`SubmitTestProofs`, for every set of commands with any sequences of finitely many tasks, in any
workspaces (`SubmitTestAssumption`):

| theorem | property |
|---|---|
| `TypeCorrect` | `TypeOK` (of the proof module) |
| `OnlyOneStandsIn` | `OneStandIn` |
| `OpenRunsAreOfTheDead` | `OpenRunsHaveDied` |

`OneStandIn` rests on candidates never ceasing to be candidates: a directory that
stood in was the only one then, so whoever finds another only one later finds the
same.  `OpenRunsHaveDied` needs the place of a command to say how many of its trials
have a run (`Settled`).

**Recursion and induction.**  No module declares a RECURSIVE operator; recursion is by
functions and the folds of the community modules.  The library's induction rules take an
operator as parameter, which the provers cannot instantiate; where a proof needs an induction over numbers it
argues from a least counterexample instead (`LeastExists` in `ToolProofs`, from the
well-foundedness of `<`), or shows that a set of numbers has them all (`NumberByNumber` in
`TrackedModelProofs`).

**Model-checked only.**  The properties of `ReadPages` (`NothingSkipped`) and
`TraceExport` (`ExportIsWhole`), whose instances stand beside the listed runs.  Every other safety property of a run is proved.
Liveness under fairness (`Terminates`, `EveryRequestEnds`, `EveryTaskEnds`,
`EveryCallEnds`, `CallEnds`, and beside the runs `ReadingEnds`, `ExportEnds`) and ENABLED
are out of the prover's reach; so the theorems say that nothing wrong is ever reached, and
that something is reached at all rests on TLC.

## 5. Where the code and its comments part

These properties are stated in the modules and refuted by the configurations named here;
each sentence of the code is read strictly, so they are kept as knowledge about the code.

* `StormDetected` (`MCTrackedModelStorm`) - a stream that opens resets the streak although
  its request may be refused on the first chunk, so a storm of such refusals is never
  noticed (`model.py:568`, against `model.py:247`).
* `ContinuesAfterWhatWasShown` (`MCReadPagesAdvice`) - lines are numbered by `splitlines`,
  but a cut-off page counts newlines only: in a file with form feeds or Unicode
  separators the offset to continue with lies in what was shown already, or is the same
  again (`read.py:104`, against `read.py:43`).
* `CompletesBeforeWall` (`MCReconWebWall`) - the recon script's deadline and the tool's
  wall are both 25 seconds, so a target that is still answering then costs the whole
  result (`recon_tool.py:145`, against `recon.py:46`).
* `QuietOnceStalled` (`MCPipelineStall`) - a streak that reaches its limit inside
  `_plan_handoff` or `_final_ask` is not followed by a stall check: one more request
  goes out (`runner.py:1009`, against `runner.py:823`).  `StormOvershoot` says how bad
  it gets, and that is proved.
* `FinishedStaysFinished` (`MCBatchRunsReopen`) - `_close_run_failed` does not look at
  the status: a lost answer to the FINISHED call, or a stale search result, turns it
  into FAILED (`run_engine.py:566`, against `run_engine.py:343`).
* `ReconcileClosesEvery` (in place of `ReconcileIsThorough` in `MCBatchRuns.cfg`) - one search
  of 1000 runs per experiment, with no second page and no filter by status: in an
  experiment that holds more, an orphan that is not on the page is never closed though
  no call failed (`clean.py:77`, against `clean.py:62`).
* `CompressedWasShown` (`MCLedgerIdentical`) - the failure key ends after 4000
  characters, a bash result after 16000: a command that fails with a new message
  further down is answered with "failed with an identical result", and the new message
  is never shown (`state.py:223`, against `tools/base.py:143`).
* `RelaySeesFinalResult` (`MCTranscriptRelay`) - the messages of a request never hold
  the response to it, so the relay does not see the `final_result` of a WORK that ended
  well (`model.py:563`, against `review.py:31`), and its prompt does not carry it either.
* `OkMeansSolved` (`MCSubmitTestOk`) - the only finished job may stand in for a task
  that left none, so one solved task can carry the verdict "ok" of two
  (`submit_test.py:133`, against `submit_test.py:374`).
* `ExportIsWhole` with `Burst = PageSize` - when a page's worth of traces
  arrives between two requests, the next page brings no new id and ends the walk before
  the older traces (`mlflow_compat.py:76`, against `trace_export.py:166`).  With pages of 500
  that is unlikely; with fewer arrivals `ExportIsWhole` holds.

Smaller ones met on the way.  *Runner and model:* `plan_handoff` is
never reset, so a later cycle's WORK is shown the hand-off of an earlier cut-off PLAN
(`runner.py:630`, against `phases/base.py:81`); a PLAN that ends in an error gets no
hand-off (`runner.py:1007`, against `runner.py:35`); the step guard counts cycles
while `runner.py:46` and `config.toml:14` speak of phase runs; a cap rejected on the
second open attempt is reduced although no attempt is left (`model.py:409`); for a
configured cap below 8192 the "descending" ladder goes up first (`model.py:334`).
*Engine:* `log_task_to_mlflow` sets tags before its `try`, so only the sweep closes a run
whose tagging raises (`run_engine.py:474`); `docker stop` is not followed by the removal that
`docker_client.py:58` speaks of.  *Tools:* two writes of one response both find the path
free (`write.py:35`, against `write.py:21`); two edits of one response both find the budget of a repair
unused, which is "at most once per repair" (`tools/base.py:56`), a scope no routed
phase sets at present; the phase cap cancels a bash or recon call without killing its
processes, which then work beside the next phase; a command may run for 30 s and the reserve
is 15 s, so one started just before it takes all of it; the ledger outlives the
conversations, so "already shown" may mean a phase the model does not see any more
(`tools/base.py:143`); a page of a file that contains "exit 1" counts as a failure, and
reading it again is compressed (`state.py:231`), while a shell that died of a signal,
code -9, counts as a success; the stagnation streak of "one phase" goes on into the
next cycle when no tool is called in between, as both phases have the same id
(`state.py:253`).  *Reports:* the fast path of the trace search returns a trace without
looking at its task (`run_engine.py:261`, against `run_engine.py:230`); the flush of
`mark_termination` cannot export the root span it has stamped, which is still open
(`telemetry/__init__.py:492`); "the same reason" in trace and result
(`dev_env.py:129`) is `crash:<Exc>` in the one and `crash` or `oom` in the other; a run
the step guard ends is "budget" on its trace and "timeout" in its marker, so
`_TERMINATION["budget"]` is never used; the status of a finalized run is the second
half of `return "done", _endpoint_finalize(state)`, whose first half makes the
output the word "done".  *Smaller still:* the retainer of bash keeps a quarter at each end
where its comment speaks of halves (`bash.py:30`); `extract_last_tools` treats a
matched call whose result is empty as unmatched (`state.py:104`).  *Recon:* links are taken off the
entries after the first two levels only, so `_links` of the third go out with the result
(`recon.py:535`); a path the crawl has asked for is not reported as sensitive
(`recon.py:586`); an overrun is one in-flight wave but not "~0.5s" (`recon.py:50`): the
time-out bounds each operation on a socket, and a target that sends byte by byte, or
redirects, holds the wave until the wall.
*Export:* two traces of one task in a batch overwrite each other's file
(`trace_export.py:338`), while the manifest lists both.  *Deliverable check:* a
negative line in a report makes a slice that ends below zero, and the sink is looked for
in nearly the whole file (`deliverable_check.py:258`, against `deliverable_check.py:76`).
*Submission:* an upload that raises leaves its run FINISHED (`zip_register.py:75`), and a
smoke run whose task raises stays open, with no batch id by which a sweep could find it
(`smoke.py:104`).  *Submit test:* an
exception while the trials are logged, or before, loses all of them, and nothing closes
a run that a dead command left open.

## 6. Plan

Done, in this order: `Endpoint`, `CycleRegime`, `Pipeline`, `TrackedModel`,
`BatchRuns`, `TaskRun`, `FileTools`, `BashTool`, `Ledger`, then `RunReport`,
`Transcript`, `SubmitTest`, `ReconWeb`, `ReadPages` and `TraceExport`; theorems about all
of them but the last two.

Next, if the code grows there: the concurrent use of `dist/submission-<sha>.zip`
and of the register file by `zip_register`, whose `finally` marks a run FINISHED also
when its upload failed; theorems about the pages (`NothingSkipped`) and the
export (`ExportIsWhole`).

## 7. Not modelled, and why

The deliverable check and the test guard compute side data after WORK that is logged
and read by no decision; the code and data modes of recon walk a directory once.  Text (prompts, schemas, templates, log and tool-result formatting), configuration
loading, environment probes, packaging, recon's file classification and digest reports are sequential data handling without state shared between
actors.  Vendored benchmark tasks (most of
the repository's lines) and deployment files are not the program; of the agent and the
CLI, some 12,000 lines, between a fifth and a quarter is modelled.  The
disabled phases are never reached.  What the tables above call "left out" is
named there with each module.
