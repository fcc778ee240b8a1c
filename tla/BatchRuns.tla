----------------------------- MODULE BatchRuns -----------------------------
(***************************************************************************)
(* The MLflow runs of `shlepa run` (run_engine.py: run_preset,             *)
(* log_task_to_mlflow, sweep_orphaned_batch_runs) and of `shlepa clean     *)
(* --reconcile` (clean.py), against one tracking server.  Any call may     *)
(* raise, before or after the server applied it; a batch may be            *)
(* interrupted (Ctrl-C) or killed at any point; several batches and a      *)
(* reconciliation run at the same time.  Metrics, tags and artifacts are   *)
(* abstracted to "everything about the task has been logged".              *)
(***************************************************************************)
EXTENDS Naturals, FiniteSets

CONSTANTS
    Batches,        \* batch ids, one `shlepa run` process each
    NTasks,         \* per batch: its tasks, run one after the other
    Manual,         \* open runs in a dev experiment without a batch_id
    CiRuns,         \* open, tagged runs in NEVER_RECONCILE_EXPERIMENTS
    SweepLimit,     \* max_results of the sweep's search (500)
    ReconcileLimit  \* max_results of a reconciliation's searches (1000)

ASSUME BatchRunsAssumption ==
    /\ NTasks \in [Batches -> Nat \ {0}]
    /\ SweepLimit \in Nat /\ ReconcileLimit \in Nat

Tasks(b) == 1 .. NTasks[b]
AllTasks == UNION {Tasks(b) : b \in Batches}

\* Task i of batch b is run <<b, i>>.
BatchRun == UNION {{b} \X Tasks(b) : b \in Batches}
Runs == BatchRun \cup Manual \cup CiRuns

ASSUME OtherRunsAssumption ==
    /\ (Manual \cup CiRuns) \cap BatchRun = {}
    /\ IsFiniteSet(Runs)

\* Experiments: one per task family (here one per task), and the CI ones.
\* A manual run lies in the experiment of the first family.
Experiments == AllTasks
InExperiment(r, e) ==
    \/ r \in BatchRun /\ r[2] = e
    \/ r \in Manual /\ e = 1

VARIABLES
    status,         \* server: "none", "RUNNING", "FINISHED" or "FAILED"
    at,             \* per batch: where run_preset is
    task,           \* per batch: current task
    outcome,        \* per batch: what run_task returned for it
    logged,         \* per batch: all its metrics and artifacts arrived
    found,          \* per batch: open runs its sweep has still to close
    missed,         \* history: batches whose sweep could not do its work
    recTodo,        \* reconciliation: experiments still to search
    recFound,       \* reconciliation: open runs still to close
    due             \* history: runs open when the reconciliation began, less
                    \* those that a failing call of it was about

resultVars == <<outcome, logged>>
sweepVars == <<found, missed>>
reconcileVars == <<recTodo, recFound, due>>
vars == <<status, at, task, resultVars, sweepVars, reconcileVars>>

Exists(r) == status[r] # "none"
Open(r) == status[r] = "RUNNING"
Current(b) == <<b, task[b]>>

Init ==
    /\ status = [r \in Runs |-> IF r \in BatchRun THEN "none" ELSE "RUNNING"]
    /\ at = [b \in Batches |-> "create"]
    /\ task = [b \in Batches |-> 1]
    /\ outcome = [b \in Batches |-> "none"]
    /\ logged = [b \in Batches |-> FALSE]
    /\ found = [b \in Batches |-> {}]
    /\ missed = {}
    /\ recTodo = {}
    /\ recFound = {}
    /\ due = {}

-----------------------------------------------------------------------------
(* Calls to the tracking server.                                           *)

\* The call is answered.
Sets(r, s) == status' = [status EXCEPT ![r] = s]

\* The call raises: the server may have applied it or not.
MaySet(r, s) == Sets(r, s) \/ UNCHANGED status

\* A search without page token: all runs that match or, if there are more
\* of them, a first page.  Which runs are on it is up to the server.
Pages(runs, limit) ==
    {page \in SUBSET runs :
        /\ Cardinality(page) <= limit
        /\ page # runs => Cardinality(page) = limit}

\* No search filters by status: both do so on the page.
OpenOf(page) == {r \in page : Open(r)}

Goto(b, place) == at' = [at EXCEPT ![b] = place]

\* What the process knew of the current task is gone.
Forget(b) ==
    /\ outcome' = [outcome EXCEPT ![b] = "none"]
    /\ logged' = [logged EXCEPT ![b] = FALSE]

-----------------------------------------------------------------------------
(* One task of a batch.  An exception (or Ctrl-C) leaves the loop through  *)
(* the finally blocks that are open at that point.                         *)

\* Mutant: the sweep is not in a finally block.
CreateRunUnswept(b) ==
    /\ at[b] = "create"
    /\ \/ Sets(Current(b), "RUNNING") /\ Goto(b, "param")
       \/ MaySet(Current(b), "RUNNING") /\ Goto(b, "exited")
    /\ UNCHANGED <<task, resultVars, sweepVars, reconcileVars>>

\* The experiment lookup may raise too; the run id is then unknown.
CreateRun(b) ==
    /\ at[b] = "create"
    /\ \/ Sets(Current(b), "RUNNING") /\ Goto(b, "param")
       \/ MaySet(Current(b), "RUNNING") /\ Goto(b, "sweep")
    /\ UNCHANGED <<task, resultVars, sweepVars, reconcileVars>>

\* requested_timeout_sec is logged outside every try but the outermost.
LogParam(b) ==
    /\ at[b] = "param"
    /\ Goto(b, "task") \/ Goto(b, "sweep")
    /\ UNCHANGED <<status, task, resultVars, sweepVars, reconcileVars>>

\* run_task turns what goes wrong into its result; what it raises anyway
\* is caught as BaseException.
RunTask(b) ==
    /\ at[b] = "task"
    /\ \/ /\ \E o \in {"ok", "failed"} : outcome' = [outcome EXCEPT ![b] = o]
          /\ Goto(b, "tags")
       \/ /\ Goto(b, "abandon")
          /\ UNCHANGED outcome
    /\ UNCHANGED <<status, task, logged, sweepVars, reconcileVars>>

\* except BaseException: set_terminated(FAILED), which may raise as well.
Abandon(b) ==
    /\ at[b] = "abandon"
    /\ MaySet(Current(b), "FAILED")
    /\ Goto(b, "sweep")
    /\ UNCHANGED <<task, resultVars, sweepVars, reconcileVars>>

\* log_task_to_mlflow sets the tags of the existing run before its try.
SetTags(b) ==
    /\ at[b] = "tags"
    /\ \/ Goto(b, "log") /\ UNCHANGED resultVars
       \/ Goto(b, "sweep") /\ Forget(b)
    /\ UNCHANGED <<status, task, sweepVars, reconcileVars>>

\* Metrics, parameters, artifacts, trace tag.
LogResult(b) ==
    /\ at[b] = "log"
    /\ \/ /\ logged' = [logged EXCEPT ![b] = TRUE]
          /\ Goto(b, "close")
       \/ /\ Goto(b, "closeFailed")
          /\ UNCHANGED logged
    /\ UNCHANGED <<status, task, outcome, sweepVars, reconcileVars>>

\* for index, task in enumerate(tasks, 1)
NextTask(b) ==
    /\ Forget(b)
    /\ IF task[b] < NTasks[b]
          THEN task' = [task EXCEPT ![b] = @ + 1] /\ Goto(b, "create")
          ELSE Goto(b, "sweep") /\ UNCHANGED task

\* Mutant: a crashed task is closed like any other.
CloseRunSame(b) ==
    /\ at[b] = "close"
    /\ \/ Sets(Current(b), "FINISHED") /\ NextTask(b)
       \/ MaySet(Current(b), "FINISHED") /\ Goto(b, "closeFailed")
          /\ UNCHANGED <<task, resultVars>>
    /\ UNCHANGED <<sweepVars, reconcileVars>>

\* A failed task is closed by _close_run_failed, which swallows what the
\* server raises; the others by set_terminated(FINISHED).  Ctrl-C raises.
CloseRun(b) ==
    /\ at[b] = "close"
    /\ \/ /\ outcome[b] = "failed"
          /\ \/ MaySet(Current(b), "FAILED") /\ NextTask(b)
             \/ Goto(b, "closeFailed") /\ UNCHANGED <<status, task, resultVars>>
       \/ /\ outcome[b] = "ok"
          /\ \/ Sets(Current(b), "FINISHED") /\ NextTask(b)
             \/ /\ MaySet(Current(b), "FINISHED")
                /\ Goto(b, "closeFailed")
                /\ UNCHANGED <<task, resultVars>>
    /\ UNCHANGED <<sweepVars, reconcileVars>>

\* finally: if not terminated, _close_run_failed.
CloseFailed(b) ==
    /\ at[b] = "closeFailed"
    /\ MaySet(Current(b), "FAILED")
    /\ Goto(b, "sweep")
    /\ Forget(b)
    /\ UNCHANGED <<task, sweepVars, reconcileVars>>

-----------------------------------------------------------------------------
(* The end of a batch.                                                     *)

\* Mutant: the sweep is about the runs of every batch.
TaggedByAny(b) == {r \in BatchRun : Exists(r)}

\* filter_string "tags.batch_id = ...".
Tagged(b) == {r \in BatchRun : r[1] = b /\ Exists(r)}

\* sweep_orphaned_batch_runs: a failing search gives up.
SearchOrphans(b) ==
    /\ at[b] = "sweep"
    /\ \/ /\ \E page \in Pages(Tagged(b), SweepLimit) :
                found' = [found EXCEPT ![b] = OpenOf(page)]
          /\ Goto(b, "closing")
          /\ UNCHANGED missed
       \/ /\ Goto(b, "exited")
          /\ missed' = missed \cup {b}
          /\ UNCHANGED found
    /\ UNCHANGED <<status, task, resultVars, reconcileVars>>

\* One run of the search result; a call that raises is swallowed.
CloseOrphan(b) ==
    /\ at[b] = "closing"
    /\ \E r \in found[b] :
        /\ \/ Sets(r, "FAILED") /\ UNCHANGED missed
           \/ UNCHANGED status /\ missed' = missed \cup {b}
        /\ found' = [found EXCEPT ![b] = @ \ {r}]
    /\ UNCHANGED <<at, task, resultVars, reconcileVars>>

Exit(b) ==
    /\ at[b] = "closing"
    /\ found[b] = {}
    /\ Goto(b, "exited")
    /\ UNCHANGED <<status, task, resultVars, sweepVars, reconcileVars>>

Ended(b) == at[b] \in {"exited", "killed"}

\* Ctrl-C while the sweep runs: nothing is left to catch it.
InterruptSweep(b) ==
    /\ at[b] \in {"sweep", "closing"}
    /\ Goto(b, "exited")
    /\ missed' = missed \cup {b}
    /\ found' = [found EXCEPT ![b] = {}]
    /\ UNCHANGED <<status, task, resultVars, reconcileVars>>

\* SIGKILL, and SIGTERM, for which no handler is installed.
Kill(b) ==
    /\ ~ Ended(b)
    /\ Goto(b, "killed")
    /\ Forget(b)
    /\ found' = [found EXCEPT ![b] = {}]
    /\ UNCHANGED <<status, task, missed, reconcileVars>>

-----------------------------------------------------------------------------
(* shlepa clean --reconcile, at any time and any number of times.          *)

Reconciling == recTodo # {} \/ recFound # {}

\* Everything the server has in an experiment.
Held(e) == {r \in Runs : InExperiment(r, e) /\ Exists(r)}

\* Dev-run orphans among some runs: open, with a batch_id tag.
Stuck(runs) == OpenOf(runs \cap BatchRun)

\* reconcile_orphan_runs: the experiments that are not excluded.
StartReconcile ==
    /\ ~ Reconciling
    /\ recTodo' = Experiments
    /\ due' = {r \in BatchRun : Open(r)}
    /\ UNCHANGED <<status, at, task, resultVars, sweepVars, recFound>>

\* Mutant: a search that raises ends the reconciliation.
SearchExperimentOrStop ==
    /\ recFound = {}
    /\ \E e \in recTodo :
        \/ /\ \E page \in Pages(Held(e), ReconcileLimit) : recFound' = Stuck(page)
           /\ recTodo' = recTodo \ {e}
           /\ UNCHANGED due
        \/ /\ due' = due \ Stuck(Held(e))
           /\ recTodo' = {}
           /\ UNCHANGED recFound
    /\ UNCHANGED <<status, at, task, resultVars, sweepVars>>

\* A search that raises skips its experiment.
SearchExperiment ==
    /\ recFound = {}
    /\ \E e \in recTodo :
        /\ recTodo' = recTodo \ {e}
        /\ \/ /\ \E page \in Pages(Held(e), ReconcileLimit) : recFound' = Stuck(page)
              /\ UNCHANGED due
           \/ due' = due \ Stuck(Held(e)) /\ UNCHANGED recFound
    /\ UNCHANGED <<status, at, task, resultVars, sweepVars>>

CloseStuck ==
    /\ \E r \in recFound :
        /\ \/ Sets(r, "FAILED") /\ UNCHANGED due
           \/ UNCHANGED status /\ due' = due \ {r}
        /\ recFound' = recFound \ {r}
    /\ UNCHANGED <<at, task, resultVars, sweepVars, recTodo>>

\* Ctrl-C or a kill: what was still to be done is not owed any more.
StopReconcile ==
    /\ Reconciling
    /\ recTodo' = {} /\ recFound' = {} /\ due' = {}
    /\ UNCHANGED <<status, at, task, resultVars, sweepVars>>

-----------------------------------------------------------------------------

Step(b) ==
    \/ CreateRun(b)
    \/ LogParam(b)
    \/ RunTask(b)
    \/ Abandon(b)
    \/ SetTags(b)
    \/ LogResult(b)
    \/ CloseRun(b)
    \/ CloseFailed(b)
    \/ SearchOrphans(b)
    \/ CloseOrphan(b)
    \/ Exit(b)

Next ==
    \/ \E b \in Batches : Step(b) \/ InterruptSweep(b) \/ Kill(b)
    \/ StartReconcile
    \/ SearchExperiment
    \/ CloseStuck
    \/ StopReconcile

Spec == Init /\ [][Next]_vars

-----------------------------------------------------------------------------
(* Properties.                                                             *)

TypeOK ==
    /\ status \in [Runs -> {"none", "RUNNING", "FINISHED", "FAILED"}]
    /\ at \in [Batches -> {"create", "param", "task", "abandon", "tags", "log",
                          "close", "closeFailed", "sweep", "closing",
                          "exited", "killed"}]
    /\ task \in [Batches -> Nat]
    /\ \A b \in Batches : task[b] \in Tasks(b)
    /\ outcome \in [Batches -> {"none", "ok", "failed"}]
    /\ logged \in [Batches -> BOOLEAN]
    /\ found \in [Batches -> SUBSET BatchRun]
    /\ missed \subseteq Batches
    /\ recTodo \subseteq Experiments
    /\ recFound \subseteq Runs
    /\ due \subseteq BatchRun

(***************************************************************************)
(* Whatever went wrong before - a lost answer to create_run, a failing     *)
(* log, Ctrl-C between two calls, a close that did not arrive - a batch    *)
(* that ends by itself, whose sweep got through and whose runs are no more *)
(* than the sweep's search lists, leaves none of them open.                *)
(***************************************************************************)
ShutdownClosesRuns ==
    \A b \in Batches :
        at[b] = "exited" /\ b \notin missed /\ Cardinality(Tagged(b)) <= SweepLimit =>
            \A i \in Tasks(b) : ~ Open(<<b, i>>)

(***************************************************************************)
(* A run becomes FINISHED only after everything about its task was logged  *)
(* and only for a task that did not fail; whoever closes it otherwise      *)
(* marks it FAILED.                                                        *)
(***************************************************************************)
FinishedIsComplete ==
    [][\A r \in BatchRun :
          status[r] # "FINISHED" /\ status'[r] = "FINISHED" =>
              LET b == r[1] IN
              r = Current(b) /\ logged[b] /\ outcome[b] = "ok"]_vars

(***************************************************************************)
(* Two batches on one server stay apart: no step of one, its sweep         *)
(* included, changes a run of the other; and neither a sweep nor a         *)
(* reconciliation touches a run no batch started (no batch_id tag, or a CI *)
(* experiment).                                                            *)
(***************************************************************************)
BatchesStayApart ==
    [][/\ \A b \in Batches : at'[b] # at[b] \/ found'[b] # found[b] =>
             \A r \in BatchRun : r[1] # b => status'[r] = status[r]
       /\ \A r \in Manual \cup CiRuns : status'[r] = status[r]]_vars

\* More runs, of whatever status and origin, than one search lists.
Crowded(e) == Cardinality(Held(e)) > ReconcileLimit

(***************************************************************************)
(* A reconciliation that ends by itself leaves a dev run that was open     *)
(* when it began open in a crowded experiment only, in whatever order it   *)
(* met the experiments and whatever the batches did meanwhile; a call that *)
(* fails costs only the runs it was about.                                 *)
(***************************************************************************)
ReconcileIsThorough ==
    ~ Reconciling => \A r \in due : Open(r) => Crowded(r[2])

-----------------------------------------------------------------------------
(* What the repository's comments say of the program and the code does not *)
(* do.  The runs that check these look for the counterexample.             *)

(***************************************************************************)
(* _close_run_failed: "a run that is already in a terminal state is left   *)
(* untouched".  A close whose answer was lost, or a search result that has *)
(* become stale, turns a FINISHED run into a FAILED one.                   *)
(***************************************************************************)
FinishedStaysFinished ==
    [][\A r \in BatchRun :
          status[r] = "FINISHED" => status'[r] = "FINISHED"]_vars

(***************************************************************************)
(* reconcile_orphan_runs: "Closes every run that" is open, in a dev        *)
(* experiment and tagged.  In a crowded experiment one that is not on the  *)
(* first page is left open though no call failed.                          *)
(***************************************************************************)
ReconcileClosesEvery == ~ Reconciling => \A r \in due : ~ Open(r)

=============================================================================
