----------------------------- MODULE SubmitTest -----------------------------
(***************************************************************************)
(* `shlepa submit-test` (submit_test.py): Harbor tries the built           *)
(* submission on the selected tasks, one after the other; the job          *)
(* directories it leaves are read, and in the end one MLflow run per trial *)
(* is logged.  Commands run at the same time, also in one workspace, whose *)
(* name has a resolution of one second.  No exception is caught on the     *)
(* way: a call that raises ends the command, having been applied or not.   *)
(***************************************************************************)
EXTENDS Naturals, Sequences, FiniteSets, SequencesExt

CONSTANTS
    Tests,          \* submit-test commands
    Selected,       \* per test: the tasks it is run on, in order
    Workspaces,     \* names of workspaces
    Results         \* what Harbor may say of a trial

\* A trial result: was there an exception, and which reward was given?
ResultShapes == [exception : {"none", "timeout", "other"},
                 reward : {"none", "partial", "one"}]

Tasks == UNION {Range(Selected[p]) : p \in Tests}

ASSUME SubmitTestAssumption ==
    /\ \A p \in Tests : Selected[p] \in Seq(Tasks) /\ Selected[p] # << >>
    /\ IsFiniteSet(Tasks)
    /\ Results \subseteq ResultShapes /\ IsFiniteSet(Results)

\* Job directories: the one asked for, or one Harbor names itself.
Dirs == {"asked", "own"} \X Tasks
None == <<"none", "none">>

VARIABLES
    workspace,      \* per test: its workspace
    jobs,           \* per workspace: its job directories
    at,             \* per test: where run_submit_test is
    trials,         \* per test: all_trials, [of, task, dir, result] each
    group,          \* per test: how many of the selected tasks are through
    runs,           \* per test: status of the run of each trial so far
    returned,       \* per test: "none", or the overall result
    experiment      \* server: does the experiment of the trials exist?

vars == <<workspace, jobs, at, trials, group, runs, returned, experiment>>

\* A job directory: does it exist, has it a job-level result.json, and which
\* trials of its task can be read from it?
NoDir == [there |-> FALSE, done |-> FALSE, found |-> {}]

Init ==
    /\ workspace \in [Tests -> Workspaces]
    /\ jobs = [w \in Workspaces |-> [d \in Dirs |-> NoDir]]
    /\ at = [p \in Tests |-> "start"]
    /\ trials = [p \in Tests |-> << >>]
    /\ group = [p \in Tests |-> 0]
    /\ runs = [p \in Tests |-> << >>]
    /\ returned = [p \in Tests |-> "none"]
    /\ experiment = FALSE

Goto(p, place) == at' = [at EXCEPT ![p] = place]

-----------------------------------------------------------------------------
(* Harbor, one task after the other.                                       *)

\* No model, an unknown task, or no zip: the test fails before it begins.
Start(p) ==
    /\ at[p] = "start"
    /\ \/ Goto(p, "harbor") /\ UNCHANGED returned
       \/ Goto(p, "over") /\ returned' = [returned EXCEPT ![p] = "failed"]
    /\ UNCHANGED <<workspace, jobs, trials, group, runs, experiment>>

Task(p) == Selected[p][group[p] + 1]

\* Harbor exits with zero or not, and leaves a job directory, under the
\* name asked for or its own, with the result of the trial or without, or
\* nothing.  A directory that is already there keeps what it holds.
Harbor(p) ==
    /\ at[p] = "harbor"
    /\ \/ UNCHANGED jobs
       \/ \E name \in {"asked", "own"}, done \in BOOLEAN,
             found \in {{}} \cup {{result} : result \in Results} :
             LET dir == <<name, Task(p)>>
                 old == jobs[workspace[p]][dir]
             IN  jobs' = [jobs EXCEPT ![workspace[p]][dir] =
                             [there |-> TRUE,
                              done |-> old.done \/ done,
                              found |-> old.found \cup found]]
    /\ Goto(p, "read") \/ Goto(p, "failed")
    /\ UNCHANGED <<workspace, trials, group, runs, returned, experiment>>

Candidates(w) == {d \in Dirs : jobs[w][d].done}

\* Mutant: any finished job is better than none.
FindJobDirAny(w, t) ==
    IF jobs[w][<<"asked", t>>].there
       THEN {<<"asked", t>>}
       ELSE Candidates(w)

\* find_job_dir: empty stands for JobDirNotFound.
FindJobDir(w, t) ==
    IF jobs[w][<<"asked", t>>].there
       THEN {<<"asked", t>>}
       ELSE {d \in Candidates(w) : Cardinality(Candidates(w)) = 1}

Error == [exception |-> "other", reward |-> "none"]

\* all_trials gains the trials of the job, or an error in their place.  With
\* no tracking server the verdict follows the last task.
Count(p, ds) ==
    LET read(d) == {[of |-> Task(p), task |-> d[2], dir |-> d, result |-> r] :
                        r \in jobs[workspace[p]][d].found}
        none == [of |-> Task(p), task |-> Task(p), dir |-> None, result |-> Error]
    IN  /\ \/ \E d \in ds : /\ read(d) # {}
                            /\ trials' = [trials EXCEPT ![p] = @ \o SetToSeq(read(d))]
           \/ /\ \A d \in ds : read(d) = {}
              /\ trials' = [trials EXCEPT ![p] = Append(@, none)]
        /\ group' = [group EXCEPT ![p] = @ + 1]
        /\ IF group[p] + 1 < Len(Selected[p])
              THEN Goto(p, "harbor")
              ELSE Goto(p, "findExperiment") \/ Goto(p, "verdict")

HarborFailed(p) ==
    /\ at[p] = "failed"
    /\ Count(p, {})
    /\ UNCHANGED <<workspace, jobs, runs, returned, experiment>>

ReadJob(p) ==
    /\ at[p] = "read"
    /\ Count(p, FindJobDir(workspace[p], Task(p)))
    /\ UNCHANGED <<workspace, jobs, runs, returned, experiment>>

\* _trial_from_dict: an exception outweighs the reward.
Status(result) ==
    CASE result.exception = "timeout" -> "timeout"
      [] result.exception = "other"   -> "error"
      [] OTHER -> IF result.reward = "one" THEN "solved" ELSE "unsolved"

Valid(result) == result.reward # "none"

-----------------------------------------------------------------------------
(* One MLflow run per trial, when all have been collected.                 *)

FindExperiment(p) ==
    /\ at[p] = "findExperiment"
    /\ Goto(p, IF experiment THEN "createRun" ELSE "createExperiment")
    /\ UNCHANGED <<workspace, jobs, trials, group, runs, returned, experiment>>

CreateExperiment(p) ==
    /\ at[p] = "createExperiment"
    /\ ~ experiment
    /\ experiment' = TRUE
    /\ Goto(p, "createRun")
    /\ UNCHANGED <<workspace, jobs, trials, group, runs, returned>>

\* Metrics and the error artifact follow, until the run is to be closed.
CreateRun(p) ==
    /\ at[p] = "createRun"
    /\ runs' = [runs EXCEPT ![p] = Append(@, "RUNNING")]
    /\ Goto(p, "closeRun")
    /\ UNCHANGED <<workspace, jobs, trials, group, returned, experiment>>

Logged(p) == trials[p][Len(runs[p])]

Closed(result) ==
    IF Status(result) = "error" \/ ~ Valid(result) THEN "FAILED" ELSE "FINISHED"

\* Mutant: only what was evaluated is closed.
CloseRunIfValid(p) ==
    /\ at[p] = "closeRun"
    /\ runs' = IF Valid(Logged(p).result)
                  THEN [runs EXCEPT ![p][Len(runs[p])] = Closed(Logged(p).result)]
                  ELSE runs
    /\ Goto(p, IF Len(runs[p]) < Len(trials[p]) THEN "createRun" ELSE "verdict")
    /\ UNCHANGED <<workspace, jobs, trials, group, returned, experiment>>

CloseRun(p) ==
    /\ at[p] = "closeRun"
    /\ runs' = [runs EXCEPT ![p][Len(runs[p])] = Closed(Logged(p).result)]
    /\ Goto(p, IF Len(runs[p]) < Len(trials[p]) THEN "createRun" ELSE "verdict")
    /\ UNCHANGED <<workspace, jobs, trials, group, returned, experiment>>

Verdict(p) ==
    /\ at[p] = "verdict"
    /\ returned' = [returned EXCEPT ![p] =
           IF \A i \in DOMAIN trials[p] : Status(trials[p][i].result) = "solved"
              THEN "ok" ELSE "failed"]
    /\ Goto(p, "over")
    /\ UNCHANGED <<workspace, jobs, trials, group, runs, experiment>>

\* A call or a torn result file raises, or Ctrl-C: what the call in progress
\* was about may have happened all the same.
TestDies(p) ==
    /\ at[p] # "over"
    /\ Goto(p, "over")
    /\ \/ UNCHANGED <<experiment, runs>>
       \/ /\ at[p] = "createExperiment"
          /\ experiment' = TRUE
          /\ UNCHANGED runs
       \/ /\ at[p] = "createRun"
          /\ runs' = [runs EXCEPT ![p] = Append(@, "RUNNING")]
          /\ UNCHANGED experiment
       \/ /\ at[p] = "closeRun"
          /\ runs' = [runs EXCEPT ![p][Len(runs[p])] = Closed(Logged(p).result)]
          /\ UNCHANGED experiment
    /\ UNCHANGED <<workspace, jobs, trials, group, returned>>

-----------------------------------------------------------------------------
Over ==
    /\ \A p \in Tests : at[p] = "over"
    /\ UNCHANGED vars

TestNext(p) ==
    \/ Start(p) \/ Harbor(p) \/ HarborFailed(p) \/ ReadJob(p)
    \/ FindExperiment(p) \/ CreateExperiment(p)
    \/ CreateRun(p) \/ CloseRun(p) \/ Verdict(p)
    \/ TestDies(p)

Next ==
    \/ \E p \in Tests : TestNext(p)
    \/ Over

Spec == Init /\ [][Next]_vars

-----------------------------------------------------------------------------
\* The trials a test took from a directory of another name than it asked for.
Borrowed(p) == {i \in DOMAIN trials[p] :
                   trials[p][i].dir \notin {None, <<"asked", trials[p][i].of>>}}

(***************************************************************************)
(* find_job_dir falls back to "the single job directory present when the   *)
(* name differs", in a directory that fills up while the tasks are worked  *)
(* off, perhaps by two commands: whatever is taken for a task that left no *)
(* job of its own comes from one and the same directory, so at most one    *)
(* task is ever reported for others.                                       *)
(***************************************************************************)
OneStandIn ==
    \A p \in Tests : \A i, j \in Borrowed(p) : trials[p][i].dir = trials[p][j].dir

(***************************************************************************)
(* log_trials_to_mlflow has no finally block.  A run stays open only when  *)
(* the command died over it: a test that returns has closed one run per    *)
(* trial, and any other run than the last one is closed in the way its     *)
(* trial ended.                                                            *)
(***************************************************************************)
OpenRunsHaveDied ==
    \A p \in Tests :
        /\ returned[p] # "none" => Len(runs[p]) \in {0, Len(trials[p])}
        /\ \A k \in DOMAIN runs[p] :
               \/ runs[p][k] = Closed(trials[p][k].result)
               \/ runs[p][k] = "RUNNING" /\ k = Len(runs[p]) /\ returned[p] = "none"

(***************************************************************************)
(* run_submit_test "returns overall ok": every selected task was solved by *)
(* a trial of its own.                                                     *)
(***************************************************************************)
OkMeansSolved ==
    \A p \in Tests :
        returned[p] = "ok" =>
            \A t \in Range(Selected[p]) :
                \E i \in DOMAIN trials[p] :
                    trials[p][i].task = t /\ Status(trials[p][i].result) = "solved"

=============================================================================
