------------------------------ MODULE TaskRun ------------------------------
(***************************************************************************)
(* run_task (run_engine.py) in container mode, with docker_client.py,      *)
(* dev_env.py: run_agent_in_container and evaluation.py: attempts at one   *)
(* task, each from its own `shlepa run` process, from the workspace to the *)
(* graded result.  A docker call may fail, or its time-out may give it up  *)
(* while what it started goes on in the container.  Attempts that begin in *)
(* the same second share a workspace and with it the mounted reward file.  *)
(***************************************************************************)
EXTENDS Naturals, FiniteSets

CONSTANT NAttempts      \* executions of run_task, numbered

ASSUME TaskRunAssumption == NAttempts \in Nat \ {0}

Attempts == 1 .. NAttempts

VARIABLES
    at,             \* per attempt: where run_task is
    workspace,      \* per attempt: its directory tmp/<second>-<slug>, named
                    \* after the first attempt that uses it
    scripted,       \* does the task have a tests/test.sh?
    known,          \* attempts whose `container` variable is set
    box,            \* per attempt: its container
    agent,          \* per attempt: the agent process in it
    verifier,       \* per attempt: the verifier process in it
    reward,         \* per workspace: the reward file and who wrote it last
    grade,          \* per attempt: the Grade
    ended,          \* per attempt: AgentRun.termination
    lost            \* history: attempts that lost track of a container

processVars == <<box, agent, verifier>>
resultVars == <<grade, ended>>
taskVars == <<workspace, scripted>>
vars == <<at, taskVars, known, processVars, reward, resultVars, lost>>

Setup == {"build", "start", "read"}
Inside == Setup \cup {"agent", "grader", "copy"}    \* the try block
Ending == {"stop", "interrupted", "report"}
Returned == {"result", "raised"}
Places == {"begin", "killed"} \cup Inside \cup Ending \cup Returned

\* "timeout" stands for the ends that leave a valid trial: budget is one.
Exits == {"ok", "timeout", "error"}
Terminations == Exits \cup {"exec_timeout", "oom", "crash"}

StageErrors == {"setup_error", "agent_error", "grader_error"}
Statuses == StageErrors \cup {"not_run", "scored", "missing_reward", "invalid_reward",
                             "missing_verifier", "pytest_exit", "verifier_setup_error"}
Grades == [status : Statuses, by : SUBSET Attempts, solved : BOOLEAN]
Rewards == [value : {"absent", "bad", "fail", "pass"}, by : SUBSET Attempts]

NotRun == [status |-> "not_run", by |-> {}, solved |-> FALSE]
NoReward == [value |-> "absent", by |-> {}]

Init ==
    /\ at = [a \in Attempts |-> "begin"]
    /\ workspace \in [Attempts -> Attempts]
    /\ \A a \in Attempts : workspace[a] <= a /\ workspace[workspace[a]] = workspace[a]
    /\ scripted \in BOOLEAN
    /\ known = {}
    /\ box = [a \in Attempts |-> "none"]
    /\ agent = [a \in Attempts |-> "none"]
    /\ verifier = [a \in Attempts |-> "none"]
    /\ reward = [w \in Attempts |-> NoReward]
    /\ grade = [a \in Attempts |-> NotRun]
    /\ ended = [a \in Attempts |-> "ok"]
    /\ lost = {}

Goto(a, place) == at' = [at EXCEPT ![a] = place]

SetGrade(a, status, by, solved) ==
    grade' = [grade EXCEPT ![a] = [status |-> status, by |-> by, solved |-> solved]]

\* except Exception: the grade names the stage, the attempt is not graded;
\* an exception of the agent stage also says how the agent ended.
Fail(a, stage, termination) ==
    /\ SetGrade(a, stage, {}, FALSE)
    /\ ended' = [ended EXCEPT ![a] = termination]
    /\ Goto(a, "stop")

-----------------------------------------------------------------------------
(* Setup.                                                                  *)

\* make_workspace and the fingerprints are outside the try block; without
\* an instruction.md there is an error and nothing else.
Begin(a) ==
    /\ at[a] = "begin"
    /\ \E place \in {"build", "report", "raised"} : Goto(a, place)
    /\ UNCHANGED <<taskVars, known, processVars, reward, resultVars, lost>>

\* The task's image, the staged agent and the dev image on top of it.
Build(a) ==
    /\ at[a] = "build"
    /\ \/ Goto(a, "start") /\ UNCHANGED resultVars
       \/ Fail(a, "setup_error", ended[a])
    /\ UNCHANGED <<taskVars, known, processVars, reward, lost>>

\* docker run was given up; the container may have been started.
MayHaveStarted(a) ==
    \/ UNCHANGED <<box, lost>>
    \/ /\ box' = [box EXCEPT ![a] = "running"]
       /\ lost' = lost \cup {a}

\* docker run -d
StartContainer(a) ==
    /\ at[a] = "start"
    /\ \/ /\ box' = [box EXCEPT ![a] = "running"]
          /\ known' = known \cup {a}
          /\ Goto(a, "read")
          /\ UNCHANGED <<resultVars, lost>>
       \/ /\ MayHaveStarted(a)
          /\ UNCHANGED known
          /\ Fail(a, "setup_error", ended[a])
    /\ UNCHANGED <<taskVars, agent, verifier, reward>>

\* The instruction is read; then docker exec starts the agent.
StartAgent(a) ==
    /\ at[a] = "read"
    /\ \/ /\ agent' = [agent EXCEPT ![a] = "running"]
          /\ Goto(a, "agent")
          /\ UNCHANGED resultVars
       \/ /\ UNCHANGED agent
          /\ Fail(a, "setup_error", ended[a])
    /\ UNCHANGED <<taskVars, known, box, verifier, reward, lost>>

-----------------------------------------------------------------------------
(* The agent.                                                              *)

StartVerifier(a) ==
    /\ verifier' = [verifier EXCEPT ![a] = "running"]
    /\ Goto(a, "grader")

\* dev_run.py exits.  With a metrics marker (its own time-out included), or
\* with code 0, it is graded; the marker says how the run ended.  A non-zero
\* code without a marker is a crash.
AgentExits(a) ==
    /\ at[a] = "agent" /\ agent[a] = "running"
    /\ agent' = [agent EXCEPT ![a] = "ended"]
    /\ \/ /\ \E t \in Exits :
                ended' = [ended EXCEPT ![a] = t]
          /\ StartVerifier(a)
          /\ UNCHANGED grade
       \/ /\ \E t \in {"oom", "crash"} : Fail(a, "agent_error", t)
          /\ UNCHANGED verifier
    /\ UNCHANGED <<taskVars, known, box, reward, lost>>

\* The hard time-out gives up docker exec, or docker exec fails; the agent
\* goes on in the container.
AgentExecTimeout(a) ==
    /\ at[a] = "agent"
    /\ \E t \in {"exec_timeout", "crash"} : Fail(a, "agent_error", t)
    /\ UNCHANGED <<taskVars, known, processVars, reward, lost>>

-----------------------------------------------------------------------------
(* The verifier.                                                           *)

\* tests/test.sh truncates the reward file, then writes it; a reward out of
\* range or not a number counts as "bad".
VerifierWrites(a) ==
    /\ scripted
    /\ verifier[a] = "running" /\ box[a] = "running"
    /\ \E v \in {"bad", "fail", "pass"} :
          reward' = [reward EXCEPT ![workspace[a]] = [value |-> v, by |-> {a}]]
    /\ UNCHANGED <<at, taskVars, known, processVars, resultVars, lost>>

\* Mutant: a missing reward counts as a failed attempt.
ReadRewardLenient(a) ==
    LET r == reward[workspace[a]] IN
    IF r.value = "bad"
    THEN SetGrade(a, "invalid_reward", {}, FALSE)
    ELSE SetGrade(a, "scored", r.by, r.value = "pass")

\* reward_grade, after the check that there is a file.
ReadReward(a) ==
    LET r == reward[workspace[a]] IN
    \/ r.value = "absent" /\ SetGrade(a, "missing_reward", {}, FALSE)
    \/ r.value = "bad" /\ SetGrade(a, "invalid_reward", {}, FALSE)
    \/ r.value \in {"fail", "pass"} /\ SetGrade(a, "scored", r.by, r.value = "pass")

\* Without a tests/test.sh: pytest in the container, installed if need be.
PytestGrade(a) ==
    \/ \E s \in BOOLEAN : SetGrade(a, "scored", {a}, s)
    \/ \E s \in {"missing_verifier", "verifier_setup_error", "pytest_exit"} :
          SetGrade(a, s, {}, FALSE)

\* The verifier ends, with whatever code, having written or not.
VerifierExits(a) ==
    /\ at[a] = "grader" /\ verifier[a] = "running"
    /\ verifier' = [verifier EXCEPT ![a] = "ended"]
    /\ IF scripted THEN ReadReward(a) ELSE PytestGrade(a)
    /\ Goto(a, "copy")
    /\ UNCHANGED <<taskVars, known, box, agent, reward, ended, lost>>

\* Mutant: whatever stage a time-out ended, it is reported as the agent's.
VerifierExecTimeoutClassified(a) ==
    /\ at[a] = "grader"
    /\ Fail(a, "grader_error", "exec_timeout")
    /\ UNCHANGED <<taskVars, known, processVars, reward, lost>>

\* Mutant: the verifier is given up only once there is a reward.
VerifierExecTimeoutRewarded(a) ==
    /\ at[a] = "grader"
    /\ reward[workspace[a]] # NoReward
    /\ Fail(a, "grader_error", ended[a])
    /\ UNCHANGED <<taskVars, known, processVars, reward, lost>>

\* Its time-out gives up docker exec; the verifier goes on.
VerifierExecTimeout(a) ==
    /\ at[a] = "grader"
    /\ Fail(a, "grader_error", ended[a])
    /\ UNCHANGED <<taskVars, known, processVars, reward, lost>>

-----------------------------------------------------------------------------
(* The end.                                                                *)

\* docker cp of the work directory: failures are swallowed.
Copy(a) ==
    /\ at[a] = "copy"
    /\ Goto(a, "stop")
    /\ UNCHANGED <<taskVars, known, processVars, reward, resultVars, lost>>

\* Mutant: the container is stopped on the way to a result only.
StopContainerOnSuccess(a) ==
    /\ at[a] = "stop"
    /\ Goto(a, "report")
    /\ \/ /\ a \in known /\ grade[a].status = "scored"
          /\ box' = [box EXCEPT ![a] = "stopped"]
          /\ UNCHANGED lost
       \/ /\ a \notin known \/ grade[a].status # "scored"
          /\ UNCHANGED <<box, lost>>
    /\ UNCHANGED <<taskVars, known, agent, verifier, reward, resultVars>>

\* finally: docker stop ends what runs in the container; its failure is
\* neither noticed nor retried.
StopContainer(a) ==
    /\ at[a] \in {"stop", "interrupted"}
    /\ Goto(a, IF at[a] = "stop" THEN "report" ELSE "raised")
    /\ \/ /\ a \in known
          /\ box' = [box EXCEPT ![a] = "stopped"]
          /\ UNCHANGED lost
       \/ /\ a \in known
          /\ lost' = lost \cup {a}
          /\ UNCHANGED box
       \/ /\ a \notin known
          /\ UNCHANGED <<box, lost>>
    /\ UNCHANGED <<taskVars, known, agent, verifier, reward, resultVars>>

\* Writing result.json may raise; otherwise the TaskResult is returned.
Report(a) ==
    /\ at[a] = "report"
    /\ \E place \in Returned : Goto(a, place)
    /\ UNCHANGED <<taskVars, known, processVars, reward, resultVars, lost>>

\* Ctrl-C passes the except clause, not the finally block; there it cuts
\* docker stop short.
Interrupt(a) ==
    /\ \/ /\ at[a] \in Inside
          /\ Goto(a, "interrupted")
          /\ IF at[a] = "start" THEN MayHaveStarted(a) ELSE UNCHANGED <<box, lost>>
       \/ /\ at[a] \in {"stop", "interrupted"}
          /\ Goto(a, "raised")
          /\ lost' = lost \cup {a}
          /\ UNCHANGED box
    /\ UNCHANGED <<taskVars, known, agent, verifier, reward, resultVars>>

\* The engine process is killed.
Kill(a) ==
    /\ at[a] \in Inside \cup Ending
    /\ Goto(a, "killed")
    /\ IF at[a] = "start" THEN MayHaveStarted(a) ELSE UNCHANGED <<box, lost>>
    /\ UNCHANGED <<taskVars, known, agent, verifier, reward, resultVars>>

\* All attempts are over; containers that were lost may run on.
Over ==
    /\ \A a \in Attempts : at[a] \in Returned \cup {"killed"}
    /\ UNCHANGED vars

Step(a) ==
    \/ Begin(a)
    \/ Build(a)
    \/ StartContainer(a)
    \/ StartAgent(a)
    \/ AgentExits(a)
    \/ AgentExecTimeout(a)
    \/ VerifierExits(a)
    \/ VerifierExecTimeout(a)
    \/ Copy(a)
    \/ StopContainer(a)
    \/ Report(a)

Next ==
    \/ \E a \in Attempts : Step(a) \/ VerifierWrites(a) \/ Interrupt(a) \/ Kill(a)
    \/ Over

Spec == Init /\ [][Next]_vars

(***************************************************************************)
(* Fairness: everything the engine waits for is a docker call, and each    *)
(* runs under a subprocess time-out.  Nothing is assumed of the agent, of  *)
(* the verifier or of docker, which may all hang.                          *)
(***************************************************************************)
Fairness ==
    \A a \in Attempts :
        /\ WF_vars(Begin(a)) /\ WF_vars(Build(a)) /\ WF_vars(StartContainer(a))
        /\ WF_vars(StartAgent(a)) /\ WF_vars(AgentExecTimeout(a))
        /\ WF_vars(VerifierExecTimeout(a)) /\ WF_vars(Copy(a))
        /\ WF_vars(StopContainer(a)) /\ WF_vars(Report(a))

FairSpec == Spec /\ Fairness

-----------------------------------------------------------------------------
(* What the engine records.                                                *)

\* TaskResult.ok: error is None.
Ok(a) == grade[a].status \notin StageErrors \cup {"not_run"}

\* Mutant: an invalid evaluation is recorded like an unsolved task.
MarkedFailedOnError(a) == ~ Ok(a) \/ ended[a] \in {"error", "crash", "oom"}

\* log_task_to_mlflow: does it close the run as FAILED?
MarkedFailed(a) ==
    \/ ~ Ok(a)
    \/ ended[a] \in {"error", "crash", "oom"}
    \/ grade[a].status # "scored"

-----------------------------------------------------------------------------
(* Properties.                                                             *)

TypeOK ==
    /\ at \in [Attempts -> Places]
    /\ workspace \in [Attempts -> Attempts]
    /\ scripted \in BOOLEAN
    /\ known \subseteq Attempts
    /\ box \in [Attempts -> {"none", "running", "stopped"}]
    /\ agent \in [Attempts -> {"none", "running", "ended"}]
    /\ verifier \in [Attempts -> {"none", "running", "ended"}]
    /\ reward \in [Attempts -> Rewards]
    /\ grade \in [Attempts -> Grades]
    /\ ended \in [Attempts -> Terminations]
    /\ lost \subseteq Attempts

(***************************************************************************)
(* However an attempt ends - setup failure, hard time-out with the agent   *)
(* still at work, verifier time-out, Ctrl-C - its container does not       *)
(* outlive it, unless a docker run or docker stop went wrong.              *)
(***************************************************************************)
NoContainerLeft ==
    \A a \in Attempts :
        at[a] \in Returned /\ a \notin lost => box[a] # "running"

(***************************************************************************)
(* The verifier never judges a directory the agent is still changing: it   *)
(* is started only behind an agent that has exited, never behind one that  *)
(* a time-out left running.                                                *)
(***************************************************************************)
VerifierAlone ==
    \A a \in Attempts : verifier[a] # "none" => agent[a] = "ended"

Shared(a) == \E b \in Attempts : b # a /\ workspace[b] = workspace[a]

(***************************************************************************)
(* A score rests on a verifier that ran to its end and on a reward that    *)
(* was written: the attempt's own, unless two attempts share a workspace.  *)
(***************************************************************************)
ScoreHasAVerifier ==
    \A a \in Attempts :
        grade[a].status = "scored" =>
            /\ verifier[a] = "ended"
            /\ IF Shared(a) THEN grade[a].by # {} ELSE grade[a].by = {a}

(***************************************************************************)
(* The recorded termination and the grade tell one story: a hard time-out, *)
(* an OOM or a crash of the agent is an agent_error and nothing else is.   *)
(***************************************************************************)
TerminationMatchesGrade ==
    \A a \in Attempts :
        ended[a] \in {"exec_timeout", "oom", "crash"} <=> grade[a].status = "agent_error"

(***************************************************************************)
(* A trial recorded as FINISHED is one that was validly evaluated: the     *)
(* agent exited by itself and a verifier scored what it left.              *)
(***************************************************************************)
FinishedTrialIsValid ==
    \A a \in Attempts :
        at[a] = "result" /\ ~ MarkedFailed(a) =>
            /\ grade[a].status = "scored"
            /\ agent[a] = "ended" /\ verifier[a] = "ended"

(***************************************************************************)
(* An attempt comes back whatever hangs: agent, verifier or docker.        *)
(***************************************************************************)
EveryTaskEnds == \A a \in Attempts : <>(at[a] \in Returned \cup {"killed"})

=============================================================================
