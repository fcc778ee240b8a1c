--------------------------- MODULE TaskRunProofs ---------------------------
(***************************************************************************)
(* Theorems about TaskRun for every number of attempts, however they share *)
(* workspaces: no container outlives its attempt unless docker lost it, an *)
(* agent left running by a time-out is never graded, and what is recorded  *)
(* of an attempt is consistent.                                            *)
(***************************************************************************)
EXTENDS TaskRun, TLAPS

(***************************************************************************)
(* The strengthening: where run_task is says how far its agent, verifier   *)
(* and container have come.                                                *)
(***************************************************************************)
\* Before the agent there is no process, no container and no result.
FreshUntilAgent(a) ==
    /\ at[a] \in {"begin"} \cup Setup => agent[a] = "none"
    /\ at[a] \in {"begin", "agent"} \cup Setup =>
          verifier[a] = "none" /\ grade[a].status = "not_run" /\ ended[a] = "ok"
    /\ at[a] \in {"begin", "build", "start"} => box[a] = "none" /\ a \notin known

\* While the verifier is waited for, the agent has exited and the attempt
\* has no grade yet.
GraderFollowsAgent(a) ==
    /\ at[a] = "grader" => grade[a].status = "not_run" /\ ended[a] \in Exits
    /\ verifier[a] # "none" => agent[a] = "ended"
    /\ grade[a].status = "scored" => verifier[a] = "ended"

\* Only the agent stage says that the agent ended badly.
BadEndIsAgentError(a) ==
    ended[a] \in {"exec_timeout", "oom", "crash"} <=> grade[a].status = "agent_error"

\* A running container is one that the finally block will stop, or lost.
ContainerAccounted(a) ==
    box[a] = "running" /\ a \notin lost =>
        a \in known /\ at[a] \notin {"report"} \cup Returned

Accounted(a) ==
    /\ FreshUntilAgent(a)
    /\ GraderFollowsAgent(a)
    /\ BadEndIsAgentError(a)
    /\ ContainerAccounted(a)

\* A reward was written by an attempt that uses the workspace.
RewardHasAWriter ==
    \A w \in Attempts :
        reward[w].value # "absent" =>
            \E b \in Attempts : workspace[b] = w /\ reward[w].by = {b}

\* A score as well.
ScoreHasAWriter ==
    \A a \in Attempts :
        grade[a].status = "scored" =>
            \E b \in Attempts : workspace[b] = workspace[a] /\ grade[a].by = {b}

IInv ==
    /\ TypeOK
    /\ \A a \in Attempts : Accounted(a)
    /\ RewardHasAWriter
    /\ ScoreHasAWriter

LEMMA InitInductive == Init => IInv
BY DEF Init, IInv, TypeOK, Accounted, FreshUntilAgent, GraderFollowsAgent,
       BadEndIsAgentError, ContainerAccounted, RewardHasAWriter, ScoreHasAWriter,
       NotRun, NoReward, Exits, Terminations, Setup, Inside, Ending, Returned,
       Places, Statuses, StageErrors, Grades, Rewards

LEMMA PlacesAre ==
    Places = {"begin", "killed", "build", "start", "read", "agent", "grader", "copy",
              "stop", "interrupted", "report", "result", "raised"}
BY DEF Places, Inside, Setup, Ending, Returned

(***************************************************************************)
(* A step of one attempt writes a value of the right type into each of the *)
(* functions it changes.                                                   *)
(***************************************************************************)
LEMMA GradeTyped ==
    ASSUME TypeOK, NEW a \in Attempts, NEW s \in Statuses, NEW by \in SUBSET Attempts,
           NEW v \in BOOLEAN, SetGrade(a, s, by, v)
    PROVE  grade' \in [Attempts -> Grades]
<1>1. [status |-> s, by |-> by, solved |-> v] \in Grades
  BY DEF Grades
<1>2. QED
  BY <1>1 DEF TypeOK, SetGrade

LEMMA FailTyped ==
    ASSUME TypeOK, NEW a \in Attempts, NEW s \in StageErrors, NEW t \in Terminations,
           Fail(a, s, t)
    PROVE  /\ grade' \in [Attempts -> Grades]
           /\ ended' \in [Attempts -> Terminations]
           /\ at' \in [Attempts -> Places]
<1>1. s \in Statuses /\ {} \in SUBSET Attempts /\ FALSE \in BOOLEAN
  BY DEF Statuses
<1>2. grade' \in [Attempts -> Grades]
  BY <1>1, GradeTyped DEF Fail
<1>3. QED
  BY <1>2, PlacesAre DEF Fail, TypeOK, Goto

LEMMA TypeStep == TypeOK /\ [Next]_vars => TypeOK'
<1> SUFFICES ASSUME TypeOK, [Next]_vars PROVE TypeOK'
  OBVIOUS
<1> USE PlacesAre DEF TypeOK, taskVars, processVars, resultVars, Goto
<1>1. ASSUME NEW a \in Attempts, Begin(a) PROVE TypeOK'
  BY <1>1 DEF Begin
<1>2. ASSUME NEW a \in Attempts, Build(a) PROVE TypeOK'
  BY <1>2, FailTyped DEF Build, StageErrors
<1>3. ASSUME NEW a \in Attempts, StartContainer(a) PROVE TypeOK'
  BY <1>3, FailTyped DEF StartContainer, MayHaveStarted, StageErrors
<1>4. ASSUME NEW a \in Attempts, StartAgent(a) PROVE TypeOK'
  BY <1>4, FailTyped DEF StartAgent, StageErrors
<1>5. ASSUME NEW a \in Attempts, AgentExits(a) PROVE TypeOK'
  BY <1>5, FailTyped DEF AgentExits, StartVerifier, StageErrors, Terminations, Exits
<1>6. ASSUME NEW a \in Attempts, AgentExecTimeout(a) PROVE TypeOK'
  BY <1>6, FailTyped DEF AgentExecTimeout, StageErrors, Terminations
<1>7. ASSUME NEW a \in Attempts, VerifierExecTimeout(a) PROVE TypeOK'
  BY <1>7, FailTyped DEF VerifierExecTimeout, StageErrors
<1>8. ASSUME NEW a \in Attempts, VerifierWrites(a) PROVE TypeOK'
  <2>1. PICK v \in {"bad", "fail", "pass"} :
           reward' = [reward EXCEPT ![workspace[a]] = [value |-> v, by |-> {a}]]
    BY <1>8 DEF VerifierWrites
  <2>2. [value |-> v, by |-> {a}] \in Rewards
    BY DEF Rewards
  <2>3. QED
    BY <1>8, <2>1, <2>2 DEF VerifierWrites
<1>9. ASSUME NEW a \in Attempts, VerifierExits(a) PROVE TypeOK'
  <2>1. ReadReward(a) => grade' \in [Attempts -> Grades]
    <3>1. reward[workspace[a]].by \in SUBSET Attempts
      BY DEF Rewards
    <3>2. QED
      BY <3>1, GradeTyped DEF ReadReward, Statuses
  <2>2. PytestGrade(a) => grade' \in [Attempts -> Grades]
    <3>1. "scored" \in Statuses /\ {a} \in SUBSET Attempts /\ {} \in SUBSET Attempts
      BY DEF Statuses
    <3>2. ASSUME NEW v \in BOOLEAN, SetGrade(a, "scored", {a}, v)
          PROVE  grade' \in [Attempts -> Grades]
      BY <3>1, <3>2, GradeTyped
    <3>3. ASSUME NEW s \in {"missing_verifier", "verifier_setup_error", "pytest_exit"},
                 SetGrade(a, s, {}, FALSE)
          PROVE  grade' \in [Attempts -> Grades]
      <4>1. s \in Statuses /\ FALSE \in BOOLEAN
        BY DEF Statuses
      <4>2. QED
        BY <3>1, <3>3, <4>1, GradeTyped
    <3>4. QED
      BY <3>2, <3>3 DEF PytestGrade
  <2>3. grade' \in [Attempts -> Grades]
    BY <1>9, <2>1, <2>2 DEF VerifierExits
  <2>4. QED
    BY <1>9, <2>3 DEF VerifierExits
<1>10. ASSUME NEW a \in Attempts, Copy(a) \/ Report(a) PROVE TypeOK'
  BY <1>10 DEF Copy, Report, Returned
<1>11. ASSUME NEW a \in Attempts, StopContainer(a) PROVE TypeOK'
  BY <1>11 DEF StopContainer
<1>12. ASSUME NEW a \in Attempts, Interrupt(a) \/ Kill(a) PROVE TypeOK'
  BY <1>12 DEF Interrupt, Kill, MayHaveStarted
<1>13. CASE UNCHANGED vars
  BY <1>13 DEF vars
<1>14. QED
  BY <1>1, <1>2, <1>3, <1>4, <1>5, <1>6, <1>7, <1>8, <1>9, <1>10, <1>11, <1>12, <1>13
     DEF Next, Step, Over

(***************************************************************************)
(* A step of attempt a touches no other attempt.                           *)
(***************************************************************************)
Acts(a) == Step(a) \/ Interrupt(a) \/ Kill(a)

Untouched(b) ==
    /\ at'[b] = at[b]
    /\ agent'[b] = agent[b]
    /\ verifier'[b] = verifier[b]
    /\ grade'[b] = grade[b]
    /\ ended'[b] = ended[b]
    /\ box'[b] = box[b]
    /\ b \in known' <=> b \in known
    /\ b \in lost' <=> b \in lost

LEMMA OthersUntouched ==
    ASSUME TypeOK, NEW a \in Attempts, Acts(a), NEW b \in Attempts \ {a}
    PROVE  Untouched(b)
<1> USE DEF TypeOK, Acts, Untouched, taskVars, processVars, resultVars, Goto
<1>1. CASE Begin(a)
  BY <1>1 DEF Begin
<1>2. CASE Build(a)
  BY <1>2 DEF Build, Fail, SetGrade
<1>3. CASE StartContainer(a)
  BY <1>3 DEF StartContainer, MayHaveStarted, Fail, SetGrade
<1>4. CASE StartAgent(a)
  BY <1>4 DEF StartAgent, Fail, SetGrade
<1>5. CASE AgentExits(a)
  BY <1>5 DEF AgentExits, StartVerifier, Fail, SetGrade
<1>6. CASE AgentExecTimeout(a)
  BY <1>6 DEF AgentExecTimeout, Fail, SetGrade
<1>7. CASE VerifierExits(a)
  BY <1>7 DEF VerifierExits, ReadReward, PytestGrade, SetGrade
<1>8. CASE VerifierExecTimeout(a)
  BY <1>8 DEF VerifierExecTimeout, Fail, SetGrade
<1>9. CASE Copy(a)
  BY <1>9 DEF Copy
<1>10. CASE StopContainer(a)
  BY <1>10 DEF StopContainer
<1>11. CASE Report(a)
  BY <1>11 DEF Report
<1>12. CASE Interrupt(a)
  BY <1>12 DEF Interrupt, MayHaveStarted
<1>13. CASE Kill(a)
  BY <1>13 DEF Kill, MayHaveStarted
<1>14. QED
  BY <1>1, <1>2, <1>3, <1>4, <1>5, <1>6, <1>7, <1>8, <1>9, <1>10, <1>11, <1>12, <1>13 DEF Step

(***************************************************************************)
(* A step of attempt a keeps what is accounted of it.                      *)
(***************************************************************************)
LEMMA ActorAccounted ==
    ASSUME TypeOK, NEW a \in Attempts, Acts(a), Accounted(a)
    PROVE  Accounted(a)'
<1> USE DEF TypeOK, Accounted, FreshUntilAgent, GraderFollowsAgent, BadEndIsAgentError,
            ContainerAccounted, taskVars, processVars, resultVars, Goto, Setup, Inside,
            Ending, Returned, Exits
<1>1. CASE Begin(a)
  BY <1>1 DEF Begin
<1>2. CASE Build(a)
  BY <1>2 DEF Build, Fail, SetGrade
<1>3. CASE StartContainer(a)
  BY <1>3 DEF StartContainer, MayHaveStarted, Fail, SetGrade
<1>4. CASE StartAgent(a)
  BY <1>4 DEF StartAgent, Fail, SetGrade
<1>5. CASE AgentExits(a)
  BY <1>5 DEF AgentExits, StartVerifier, Fail, SetGrade
<1>6. CASE AgentExecTimeout(a)
  BY <1>6 DEF AgentExecTimeout, Fail, SetGrade
<1>7. CASE VerifierExits(a)
  BY <1>7 DEF VerifierExits, ReadReward, PytestGrade, SetGrade
<1>8. CASE VerifierExecTimeout(a)
  BY <1>8 DEF VerifierExecTimeout, Fail, SetGrade
<1>9. CASE Copy(a)
  BY <1>9 DEF Copy
<1>10. CASE StopContainer(a)
  BY <1>10 DEF StopContainer
<1>11. CASE Report(a)
  BY <1>11 DEF Report
<1>12. CASE Interrupt(a)
  BY <1>12 DEF Interrupt, MayHaveStarted
<1>13. CASE Kill(a)
  BY <1>13 DEF Kill, MayHaveStarted
<1>14. QED
  BY <1>1, <1>2, <1>3, <1>4, <1>5, <1>6, <1>7, <1>8, <1>9, <1>10, <1>11, <1>12, <1>13 DEF Acts, Step

LEMMA AccountedStep ==
    TypeOK /\ (\A a \in Attempts : Accounted(a)) /\ [Next]_vars
        => (\A a \in Attempts : Accounted(a))'
<1> SUFFICES ASSUME TypeOK, \A c \in Attempts : Accounted(c), [Next]_vars,
                    NEW b \in Attempts
             PROVE  Accounted(b)'
  OBVIOUS
<1> USE DEF Accounted, FreshUntilAgent, GraderFollowsAgent, BadEndIsAgentError,
            ContainerAccounted
<1>1. ASSUME NEW a \in Attempts, Acts(a) PROVE Accounted(b)'
  <2>1. CASE a = b
    BY <1>1, <2>1, ActorAccounted
  <2>2. CASE a # b
    <3>1. Untouched(b)
      BY <1>1, <2>2, OthersUntouched
    <3>2. QED
      BY <3>1 DEF Untouched
  <2>3. QED
    BY <2>1, <2>2
<1>2. ASSUME NEW a \in Attempts, VerifierWrites(a) PROVE Accounted(b)'
  BY <1>2 DEF VerifierWrites, processVars, resultVars
<1>3. CASE UNCHANGED vars
  BY <1>3 DEF vars, processVars, resultVars
<1>4. QED
  BY <1>1, <1>2, <1>3 DEF Acts, Next, Over

(***************************************************************************)
(* The workspaces are settled at the start, and only a verifier writes a   *)
(* reward.                                                                 *)
(***************************************************************************)
LEMMA RewardWriters ==
    ASSUME [Next]_vars
    PROVE  /\ workspace' = workspace
           /\ UNCHANGED reward \/ \E a \in Attempts : VerifierWrites(a)
<1> USE DEF taskVars
<1>1. ASSUME NEW a \in Attempts, Step(a)
      PROVE  workspace' = workspace /\ UNCHANGED reward
  BY <1>1 DEF Step, Begin, Build, StartContainer, StartAgent, AgentExits,
              AgentExecTimeout, VerifierExits, VerifierExecTimeout, Copy,
              StopContainer, Report
<1>2. ASSUME NEW a \in Attempts, Interrupt(a) \/ Kill(a)
      PROVE  workspace' = workspace /\ UNCHANGED reward
  BY <1>2 DEF Interrupt, Kill
<1>3. ASSUME NEW a \in Attempts, VerifierWrites(a) PROVE workspace' = workspace
  BY <1>3 DEF VerifierWrites
<1>4. CASE UNCHANGED vars
  BY <1>4 DEF vars
<1>5. QED
  BY <1>1, <1>2, <1>3, <1>4 DEF Next, Over

LEMMA RewardStep ==
    TypeOK /\ RewardHasAWriter /\ [Next]_vars => RewardHasAWriter'
<1> SUFFICES ASSUME TypeOK, RewardHasAWriter, [Next]_vars PROVE RewardHasAWriter'
  OBVIOUS
<1>1. CASE UNCHANGED reward
  BY <1>1, RewardWriters DEF RewardHasAWriter
<1>2. ASSUME NEW a \in Attempts, VerifierWrites(a) PROVE RewardHasAWriter'
  BY <1>2, RewardWriters DEF RewardHasAWriter, VerifierWrites, TypeOK, Rewards
<1>3. QED
  BY <1>1, <1>2, RewardWriters

(***************************************************************************)
(* The one step that scores an attempt takes the score from the attempt's  *)
(* own pytest or from the reward in its workspace.                         *)
(***************************************************************************)
LEMMA ScoreComesFrom ==
    ASSUME TypeOK, NEW a \in Attempts, Acts(a), Accounted(a),
           grade'[a].status = "scored"
    PROVE  \/ grade'[a] = grade[a]
           \/ grade'[a].by = {a}
           \/ /\ reward[workspace[a]].value # "absent"
              /\ grade'[a].by = reward[workspace[a]].by
<1> USE DEF TypeOK, resultVars
<1>1. CASE VerifierExits(a)
  BY <1>1 DEF VerifierExits, ReadReward, PytestGrade, SetGrade
<1>2. CASE AgentExits(a)
  BY <1>2 DEF AgentExits, Fail, SetGrade
<1>3. CASE \/ Begin(a) \/ Build(a) \/ StartContainer(a) \/ StartAgent(a)
           \/ AgentExecTimeout(a) \/ VerifierExecTimeout(a)
  BY <1>3 DEF Begin, Build, StartContainer, StartAgent, AgentExecTimeout,
              VerifierExecTimeout, Fail, SetGrade
<1>4. CASE Copy(a) \/ StopContainer(a) \/ Report(a) \/ Interrupt(a) \/ Kill(a)
  BY <1>4 DEF Copy, StopContainer, Report, Interrupt, Kill
<1>5. QED
  BY <1>1, <1>2, <1>3, <1>4 DEF Acts, Step

LEMMA ScoreStep ==
    IInv /\ [Next]_vars => ScoreHasAWriter'
<1> SUFFICES ASSUME IInv, [Next]_vars, NEW b \in Attempts,
                    grade'[b].status = "scored"
             PROVE  \E c \in Attempts : workspace[c] = workspace[b] /\ grade'[b].by = {c}
  BY RewardWriters DEF ScoreHasAWriter
<1>1. ASSUME grade'[b] = grade[b]
      PROVE  \E c \in Attempts : workspace[c] = workspace[b] /\ grade'[b].by = {c}
  BY <1>1 DEF IInv, ScoreHasAWriter
<1>2. ASSUME NEW a \in Attempts, Acts(a)
      PROVE  \E c \in Attempts : workspace[c] = workspace[b] /\ grade'[b].by = {c}
  <2>1. CASE a = b
    <3>1. \/ grade'[b] = grade[b]
          \/ grade'[b].by = {b}
          \/ /\ reward[workspace[b]].value # "absent"
             /\ grade'[b].by = reward[workspace[b]].by
      BY <1>2, <2>1, ScoreComesFrom DEF IInv
    <3>2. QED
      BY <1>1, <3>1 DEF IInv, RewardHasAWriter, TypeOK
  <2>2. CASE a # b
    BY <1>1, <1>2, <2>2, OthersUntouched DEF IInv, Untouched
  <2>3. QED
    BY <2>1, <2>2
<1>3. QED
  BY <1>1, <1>2 DEF Next, Over, Acts, VerifierWrites, vars, resultVars

LEMMA Inductive == IInv /\ [Next]_vars => IInv'
BY TypeStep, AccountedStep, RewardStep, ScoreStep DEF IInv

LEMMA Invariance == Spec => []IInv
<1>1. Init => IInv
  BY InitInductive
<1>2. IInv /\ [Next]_vars => IInv'
  BY Inductive
<1>3. QED
  BY <1>1, <1>2, PTL DEF Spec

(***************************************************************************)
(* Type correctness of task runs.                                          *)
(***************************************************************************)
THEOREM TypeCorrect == Spec => []TypeOK
<1>1. IInv => TypeOK
  BY DEF IInv
<1>2. QED
  BY <1>1, Invariance, PTL

(***************************************************************************)
(* However an attempt ends, the finally block of run_task leaves no        *)
(* container behind that docker has not lost.                              *)
(***************************************************************************)
THEOREM ContainersAreStopped == Spec => []NoContainerLeft
<1>1. IInv => NoContainerLeft
  BY DEF IInv, Accounted, ContainerAccounted, NoContainerLeft
<1>2. QED
  BY <1>1, Invariance, PTL

(***************************************************************************)
(* run_task starts the verifier behind an agent that has exited only: work *)
(* that a hard time-out left unfinished is never graded.                   *)
(***************************************************************************)
THEOREM UnfinishedWorkIsNotGraded == Spec => []VerifierAlone
<1>1. IInv => VerifierAlone
  BY DEF IInv, Accounted, GraderFollowsAgent, VerifierAlone
<1>2. QED
  BY <1>1, Invariance, PTL

(***************************************************************************)
(* A score is the verdict of a verifier that ran to its end: that of the   *)
(* attempt itself, whenever no other attempt uses its workspace.           *)
(***************************************************************************)
THEOREM ScoresAreEarned == Spec => []ScoreHasAVerifier
<1>1. IInv => ScoreHasAVerifier
  BY DEF IInv, Accounted, GraderFollowsAgent, ScoreHasAWriter, ScoreHasAVerifier, Shared
<1>2. QED
  BY <1>1, Invariance, PTL

(***************************************************************************)
(* The termination run_task records and the grade agree.                   *)
(***************************************************************************)
THEOREM RecordsAgree == Spec => []TerminationMatchesGrade
<1>1. IInv => TerminationMatchesGrade
  BY DEF IInv, Accounted, BadEndIsAgentError, TerminationMatchesGrade
<1>2. QED
  BY <1>1, Invariance, PTL

(***************************************************************************)
(* What log_task_to_mlflow records as FINISHED was validly evaluated.      *)
(***************************************************************************)
THEOREM FinishedMeansEvaluated == Spec => []FinishedTrialIsValid
<1>1. IInv => FinishedTrialIsValid
  BY DEF IInv, Accounted, GraderFollowsAgent, FinishedTrialIsValid, MarkedFailed
<1>2. QED
  BY <1>1, Invariance, PTL

=============================================================================
