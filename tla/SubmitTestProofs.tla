-------------------------- MODULE SubmitTestProofs --------------------------
(***************************************************************************)
(* Theorems about SubmitTest for every set of commands, each with any      *)
(* sequence of tasks, in any set of workspaces: for whom a job directory   *)
(* may stand in, and which runs stay open.                                 *)
(***************************************************************************)
EXTENDS SubmitTest, FiniteSetTheorems, SequenceTheorems, TLAPS

Trying == {"harbor", "failed", "read"}
Logging == {"findExperiment", "createExperiment", "createRun", "closeRun", "verdict"}

Job == [there : BOOLEAN, done : BOOLEAN, found : SUBSET Results]
Trial == [of : Tasks, task : Tasks, dir : Dirs \cup {None}, result : ResultShapes]
RunStatus == {"RUNNING", "FINISHED", "FAILED"}

TypeOK ==
    /\ workspace \in [Tests -> Workspaces]
    /\ jobs \in [Workspaces -> [Dirs -> Job]]
    /\ at \in [Tests -> {"start", "over"} \cup Trying \cup Logging]
    /\ trials \in [Tests -> Seq(Trial)]
    /\ group \in [Tests -> Nat]
    /\ \A p \in Tests :
          at[p] \in {"start"} \cup Trying => group[p] < Len(Selected[p])
    /\ runs \in [Tests -> Seq(RunStatus)]
    /\ returned \in [Tests -> {"none", "ok", "failed"}]

-----------------------------------------------------------------------------
(* The trials of one job.                                                  *)

(***************************************************************************)
(* A finite set as a sequence has the members of the set, and is empty     *)
(* only if the set is.                                                     *)
(***************************************************************************)
LEMMA SetToSeqMembers ==
    ASSUME NEW S, IsFiniteSet(S)
    PROVE  SetToSeq(S) \in Seq(S) /\ (S # {} => SetToSeq(S) # << >>)
<1>1. Cardinality(S) \in Nat /\ ExistsBijection(1 .. Cardinality(S), S)
  BY FS_CardinalityType
<1>2. \E f \in [1 .. Cardinality(S) -> S] : IsInjective(f)
  BY <1>1 DEF ExistsBijection, Bijection, Injection
<1>3. SetToSeq(S) \in [1 .. Cardinality(S) -> S]
  BY <1>2 DEF SetToSeq
<1>4. SetToSeq(S) \in Seq(S) /\ Len(SetToSeq(S)) = Cardinality(S)
  BY <1>1, <1>3
<1>5. S # {} => Cardinality(S) # 0
  BY FS_EmptySet
<1>6. QED
  BY <1>4, <1>5

ReadFrom(p, d) ==
    {[of |-> Task(p), task |-> d[2], dir |-> d, result |-> r] :
        r \in jobs[workspace[p]][d].found}

Unread(p) == [of |-> Task(p), task |-> Task(p), dir |-> None, result |-> Error]

LEMMA TaskIsSelected ==
    ASSUME TypeOK, NEW p \in Tests, at[p] \in {"start"} \cup Trying
    PROVE  Task(p) \in Tasks
<1>1. Selected[p] \in Seq(Tasks) /\ group[p] \in Nat /\ group[p] < Len(Selected[p])
  BY SubmitTestAssumption DEF TypeOK
<1>2. group[p] + 1 \in 1 .. Len(Selected[p])
  BY <1>1
<1>3. QED
  BY <1>1, <1>2 DEF Task

LEMMA ReadTrials ==
    ASSUME TypeOK, NEW p \in Tests, at[p] \in Trying, NEW d \in Dirs
    PROVE  /\ ReadFrom(p, d) \subseteq Trial
           /\ IsFiniteSet(ReadFrom(p, d))
           /\ \A x \in ReadFrom(p, d) : x.of = Task(p) /\ x.dir = d
<1> DEFINE found == jobs[workspace[p]][d].found
           trial(r) == [of |-> Task(p), task |-> d[2], dir |-> d, result |-> r]
           f == [r \in found |-> trial(r)]
<1>1. found \subseteq Results
  BY DEF TypeOK, Job
<1>2. IsFiniteSet(found)
  BY <1>1, FS_Subset, SubmitTestAssumption
<1>3. f \in Surjection(found, ReadFrom(p, d))
  BY DEF Surjection, ReadFrom
<1>4. IsFiniteSet(ReadFrom(p, d))
  BY <1>2, <1>3, FS_Surjection
<1>5. Task(p) \in Tasks
  BY TaskIsSelected
<1>6. d[2] \in Tasks
  BY DEF Dirs
<1>7. \A r \in found : trial(r) \in Trial
  BY <1>1, <1>5, <1>6, SubmitTestAssumption DEF Trial
<1>8. QED
  BY <1>4, <1>7 DEF ReadFrom

(***************************************************************************)
(* A counted task adds trials of its own, at least one, all of which come  *)
(* from one of the directories to choose from or from none.                *)
(***************************************************************************)
LEMMA CountAdds ==
    ASSUME TypeOK, NEW p \in Tests, at[p] \in Trying,
           NEW ds \in SUBSET Dirs, Count(p, ds)
    PROVE  \E new \in Seq(Trial) :
               /\ new # << >>
               /\ trials' = [trials EXCEPT ![p] = @ \o new]
               /\ \A i \in DOMAIN new :
                      new[i].of = Task(p) /\ new[i].dir \in ds \cup {None}
<1>1. CASE \E d \in ds : /\ ReadFrom(p, d) # {}
                         /\ trials' = [trials EXCEPT ![p] = @ \o SetToSeq(ReadFrom(p, d))]
  <2>1. PICK d \in ds :
            /\ ReadFrom(p, d) # {}
            /\ trials' = [trials EXCEPT ![p] = @ \o SetToSeq(ReadFrom(p, d))]
    BY <1>1
  <2>2. /\ ReadFrom(p, d) \subseteq Trial
        /\ IsFiniteSet(ReadFrom(p, d))
        /\ \A x \in ReadFrom(p, d) : x.of = Task(p) /\ x.dir = d
    BY ReadTrials
  <2> DEFINE new == SetToSeq(ReadFrom(p, d))
  <2>3. new \in Seq(ReadFrom(p, d)) /\ new # << >>
    BY <2>1, <2>2, SetToSeqMembers
  <2>4. new \in Seq(Trial)
    BY <2>2, <2>3, SeqMonotonic
  <2>5. \A i \in DOMAIN new : new[i] \in ReadFrom(p, d)
    BY <2>3
  <2>6. QED
    BY <2>1, <2>2, <2>3, <2>4, <2>5
<1>2. CASE trials' = [trials EXCEPT ![p] = Append(@, Unread(p))]
  <2> DEFINE new == <<Unread(p)>>
  <2>1. Task(p) \in Tasks
    BY TaskIsSelected
  <2>2. Unread(p) \in Trial
    BY <2>1 DEF Unread, Trial, Error, ResultShapes
  <2>3. trials[p] \in Seq(Trial)
    BY DEF TypeOK
  <2>4. Append(trials[p], Unread(p)) = trials[p] \o new
    BY <2>2, <2>3, AppendIsConcat
  <2>5. new \in Seq(Trial) /\ new # << >> /\ DOMAIN new = {1}
    BY <2>2
  <2>6. new[1].of = Task(p) /\ new[1].dir = None
    BY DEF Unread
  <2>7. QED
    BY <1>2, <2>4, <2>5, <2>6
<1>3. QED
  BY <1>1, <1>2 DEF Count, ReadFrom, Unread

-----------------------------------------------------------------------------
(* The steps.                                                              *)

\* Whatever a command does after Harbor, and when it dies.
AfterHarbor(p) ==
    \/ Start(p) \/ FindExperiment(p) \/ CreateExperiment(p) \/ CreateRun(p)
    \/ CloseRun(p) \/ Verdict(p) \/ TestDies(p)

\* A task is through: with a job or without.
Counts(p) ==
    /\ at[p] \in Trying
    /\ UNCHANGED <<workspace, jobs, runs, returned>>
    /\ \E ds \in SUBSET Dirs :
           /\ Count(p, ds)
           /\ ds = {} \/ ds = FindJobDir(workspace[p], Task(p))

LEMMA StepCases ==
    ASSUME TypeOK, [Next]_vars
    PROVE  \/ \E p \in Tests : Harbor(p) \/ Counts(p) \/ AfterHarbor(p)
           \/ UNCHANGED vars
<1>1. ASSUME NEW p \in Tests, TestNext(p)
      PROVE  Harbor(p) \/ Counts(p) \/ AfterHarbor(p)
  <2>1. CASE HarborFailed(p)
    BY <2>1 DEF HarborFailed, Counts, Trying
  <2>2. CASE ReadJob(p)
    <3>1. Task(p) \in Tasks
      BY <2>2, TaskIsSelected DEF ReadJob, Trying
    <3>2. FindJobDir(workspace[p], Task(p)) \in SUBSET Dirs
      BY <3>1 DEF FindJobDir, Candidates, Dirs
    <3>3. QED
      BY <2>2, <3>2 DEF ReadJob, Counts, Trying
  <2>3. QED
    BY <1>1, <2>1, <2>2 DEF TestNext, AfterHarbor
<1>2. QED
  BY <1>1 DEF Next, Over

\* A changed last element leaves a sequence a sequence of the same length.
LEMMA LastExcept ==
    ASSUME NEW S, NEW s \in Seq(S), NEW e \in S
    PROVE  LET new == [s EXCEPT ![Len(s)] = e]
           IN  /\ new \in Seq(S) /\ Len(new) = Len(s)
               /\ \A k \in 1 .. Len(s) : new[k] = IF k = Len(s) THEN e ELSE s[k]
<1> DEFINE new == [s EXCEPT ![Len(s)] = e]
           n == Len(s)
<1>1. n \in Nat /\ s \in [1 .. n -> S] /\ DOMAIN s = 1 .. n
  OBVIOUS
<1>2. new = [k \in DOMAIN s |-> IF k = Len(s) THEN e ELSE s[k]]
  OBVIOUS
<1> HIDE DEF n
<1>3. new = [k \in 1 .. n |-> IF k = n THEN e ELSE s[k]]
  BY <1>1, <1>2 DEF n
<1>4. new \in [1 .. n -> S]
  BY <1>1, <1>3
<1> HIDE DEF new
<1>5. new \in Seq(S) /\ Len(new) = n
  BY <1>1, <1>4
<1>6. QED
  BY <1>1, <1>3, <1>5 DEF new, n

(***************************************************************************)
(* Type correctness.                                                       *)
(***************************************************************************)
LEMMA TypeInit == Init => TypeOK
<1> SUFFICES ASSUME Init PROVE TypeOK
  OBVIOUS
<1>1. jobs \in [Workspaces -> [Dirs -> Job]]
  BY DEF Init, NoDir, Job
<1>2. \A p \in Tests : Len(Selected[p]) > 0
  BY SubmitTestAssumption
<1>3. QED
  BY <1>1, <1>2 DEF Init, TypeOK, Trying, Logging

LEMMA TypeStep == TypeOK /\ [Next]_vars => TypeOK'
<1> SUFFICES ASSUME TypeOK, [Next]_vars PROVE TypeOK'
  OBVIOUS
<1>1. ASSUME NEW p \in Tests, Harbor(p) PROVE TypeOK'
  <2>1. Task(p) \in Tasks /\ at[p] = "harbor"
    BY <1>1, TaskIsSelected DEF Harbor, Trying
  <2>2. jobs' \in [Workspaces -> [Dirs -> Job]]
    <3>1. CASE UNCHANGED jobs
      BY <3>1 DEF TypeOK
    <3>2. ASSUME NEW name \in {"asked", "own"}, NEW done \in BOOLEAN,
                 NEW found \in {{}} \cup {{result} : result \in Results},
                 jobs' = [jobs EXCEPT ![workspace[p]][<<name, Task(p)>>] =
                     [there |-> TRUE,
                      done |-> jobs[workspace[p]][<<name, Task(p)>>].done \/ done,
                      found |-> jobs[workspace[p]][<<name, Task(p)>>].found \cup found]]
          PROVE  jobs' \in [Workspaces -> [Dirs -> Job]]
      <4>1. workspace[p] \in Workspaces /\ <<name, Task(p)>> \in Dirs
        BY <2>1 DEF TypeOK, Dirs
      <4>2. jobs[workspace[p]][<<name, Task(p)>>] \in Job
        BY <4>1 DEF TypeOK
      <4>3. [there |-> TRUE,
             done |-> jobs[workspace[p]][<<name, Task(p)>>].done \/ done,
             found |-> jobs[workspace[p]][<<name, Task(p)>>].found \cup found] \in Job
        BY <4>2 DEF Job
      <4>4. QED
        BY <3>2, <4>1, <4>3 DEF TypeOK
    <3>3. QED
      BY <1>1, <3>1, <3>2 DEF Harbor
  <2>3. QED
    BY <1>1, <2>1, <2>2 DEF Harbor, Goto, TypeOK, Trying, Logging
<1>2. ASSUME NEW p \in Tests, Counts(p) PROVE TypeOK'
  <2>1. PICK ds \in SUBSET Dirs : Count(p, ds)
    BY <1>2 DEF Counts
  <2>2. PICK new \in Seq(Trial) : trials' = [trials EXCEPT ![p] = @ \o new]
    BY <1>2, <2>1, CountAdds DEF Counts
  <2>3. trials' \in [Tests -> Seq(Trial)]
    BY <2>2 DEF TypeOK
  <2> DEFINE next == group[p] + 1
  <2>a. /\ group' = [group EXCEPT ![p] = next]
        /\ \/ next < Len(Selected[p]) /\ at' = [at EXCEPT ![p] = "harbor"]
           \/ at' = [at EXCEPT ![p] = "findExperiment"]
           \/ at' = [at EXCEPT ![p] = "verdict"]
    BY <2>1 DEF Count, Goto
  <2>b. group \in [Tests -> Nat] /\ next \in Nat
    BY DEF TypeOK
  <2> HIDE DEF next
  <2>4. /\ group' \in [Tests -> Nat]
        /\ at' \in [Tests -> {"start", "over"} \cup Trying \cup Logging]
    BY <2>a, <2>b DEF TypeOK, Trying, Logging
  <2>5. \A q \in Tests :
            at'[q] \in {"start"} \cup Trying => group'[q] < Len(Selected[q])
    BY <2>a, <2>b DEF TypeOK, Trying, Logging
  <2>6. QED
    BY <1>2, <2>3, <2>4, <2>5 DEF Counts, TypeOK
<1>3. ASSUME NEW p \in Tests, AfterHarbor(p) PROVE TypeOK'
  <2>1. UNCHANGED <<workspace, jobs, trials, group>>
    BY <1>3 DEF AfterHarbor, Start, FindExperiment, CreateExperiment, CreateRun,
                CloseRun, Verdict, TestDies
  <2>2. /\ at' \in [Tests -> {"start", "over"} \cup Trying \cup Logging]
        /\ \A q \in Tests : at'[q] \in {"start"} \cup Trying =>
                               at[q] \in {"start"} \cup Trying
    BY <1>3 DEF AfterHarbor, Start, FindExperiment, CreateExperiment, CreateRun,
                CloseRun, Verdict, TestDies, Goto, TypeOK, Trying, Logging
  <2>3. returned' \in [Tests -> {"none", "ok", "failed"}]
    BY <1>3 DEF AfterHarbor, Start, FindExperiment, CreateExperiment, CreateRun,
                CloseRun, Verdict, TestDies, TypeOK
  <2>4. runs' \in [Tests -> Seq(RunStatus)]
    <3>1. \A result : Closed(result) \in RunStatus
      BY DEF Closed, RunStatus
    <3>2. runs[p] \in Seq(RunStatus) /\ "RUNNING" \in RunStatus
      BY DEF TypeOK, RunStatus
    <3>3. [runs EXCEPT ![p] = Append(@, "RUNNING")] \in [Tests -> Seq(RunStatus)]
      BY <3>2 DEF TypeOK
    <3>4. [runs EXCEPT ![p][Len(runs[p])] = Closed(Logged(p).result)]
              \in [Tests -> Seq(RunStatus)]
      <4>1. [runs[p] EXCEPT ![Len(runs[p])] = Closed(Logged(p).result)] \in Seq(RunStatus)
        BY <3>1, <3>2, LastExcept
      <4>2. QED
        BY <4>1 DEF TypeOK
    <3>5. QED
      BY <1>3, <3>3, <3>4 DEF AfterHarbor, Start, FindExperiment, CreateExperiment,
             CreateRun, CloseRun, Verdict, TestDies, TypeOK
  <2>5. QED
    BY <2>1, <2>2, <2>3, <2>4 DEF TypeOK
<1>4. CASE UNCHANGED vars
  BY <1>4 DEF vars, TypeOK
<1>5. QED
  BY StepCases, <1>1, <1>2, <1>3, <1>4

(***************************************************************************)
(* Every reachable state of the commands has these types.                  *)
(***************************************************************************)
THEOREM TypeCorrect == Spec => []TypeOK
BY TypeInit, TypeStep, PTL DEF Spec

-----------------------------------------------------------------------------
(***************************************************************************)
(* Stand-ins: a trial is of its task's own directory, of none, or of one   *)
(* that is a finished job of the workspace, which it remains.              *)
(***************************************************************************)
Own(trial) == trial.dir \in {None, <<"asked", trial.of>>}

FromCandidates ==
    \A p \in Tests : \A i \in DOMAIN trials[p] :
        Own(trials[p][i]) \/ trials[p][i].dir \in Candidates(workspace[p])

StandIn == FromCandidates /\ OneStandIn

(***************************************************************************)
(* find_job_dir stands another directory in only when it is the only       *)
(* finished one.                                                           *)
(***************************************************************************)
LEMMA StandInIsOnly ==
    ASSUME NEW w, NEW t, NEW d \in FindJobDir(w, t)
    PROVE  d = <<"asked", t>> \/ Candidates(w) = {d}
<1>1. CASE jobs[w][<<"asked", t>>].there
  BY <1>1 DEF FindJobDir
<1>2. CASE ~ jobs[w][<<"asked", t>>].there
  <2>1. d \in Candidates(w) /\ Cardinality(Candidates(w)) = 1
    BY <1>2 DEF FindJobDir
  <2>2. IsFiniteSet({"asked", "own"})
    <3>1. IsFiniteSet({"asked"}) /\ IsFiniteSet({"own"})
      BY FS_Singleton
    <3>2. IsFiniteSet({"asked"} \cup {"own"})
      BY <3>1, FS_Union
    <3>3. {"asked"} \cup {"own"} = {"asked", "own"}
      OBVIOUS
    <3>4. QED
      BY <3>2, <3>3
  <2>3. IsFiniteSet(Dirs)
    <3>1. IsFiniteSet(Tasks)
      BY SubmitTestAssumption
    <3>2. IsFiniteSet({"asked", "own"} \X Tasks)
      BY <2>2, <3>1, FS_Product
    <3>3. QED
      BY <3>2 DEF Dirs
  <2>4. IsFiniteSet(Candidates(w))
    BY <2>3, FS_Subset DEF Candidates
  <2>5. PICK x : Candidates(w) = {x}
    BY <2>1, <2>4, FS_Singleton
  <2>6. QED
    BY <2>1, <2>5
<1>3. QED
  BY <1>1, <1>2

LEMMA StandInCounts ==
    ASSUME TypeOK, StandIn, NEW p \in Tests, Counts(p)
    PROVE  StandIn'
<1>1. PICK ds \in SUBSET Dirs :
          Count(p, ds) /\ (ds = {} \/ ds = FindJobDir(workspace[p], Task(p)))
  BY DEF Counts
<1>2. PICK new \in Seq(Trial) :
          /\ trials' = [trials EXCEPT ![p] = @ \o new]
          /\ \A i \in DOMAIN new : new[i].of = Task(p) /\ new[i].dir \in ds \cup {None}
  BY <1>1, CountAdds DEF Counts
<1> DEFINE old == trials[p]
           n == Len(old)
<1>3. old \in Seq(Trial) /\ n \in Nat /\ Len(new) \in Nat
  BY <1>2 DEF TypeOK
<1>4. /\ DOMAIN trials'[p] = 1 .. n + Len(new)
      /\ \A i \in 1 .. n + Len(new) :
             trials'[p][i] = IF i <= n THEN old[i] ELSE new[i - n]
  <2>1. trials'[p] = old \o new
    BY <1>2 DEF TypeOK
  <2>2. QED
    BY <1>2, <1>3, <2>1, ConcatProperties
<1>5. UNCHANGED <<workspace, jobs>>
  BY DEF Counts
<1>6. \A w : Candidates(w)' = Candidates(w)
  BY <1>5 DEF Candidates
<1>7. ASSUME NEW i \in DOMAIN trials'[p]
      PROVE  \/ i \in DOMAIN old /\ trials'[p][i] = old[i]
             \/ /\ i > n
                /\ \/ Own(trials'[p][i])
                   \/ Candidates(workspace[p]) = {trials'[p][i].dir}
  <2>1. CASE i <= n
    BY <1>3, <1>4, <2>1
  <2>2. CASE i > n
    <3>1. i - n \in DOMAIN new /\ trials'[p][i] = new[i - n]
      BY <1>2, <1>3, <1>4, <2>2
    <3>2. new[i - n].of = Task(p) /\ new[i - n].dir \in ds \cup {None}
      BY <1>2, <3>1
    <3>3. new[i - n].dir \in ds =>
              \/ new[i - n].dir = <<"asked", Task(p)>>
              \/ Candidates(workspace[p]) = {new[i - n].dir}
      BY <1>1, StandInIsOnly
    <3>4. QED
      BY <2>2, <3>1, <3>2, <3>3 DEF Own
  <2>3. QED
    BY <1>3, <1>4, <2>1, <2>2
<1>8. \A q \in Tests \ {p} : trials'[q] = trials[q]
  BY <1>2 DEF TypeOK
<1>9. FromCandidates'
  <2>1. \A i \in DOMAIN trials'[p] :
            Own(trials'[p][i]) \/ trials'[p][i].dir \in Candidates(workspace[p])
    BY <1>7 DEF StandIn, FromCandidates
  <2>2. \A q \in Tests : \A i \in DOMAIN trials'[q] :
            Own(trials'[q][i]) \/ trials'[q][i].dir \in Candidates(workspace[q])
    BY <1>8, <2>1 DEF StandIn, FromCandidates
  <2>3. QED
    BY <1>5, <1>6, <2>2 DEF FromCandidates, Own
<1>10. OneStandIn'
  <2>1. ASSUME NEW i \in DOMAIN trials'[p], NEW j \in DOMAIN trials'[p],
               ~ Own(trials'[p][i]), ~ Own(trials'[p][j])
        PROVE  trials'[p][i].dir = trials'[p][j].dir
    <3>1. CASE i \in DOMAIN old /\ trials'[p][i] = old[i]
               /\ j \in DOMAIN old /\ trials'[p][j] = old[j]
      BY <2>1, <3>1 DEF StandIn, OneStandIn, Borrowed, Own
    <3>2. CASE Candidates(workspace[p]) = {trials'[p][i].dir}
      <4>1. trials'[p][j].dir \in Candidates(workspace[p])
        BY <1>7, <2>1 DEF StandIn, FromCandidates
      <4>2. QED
        BY <3>2, <4>1
    <3>3. CASE Candidates(workspace[p]) = {trials'[p][j].dir}
      <4>1. trials'[p][i].dir \in Candidates(workspace[p])
        BY <1>7, <2>1 DEF StandIn, FromCandidates
      <4>2. QED
        BY <3>3, <4>1
    <3>4. QED
      BY <1>7, <2>1, <3>1, <3>2, <3>3
  <2>2. QED
    BY <1>8, <2>1 DEF StandIn, OneStandIn, Borrowed, Own
<1>11. QED
  BY <1>9, <1>10 DEF StandIn

LEMMA StandInStep == TypeOK /\ StandIn /\ [Next]_vars => StandIn'
<1> SUFFICES ASSUME TypeOK, StandIn, [Next]_vars PROVE StandIn'
  OBVIOUS
<1>1. ASSUME UNCHANGED <<workspace, trials>>,
             \A w \in Workspaces : Candidates(w) \subseteq Candidates(w)'
      PROVE  StandIn'
  BY <1>1 DEF StandIn, FromCandidates, OneStandIn, Borrowed, Own, TypeOK
<1>2. ASSUME NEW p \in Tests, Harbor(p) PROVE StandIn'
  <2>1. \A w \in Workspaces, d \in Dirs : jobs[w][d].done => jobs'[w][d].done
    <3>1. jobs \in [Workspaces -> [Dirs -> Job]] /\ workspace[p] \in Workspaces
      BY DEF TypeOK
    <3>2. ASSUME NEW name \in {"asked", "own"}, NEW done \in BOOLEAN,
                 NEW found \in {{}} \cup {{result} : result \in Results},
                 jobs' = [jobs EXCEPT ![workspace[p]][<<name, Task(p)>>] =
                     [there |-> TRUE,
                      done |-> jobs[workspace[p]][<<name, Task(p)>>].done \/ done,
                      found |-> jobs[workspace[p]][<<name, Task(p)>>].found \cup found]],
                 NEW w \in Workspaces, NEW d \in Dirs, jobs[w][d].done
          PROVE  jobs'[w][d].done
      <4>1. CASE w = workspace[p] /\ d = <<name, Task(p)>>
        <5>1. jobs'[w][d].done = (jobs[w][d].done \/ done)
          BY <3>1, <3>2, <4>1
        <5>2. QED
          BY <3>2, <5>1
      <4>2. CASE ~ (w = workspace[p] /\ d = <<name, Task(p)>>)
        <5>1. jobs'[w][d] = jobs[w][d]
          BY <3>1, <3>2, <4>2
        <5>2. QED
          BY <3>2, <5>1
      <4>3. QED
        BY <4>1, <4>2
    <3>3. QED
      BY <1>2, <3>2 DEF Harbor
  <2>2. UNCHANGED <<workspace, trials>>
    BY <1>2 DEF Harbor
  <2>3. QED
    BY <1>1, <2>1, <2>2 DEF Candidates
<1>3. ASSUME NEW p \in Tests, AfterHarbor(p) PROVE StandIn'
  <2>1. UNCHANGED <<workspace, jobs, trials>>
    BY <1>3 DEF AfterHarbor, Start, FindExperiment, CreateExperiment, CreateRun,
                CloseRun, Verdict, TestDies
  <2>2. QED
    BY <1>1, <2>1 DEF Candidates
<1>4. CASE UNCHANGED vars
  BY <1>1, <1>4 DEF vars, Candidates
<1>5. QED
  BY StepCases, StandInCounts, <1>2, <1>3, <1>4

(***************************************************************************)
(* However many commands share a workspace, all trials a command takes     *)
(* from a directory it did not ask for are of one and the same directory.  *)
(***************************************************************************)
THEOREM OnlyOneStandsIn == Spec => []OneStandIn
<1>1. Init => StandIn
  BY DEF Init, StandIn, FromCandidates, OneStandIn, Borrowed
<1>2. StandIn => OneStandIn
  BY DEF StandIn
<1>3. QED
  BY TypeCorrect, StandInStep, <1>1, <1>2, PTL DEF Spec

-----------------------------------------------------------------------------
(***************************************************************************)
(* The runs of a command: none before the logging, then one after the      *)
(* other, each closed before the next.  Stated of a command's place, its   *)
(* trials, its runs and its answer.                                        *)
(***************************************************************************)
IsOpen(place, done, answer, k) ==
    /\ place \in {"closeRun", "over"}
    /\ k = Len(done) /\ done[k] = "RUNNING" /\ answer = "none"

Settled(place, all, done, answer) ==
    /\ Len(done) <= Len(all)
    /\ place \in {"start"} \cup Trying \cup {"findExperiment", "createExperiment"} =>
           Len(done) = 0
    /\ place \in {"findExperiment", "createExperiment"} => Len(all) > 0
    /\ place = "createRun" => Len(done) < Len(all)
    /\ place = "closeRun" => Len(done) > 0
    /\ place = "verdict" => Len(done) \in {0, Len(all)}
    /\ place # "over" => answer = "none"
    /\ answer # "none" => Len(done) \in {0, Len(all)}
    /\ \A k \in 1 .. Len(done) :
           done[k] = Closed(all[k].result) \/ IsOpen(place, done, answer, k)

AllSettled ==
    \A p \in Tests : Settled(at[p], trials[p], runs[p], returned[p])

\* Steps that leave the runs and the trials as they are.
LEMMA SettledOtherPlace ==
    ASSUME TypeOK, NEW p \in Tests,
           \/ Start(p) \/ FindExperiment(p) \/ CreateExperiment(p) \/ Verdict(p)
           \/ TestDies(p) /\ UNCHANGED runs,
           Settled(at[p], trials[p], runs[p], returned[p])
    PROVE  Settled(at'[p], trials'[p], runs'[p], returned'[p])
<1>1. UNCHANGED <<trials, runs>>
  BY DEF Start, FindExperiment, CreateExperiment, Verdict, TestDies
<1>2. Len(trials[p]) \in Nat /\ Len(runs[p]) \in Nat
  BY DEF TypeOK
<1>3. CASE Start(p)
  BY <1>1, <1>2, <1>3 DEF Start, Goto, Settled, IsOpen, TypeOK, Trying, Logging
<1>4. CASE FindExperiment(p)
  BY <1>1, <1>2, <1>4 DEF FindExperiment, Goto, Settled, IsOpen, TypeOK, Trying, Logging
<1>5. CASE CreateExperiment(p)
  BY <1>1, <1>2, <1>5 DEF CreateExperiment, Goto, Settled, IsOpen, TypeOK, Trying, Logging
<1>6. CASE Verdict(p)
  BY <1>1, <1>2, <1>6 DEF Verdict, Goto, Settled, IsOpen, TypeOK, Trying, Logging
<1>7. CASE TestDies(p) /\ UNCHANGED runs
  BY <1>1, <1>2, <1>7 DEF TestDies, Goto, Settled, IsOpen, TypeOK, Trying, Logging
<1>8. QED
  BY <1>3, <1>4, <1>5, <1>6, <1>7

\* A run is created, by a command that goes on or dies.
LEMMA SettledCreateRun ==
    ASSUME TypeOK, NEW p \in Tests, at[p] = "createRun",
           Settled(at[p], trials[p], runs[p], returned[p]),
           NEW place \in {"closeRun", "over"}
    PROVE  Settled(place, trials[p], Append(runs[p], "RUNNING"), returned[p])
<1> DEFINE done == runs[p]
           new == Append(done, "RUNNING")
<1>1. done \in Seq(RunStatus) /\ Len(done) \in Nat /\ Len(trials[p]) \in Nat
  BY DEF TypeOK
<1>2. /\ Len(new) = Len(done) + 1
      /\ \A k \in 1 .. Len(done) : new[k] = done[k]
      /\ new[Len(done) + 1] = "RUNNING"
  BY <1>1
<1>3. \A k \in 1 .. Len(new) : k \in 1 .. Len(done) \/ k = Len(done) + 1
  BY <1>1, <1>2
<1>4. /\ Len(done) < Len(trials[p]) /\ returned[p] = "none"
      /\ \A k \in 1 .. Len(done) : done[k] = Closed(trials[p][k].result)
  BY DEF Settled, IsOpen
<1> HIDE DEF new
<1>5. \A k \in 1 .. Len(new) :
          new[k] = Closed(trials[p][k].result)
          \/ IsOpen(place, new, returned[p], k)
  BY <1>2, <1>3, <1>4 DEF IsOpen
<1>6. QED
  BY <1>1, <1>2, <1>4, <1>5 DEF Settled, Trying, new

\* A run is closed, by a command that goes on or dies.
LEMMA SettledCloseRun ==
    ASSUME TypeOK, NEW p \in Tests, at[p] = "closeRun",
           Settled(at[p], trials[p], runs[p], returned[p]),
           NEW place,
           \/ place = "over"
           \/ place = IF Len(runs[p]) < Len(trials[p]) THEN "createRun" ELSE "verdict"
    PROVE  Settled(place, trials[p],
                   [runs[p] EXCEPT ![Len(runs[p])] = Closed(Logged(p).result)],
                   returned[p])
<1> DEFINE done == runs[p]
           new == [done EXCEPT ![Len(done)] = Closed(Logged(p).result)]
<1>1. done \in Seq(RunStatus) /\ Len(done) \in Nat /\ Len(trials[p]) \in Nat
  BY DEF TypeOK
<1>2. Closed(Logged(p).result) \in RunStatus
  BY DEF Closed, RunStatus
<1>3. /\ new \in Seq(RunStatus) /\ Len(new) = Len(done)
      /\ \A k \in 1 .. Len(done) :
             new[k] = IF k = Len(done) THEN Closed(Logged(p).result) ELSE done[k]
  BY <1>1, <1>2, LastExcept
<1>4. /\ 0 < Len(done) /\ Len(done) <= Len(trials[p]) /\ returned[p] = "none"
      /\ \A k \in 1 .. Len(done) :
             k # Len(done) => done[k] = Closed(trials[p][k].result)
  BY <1>1 DEF Settled, IsOpen
<1> HIDE DEF new
<1>5. \A k \in 1 .. Len(new) : new[k] = Closed(trials[p][k].result)
  BY <1>3, <1>4 DEF Logged
<1>6. Settled(place, trials[p], new, returned[p])
  BY <1>1, <1>3, <1>4, <1>5 DEF Settled, Trying
<1>7. QED
  BY <1>6 DEF new

LEMMA SettledStep == TypeOK /\ AllSettled /\ [Next]_vars => AllSettled'
<1> SUFFICES ASSUME TypeOK, AllSettled, [Next]_vars PROVE AllSettled'
  OBVIOUS
<1>1. ASSUME NEW p \in Tests,
             Settled(at'[p], trials'[p], runs'[p], returned'[p]),
             \A q \in Tests \ {p} :
                 /\ at'[q] = at[q] /\ trials'[q] = trials[q]
                 /\ runs'[q] = runs[q] /\ returned'[q] = returned[q]
      PROVE  AllSettled'
  <2>1. \A q \in Tests : Settled(at'[q], trials'[q], runs'[q], returned'[q])
    BY <1>1 DEF AllSettled
  <2>2. QED
    BY <2>1 DEF AllSettled, Settled, IsOpen, Closed, Status, Valid
<1>2. ASSUME NEW p \in Tests
      PROVE  Settled(at[p], trials[p], runs[p], returned[p])
  BY DEF AllSettled
<1>3. ASSUME NEW p \in Tests, Harbor(p) PROVE AllSettled'
  <2>1. Settled(at'[p], trials'[p], runs'[p], returned'[p])
    BY <1>2, <1>3 DEF Harbor, Goto, Settled, IsOpen, TypeOK, Trying, Logging
  <2>2. QED
    BY <1>1, <1>3, <2>1 DEF Harbor, Goto, TypeOK
<1>4. ASSUME NEW p \in Tests, Counts(p) PROVE AllSettled'
  <2>1. PICK ds \in SUBSET Dirs : Count(p, ds)
    BY <1>4 DEF Counts
  <2>2. PICK new \in Seq(Trial) :
            new # << >> /\ trials' = [trials EXCEPT ![p] = @ \o new]
    BY <1>4, <2>1, CountAdds DEF Counts
  <2>3. UNCHANGED <<runs, returned>> /\ at[p] \in Trying
    BY <1>4 DEF Counts
  <2>4. \/ at' = [at EXCEPT ![p] = "harbor"]
        \/ at' = [at EXCEPT ![p] = "findExperiment"]
        \/ at' = [at EXCEPT ![p] = "verdict"]
    BY <2>1 DEF Count, Goto
  <2>5. Len(trials'[p]) \in Nat /\ Len(trials'[p]) > 0
    <3>1. trials'[p] = trials[p] \o new /\ trials[p] \in Seq(Trial)
      BY <2>2 DEF TypeOK
    <3>2. QED
      BY <2>2, <3>1, ConcatProperties
  <2>6. Len(runs[p]) = 0 /\ returned[p] = "none"
    BY <1>2, <2>3 DEF Settled, Trying
  <2>7. at'[p] \in {"harbor", "findExperiment", "verdict"}
    BY <2>4 DEF TypeOK
  <2>8. Settled(at'[p], trials'[p], runs'[p], returned'[p])
    BY <2>3, <2>5, <2>6, <2>7 DEF Settled, Trying
  <2>9. QED
    BY <1>1, <2>2, <2>3, <2>4, <2>8 DEF TypeOK
<1>5. ASSUME NEW p \in Tests, AfterHarbor(p) PROVE AllSettled'
  <2>1. /\ \A q \in Tests \ {p} :
               /\ at'[q] = at[q] /\ trials'[q] = trials[q]
               /\ runs'[q] = runs[q] /\ returned'[q] = returned[q]
        /\ trials' = trials
    BY <1>5 DEF AfterHarbor, Start, FindExperiment, CreateExperiment, CreateRun,
                CloseRun, Verdict, TestDies, Goto, TypeOK
  <2>2. CASE CreateRun(p)
    <3>1. /\ at[p] = "createRun" /\ at'[p] = "closeRun" /\ returned' = returned
          /\ runs'[p] = Append(runs[p], "RUNNING")
      BY <2>2 DEF CreateRun, Goto, TypeOK
    <3>2. QED
      BY <1>1, <1>2, <2>1, <3>1, SettledCreateRun
  <2>3. CASE CloseRun(p)
    <3>1. /\ at[p] = "closeRun" /\ returned' = returned
          /\ at'[p] = IF Len(runs[p]) < Len(trials[p]) THEN "createRun" ELSE "verdict"
          /\ runs'[p] = [runs[p] EXCEPT ![Len(runs[p])] = Closed(Logged(p).result)]
      BY <2>3 DEF CloseRun, Goto, TypeOK
    <3>2. QED
      BY <1>1, <1>2, <2>1, <3>1, SettledCloseRun
  <2>4. CASE TestDies(p)
    <3>1. at'[p] = "over" /\ returned' = returned
      BY <2>4 DEF TestDies, Goto, TypeOK
    <3>2. CASE at[p] = "createRun" /\ runs' = [runs EXCEPT ![p] = Append(@, "RUNNING")]
      <4>1. runs'[p] = Append(runs[p], "RUNNING")
        BY <3>2 DEF TypeOK
      <4>2. QED
        BY <1>1, <1>2, <2>1, <3>1, <3>2, <4>1, SettledCreateRun
    <3>3. CASE /\ at[p] = "closeRun"
               /\ runs' = [runs EXCEPT ![p][Len(runs[p])] = Closed(Logged(p).result)]
      <4>1. runs'[p] = [runs[p] EXCEPT ![Len(runs[p])] = Closed(Logged(p).result)]
        BY <3>3 DEF TypeOK
      <4>2. QED
        BY <1>1, <1>2, <2>1, <3>1, <3>3, <4>1, SettledCloseRun
    <3>4. CASE UNCHANGED runs
      BY <1>1, <1>2, <2>1, <2>4, <3>4, SettledOtherPlace
    <3>5. QED
      BY <2>4, <3>2, <3>3, <3>4 DEF TestDies
  <2>5. QED
    BY <1>1, <1>2, <1>5, <2>1, <2>2, <2>3, <2>4, SettledOtherPlace DEF AfterHarbor
<1>6. CASE UNCHANGED vars
  BY <1>6 DEF vars, AllSettled, Settled, IsOpen, Closed, Status, Valid
<1>7. QED
  BY StepCases, <1>3, <1>4, <1>5, <1>6

(***************************************************************************)
(* A run of a trial stays open only when its command died over it, however *)
(* many commands log at the same time.                                     *)
(***************************************************************************)
THEOREM OpenRunsAreOfTheDead == Spec => []OpenRunsHaveDied
<1>1. Init => AllSettled
  BY DEF Init, AllSettled, Settled, Trying
<1>2. TypeOK /\ AllSettled => OpenRunsHaveDied
  <2> SUFFICES ASSUME TypeOK, AllSettled, NEW p \in Tests
               PROVE  /\ returned[p] # "none" => Len(runs[p]) \in {0, Len(trials[p])}
                      /\ \A k \in DOMAIN runs[p] :
                             \/ runs[p][k] = Closed(trials[p][k].result)
                             \/ /\ runs[p][k] = "RUNNING" /\ k = Len(runs[p])
                                /\ returned[p] = "none"
    BY DEF OpenRunsHaveDied
  <2>1. DOMAIN runs[p] = 1 .. Len(runs[p])
    BY DEF TypeOK
  <2>2. Settled(at[p], trials[p], runs[p], returned[p])
    BY DEF AllSettled
  <2>3. QED
    BY <2>1, <2>2 DEF Settled, IsOpen
<1>3. QED
  BY TypeCorrect, SettledStep, <1>1, <1>2, PTL DEF Spec

=============================================================================
