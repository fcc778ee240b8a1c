-------------------------- MODULE BatchRunsProofs --------------------------
(***************************************************************************)
(* Theorems about BatchRuns for every set of batches, of any length, and   *)
(* every finite set of other runs on the server: what is left open, what   *)
(* may be FINISHED, and who may touch which run.                           *)
(***************************************************************************)
EXTENDS BatchRuns, FiniteSetTheorems, TLAPS

(***************************************************************************)
(* The strengthening.                                                      *)
(***************************************************************************)
\* Runs the batch has not come to do not exist yet.
NothingAhead(b) ==
    \A i \in Tasks(b) :
        i > task[b] \/ (i = task[b] /\ at[b] = "create") => status[<<b, i>>] = "none"

\* More runs than the search of the sweep lists.
Overfull(b) == Cardinality(Tagged(b)) > SweepLimit

\* A sweep that got through holds every run that is still open.
SweepIsThorough(b) ==
    b \notin missed /\ ~ Overfull(b) =>
        /\ at[b] = "closing" => \A i \in Tasks(b) : Open(<<b, i>>) => <<b, i>> \in found[b]
        /\ at[b] = "exited" => \A i \in Tasks(b) : ~ Open(<<b, i>>)

\* A sweep is about runs of its own batch.
SweepFindsOwn(b) ==
    \A r \in found[b] : r \in BatchRun /\ r[1] = b /\ status[r] # "none"

\* A batch closes a run as FINISHED with everything logged.
ClosedWhenLogged(b) == at[b] = "close" => logged[b]

BatchInv(b) ==
    /\ NothingAhead(b)
    /\ SweepIsThorough(b)
    /\ SweepFindsOwn(b)
    /\ ClosedWhenLogged(b)

\* What is due and still open is about to be found or closed.
ReconcileInv ==
    /\ \A r \in recFound : r \in BatchRun /\ status[r] # "none"
    /\ \A r \in due :
          /\ r \in BatchRun /\ status[r] # "none"
          /\ Open(r) => r \in recFound \/ r[2] \in recTodo \/ Crowded(r[2])

IInv ==
    /\ TypeOK
    /\ \A b \in Batches : BatchInv(b)
    /\ ReconcileInv

(***************************************************************************)
(* Task i of batch b is run <<b, i>>, and nothing else is.                 *)
(***************************************************************************)
LEMMA RunIsPair ==
    /\ \A b \in Batches : \A i \in Tasks(b) : <<b, i>> \in BatchRun /\ <<b, i>> \in Runs
    /\ \A r \in BatchRun : \E b \in Batches : \E i \in Tasks(b) : r = <<b, i>>
    /\ \A r \in BatchRun : r[1] \in Batches /\ r[2] \in Experiments /\ r \in Runs
BY DEF BatchRun, Runs, Experiments, AllTasks

LEMMA CurrentIsRun ==
    ASSUME TypeOK, NEW b \in Batches
    PROVE  Current(b) \in BatchRun /\ Current(b) \in Runs /\ Current(b)[1] = b
BY RunIsPair DEF TypeOK, Current

LEMMA InitInductive == Init => IInv
<1> SUFFICES ASSUME Init PROVE IInv
  OBVIOUS
<1>1. TypeOK
  BY BatchRunsAssumption DEF Init, TypeOK, Tasks
<1>2. ASSUME NEW b \in Batches PROVE BatchInv(b)
  BY RunIsPair DEF Init, BatchInv, NothingAhead, SweepIsThorough, SweepFindsOwn,
     ClosedWhenLogged
<1>3. ReconcileInv
  BY DEF Init, ReconcileInv
<1>4. QED
  BY <1>1, <1>2, <1>3 DEF IInv

(***************************************************************************)
(* What a batch may do to the server: nothing, create its current run,     *)
(* mark it or an orphan of its own FAILED, or mark it FINISHED when it     *)
(* closes a task that went well.                                           *)
(***************************************************************************)
Acts(b) == Step(b) \/ InterruptSweep(b) \/ Kill(b)

Creates(b) ==
    /\ at[b] = "create" /\ at'[b] \in {"param", "sweep"}
    /\ task' = task
    /\ Sets(Current(b), "RUNNING")

GivesUp(b) == \E r \in found[b] \cup {Current(b)} : Sets(r, "FAILED")

Completes(b) ==
    /\ at[b] = "close" /\ outcome[b] = "ok"
    /\ Sets(Current(b), "FINISHED")

LEMMA ServerEffects ==
    ASSUME TypeOK, NEW b \in Batches, Acts(b)
    PROVE  UNCHANGED status \/ Creates(b) \/ GivesUp(b) \/ Completes(b)
<1> USE DEF TypeOK, Goto, MaySet, Creates, GivesUp, Completes
<1>1. CASE CreateRun(b)
  BY <1>1 DEF CreateRun
<1>2. CASE LogParam(b) \/ RunTask(b) \/ SetTags(b) \/ LogResult(b) \/ SearchOrphans(b)
           \/ Exit(b) \/ InterruptSweep(b) \/ Kill(b)
  BY <1>2 DEF LogParam, RunTask, SetTags, LogResult, SearchOrphans, Exit,
     InterruptSweep, Kill
<1>3. CASE Abandon(b) \/ CloseFailed(b)
  BY <1>3 DEF Abandon, CloseFailed
<1>4. CASE CloseRun(b)
  BY <1>4 DEF CloseRun
<1>5. CASE CloseOrphan(b)
  BY <1>5 DEF CloseOrphan
<1>6. QED
  BY <1>1, <1>2, <1>3, <1>4, <1>5 DEF Acts, Step

(***************************************************************************)
(* A step of batch b changes what the process of b knows, and no other.    *)
(***************************************************************************)
Untouched(c) ==
    /\ at'[c] = at[c]
    /\ task'[c] = task[c]
    /\ logged'[c] = logged[c]
    /\ found'[c] = found[c]
    /\ c \in missed' <=> c \in missed

LEMMA OthersKnowNothing ==
    ASSUME TypeOK, NEW b \in Batches, Acts(b), NEW c \in Batches \ {b}
    PROVE  Untouched(c)
<1> USE DEF TypeOK, Goto, Untouched, resultVars, sweepVars
<1>1. CASE CreateRun(b) \/ LogParam(b) \/ RunTask(b) \/ Abandon(b)
  BY <1>1 DEF CreateRun, LogParam, RunTask, Abandon
<1>2. CASE SetTags(b) \/ LogResult(b)
  BY <1>2 DEF SetTags, LogResult, Forget
<1>3. CASE CloseRun(b)
  BY <1>3 DEF CloseRun, NextTask, Forget
<1>4. CASE CloseFailed(b)
  BY <1>4 DEF CloseFailed, Forget
<1>5. CASE SearchOrphans(b) \/ CloseOrphan(b) \/ Exit(b) \/ InterruptSweep(b)
  BY <1>5 DEF SearchOrphans, CloseOrphan, Exit, InterruptSweep
<1>6. CASE Kill(b)
  BY <1>6 DEF Kill, Forget
<1>7. QED
  BY <1>1, <1>2, <1>3, <1>4, <1>5, <1>6 DEF Acts, Step

LEMMA BatchLeavesReconcile ==
    ASSUME NEW b \in Batches, Acts(b)
    PROVE  UNCHANGED reconcileVars
BY DEF Acts, Step, CreateRun, LogParam, RunTask, Abandon, SetTags, LogResult, CloseRun,
       CloseFailed, SearchOrphans, CloseOrphan, Exit, InterruptSweep, Kill, reconcileVars

ReconcileActs == StartReconcile \/ SearchExperiment \/ CloseStuck \/ StopReconcile

(***************************************************************************)
(* A reconciliation marks what it found FAILED; batches do not see it.     *)
(***************************************************************************)
LEMMA ReconcileEffects ==
    ASSUME ReconcileActs
    PROVE  /\ UNCHANGED status \/ \E r \in recFound : Sets(r, "FAILED")
           /\ UNCHANGED <<at, task, resultVars, sweepVars>>
BY DEF ReconcileActs, StartReconcile, SearchExperiment, CloseStuck, StopReconcile

(***************************************************************************)
(* A page is of runs that match, all of them unless there are more than a  *)
(* search lists; it tells which of them are open.                          *)
(***************************************************************************)
LEMMA PageIsPart ==
    ASSUME NEW runs, NEW limit, NEW page \in Pages(runs, limit)
    PROVE  page \subseteq runs
BY DEF Pages

LEMMA PageIsWhole ==
    ASSUME NEW runs \in SUBSET Runs, NEW limit \in Nat, NEW page \in Pages(runs, limit),
           ~ Cardinality(runs) > limit
    PROVE  page = runs
<1>1. IsFiniteSet(runs) /\ Cardinality(runs) \in Nat
  BY OtherRunsAssumption, FS_Subset, FS_CardinalityType
<1>2. page \in SUBSET runs /\ (page # runs => Cardinality(page) = limit)
  BY DEF Pages
<1>3. Cardinality(page) <= Cardinality(runs) /\ Cardinality(page) \in Nat
      /\ (Cardinality(runs) = Cardinality(page) => runs = page)
  BY <1>1, <1>2, FS_Subset, FS_CardinalityType
<1>4. QED
  BY <1>1, <1>2, <1>3

LEMMA Searched ==
    /\ \A b \in Batches : Tagged(b) \in SUBSET Runs
    /\ \A e : Held(e) \in SUBSET Runs
    /\ SweepLimit \in Nat /\ ReconcileLimit \in Nat
BY BatchRunsAssumption DEF Tagged, Held, Runs

LEMMA NextCases ==
    ASSUME [Next]_vars
    PROVE  (\E b \in Batches : Acts(b)) \/ ReconcileActs \/ UNCHANGED vars
BY DEF Next, Acts, ReconcileActs

(***************************************************************************)
(* Type correctness.                                                       *)
(***************************************************************************)
LEMMA TypeStep == TypeOK /\ [Next]_vars => TypeOK'
<1> SUFFICES ASSUME TypeOK, [Next]_vars PROVE TypeOK'
  OBVIOUS
<1>1. status' \in [Runs -> {"none", "RUNNING", "FINISHED", "FAILED"}]
  <2>1. ASSUME NEW b \in Batches, Acts(b)
        PROVE  status' \in [Runs -> {"none", "RUNNING", "FINISHED", "FAILED"}]
    BY <2>1, ServerEffects DEF TypeOK, Creates, GivesUp, Completes, Sets
  <2>2. CASE ReconcileActs
    BY <2>2, ReconcileEffects DEF TypeOK, Sets
  <2>3. QED
    BY <2>1, <2>2, NextCases DEF vars, TypeOK
<1>2. ASSUME NEW b \in Batches, Acts(b)
      PROVE  TypeOK'
  <2> USE DEF TypeOK, Goto, resultVars, sweepVars, reconcileVars
  <2>1. CASE CreateRun(b) \/ LogParam(b) \/ RunTask(b) \/ Abandon(b)
    BY <1>1, <2>1 DEF CreateRun, LogParam, RunTask, Abandon
  <2>2. CASE SetTags(b) \/ LogResult(b) \/ CloseFailed(b)
    BY <1>1, <2>2 DEF SetTags, LogResult, CloseFailed, Forget
  <2>3. CASE CloseRun(b)
    <3>1. CASE NextTask(b) /\ UNCHANGED <<sweepVars, reconcileVars>>
      <4>1. NTasks[b] \in Nat /\ task[b] \in Nat
        BY BatchRunsAssumption
      <4>2. task[b] < NTasks[b] => task[b] + 1 \in Tasks(b)
        BY <4>1 DEF Tasks
      <4>3. task' \in [Batches -> Nat] /\ \A c \in Batches : task'[c] \in Tasks(c)
        BY <3>1, <4>1, <4>2 DEF NextTask
      <4>4. QED
        BY <1>1, <3>1, <4>3 DEF NextTask, Forget
    <3>2. CASE Goto(b, "closeFailed") /\ UNCHANGED <<task, resultVars, sweepVars, reconcileVars>>
      BY <1>1, <3>2
    <3>3. QED
      BY <2>3, <3>1, <3>2 DEF CloseRun
  <2>4. CASE SearchOrphans(b)
    <3>1. ASSUME NEW page \in Pages(Tagged(b), SweepLimit) PROVE OpenOf(page) \subseteq BatchRun
      BY PageIsPart DEF OpenOf, Tagged
    <3>2. QED
      BY <1>1, <2>4, <3>1 DEF SearchOrphans
  <2>5. CASE CloseOrphan(b) \/ Exit(b) \/ InterruptSweep(b)
    BY <1>1, <2>5 DEF CloseOrphan, Exit, InterruptSweep
  <2>6. CASE Kill(b)
    BY <1>1, <2>6 DEF Kill, Forget
  <2>7. QED
    BY <1>2, <2>1, <2>2, <2>3, <2>4, <2>5, <2>6 DEF Acts, Step
<1>3. CASE ReconcileActs
  <2>1. recTodo' \subseteq Experiments /\ due' \subseteq BatchRun
    BY <1>3 DEF TypeOK, ReconcileActs, StartReconcile, SearchExperiment, CloseStuck,
       StopReconcile
  <2>2. recFound' \subseteq Runs
    BY <1>3 DEF TypeOK, ReconcileActs, StartReconcile, SearchExperiment, CloseStuck,
       StopReconcile, Stuck, OpenOf, Runs
  <2>3. QED
    BY <1>1, <1>3, <2>1, <2>2, ReconcileEffects DEF TypeOK, resultVars, sweepVars
<1>4. CASE UNCHANGED vars
  BY <1>4 DEF TypeOK, vars, resultVars, sweepVars, reconcileVars
<1>5. QED
  BY <1>2, <1>3, <1>4, NextCases

(***************************************************************************)
(* Runs that exist go on existing, and nobody else's step opens one.       *)
(***************************************************************************)
LEMMA NeverForgotten ==
    ASSUME TypeOK, [Next]_vars, NEW r \in Runs, status[r] # "none"
    PROVE  status'[r] # "none"
<1>1. ASSUME NEW b \in Batches, Acts(b) PROVE status'[r] # "none"
  BY <1>1, ServerEffects DEF TypeOK, Creates, GivesUp, Completes, Sets
<1>2. CASE ReconcileActs
  BY <1>2, ReconcileEffects DEF TypeOK, Sets
<1>3. QED
  BY <1>1, <1>2, NextCases DEF vars

LEMMA OnlyCreatesOpens ==
    ASSUME TypeOK, [Next]_vars, NEW r \in Runs, ~ Open(r), Open(r)'
    PROVE  \E b \in Batches : Acts(b) /\ Creates(b) /\ r = Current(b)
<1>1. ASSUME NEW b \in Batches, Acts(b)
      PROVE  Creates(b) /\ r = Current(b)
  BY <1>1, ServerEffects DEF TypeOK, Creates, GivesUp, Completes, Sets, Open
<1>2. ~ ReconcileActs
  BY ReconcileEffects DEF TypeOK, Sets, Open
<1>3. QED
  BY <1>1, <1>2, NextCases DEF vars, Open

\* Only a run its batch is ahead of may come into being.
LEMMA OnlyCreatesCreates ==
    ASSUME TypeOK, \A c \in Batches : SweepFindsOwn(c),
           \A r \in recFound : r \in BatchRun /\ status[r] # "none",
           [Next]_vars, NEW r \in Runs, status[r] = "none", status'[r] # "none"
    PROVE  \E b \in Batches : Acts(b) /\ r = Current(b)
<1>1. ASSUME NEW b \in Batches, Acts(b) PROVE r = Current(b)
  BY <1>1, ServerEffects DEF TypeOK, Creates, GivesUp, Completes, Sets, SweepFindsOwn
<1>2. ~ ReconcileActs
  BY ReconcileEffects DEF TypeOK, Sets
<1>3. QED
  BY <1>1, <1>2, NextCases DEF vars

LEMMA Advance ==
    ASSUME TypeOK, NEW b \in Batches, Acts(b)
    PROVE  \/ task'[b] = task[b] /\ at'[b] # "create"
           \/ task'[b] = task[b] + 1
<1> USE DEF TypeOK, Goto
<1>1. CASE CreateRun(b) \/ LogParam(b) \/ RunTask(b) \/ Abandon(b)
  BY <1>1 DEF CreateRun, LogParam, RunTask, Abandon
<1>2. CASE SetTags(b) \/ LogResult(b) \/ CloseFailed(b) \/ Kill(b)
  BY <1>2 DEF SetTags, LogResult, CloseFailed, Kill
<1>3. CASE CloseRun(b)
  BY <1>3 DEF CloseRun, NextTask
<1>4. CASE SearchOrphans(b) \/ CloseOrphan(b) \/ Exit(b) \/ InterruptSweep(b)
  BY <1>4 DEF SearchOrphans, CloseOrphan, Exit, InterruptSweep
<1>5. QED
  BY <1>1, <1>2, <1>3, <1>4 DEF Acts, Step

LEMMA AheadStep ==
    IInv /\ [Next]_vars => \A b \in Batches : NothingAhead(b)'
<1> SUFFICES ASSUME IInv, [Next]_vars, NEW b \in Batches, NEW i \in Tasks(b),
                    i > task'[b] \/ (i = task'[b] /\ at'[b] = "create")
             PROVE  status'[<<b, i>>] = "none"
  BY DEF NothingAhead
<1>1. TypeOK /\ NothingAhead(b) /\ task[b] \in Nat /\ i \in Nat
  BY DEF IInv, BatchInv, TypeOK, Tasks
<1>2. \/ i > task[b]
      \/ i = task[b] /\ at[b] = "create" /\ ~ Acts(b)
  <2>1. CASE Acts(b)
    BY <1>1, <2>1, Advance
  <2>2. CASE ~ Acts(b)
    <3>1. at'[b] = at[b] /\ task'[b] = task[b]
      <4>1. ASSUME NEW c \in Batches, Acts(c) PROVE Untouched(b)
        BY <1>1, <2>2, <4>1, OthersKnowNothing
      <4>2. CASE ReconcileActs
        BY <4>2, ReconcileEffects
      <4>3. QED
        BY <4>1, <4>2, NextCases DEF Untouched, vars
    <3>2. QED
      BY <2>2, <3>1
  <2>3. QED
    BY <2>1, <2>2
<1>3. status[<<b, i>>] = "none" /\ <<b, i>> \in Runs
  BY <1>1, <1>2, RunIsPair DEF NothingAhead
<1>4. ASSUME NEW c \in Batches, Acts(c) PROVE <<b, i>> # Current(c)
  <2>1. CASE c = b
    BY <1>1, <1>2, <1>4, <2>1 DEF Current
  <2>2. CASE c # b
    BY <2>2 DEF Current
  <2>3. QED
    BY <2>1, <2>2
<1>5. QED
  BY <1>3, <1>4, OnlyCreatesCreates DEF IInv, BatchInv, ReconcileInv

(***************************************************************************)
(* What a sweep holds: the batch's own open runs, all of them.             *)
(***************************************************************************)
LEMMA FindsOwnStep ==
    IInv /\ [Next]_vars => \A b \in Batches : SweepFindsOwn(b)'
<1> SUFFICES ASSUME IInv, [Next]_vars, NEW b \in Batches, NEW r \in found'[b]
             PROVE  r \in BatchRun /\ r[1] = b /\ status'[r] # "none"
  BY DEF SweepFindsOwn
<1>1. TypeOK /\ SweepFindsOwn(b)
  BY DEF IInv, BatchInv
<1>2. r \in found[b] \/ r \in OpenOf(Tagged(b))
  <2>1. CASE SearchOrphans(b)
    BY <1>1, <2>1, PageIsPart DEF SearchOrphans, OpenOf, TypeOK
  <2>4. CASE Acts(b) /\ ~ SearchOrphans(b)
    BY <1>1, <2>4 DEF Acts, Step, CreateRun, LogParam, RunTask, Abandon, SetTags,
       LogResult, CloseRun, CloseFailed, CloseOrphan, Exit, InterruptSweep, Kill,
       sweepVars, TypeOK
  <2>2. ASSUME NEW c \in Batches \ {b}, Acts(c) PROVE found'[b] = found[b]
    BY <1>1, <2>2, OthersKnowNothing DEF Untouched
  <2>3. QED
    BY <2>1, <2>2, <2>4, NextCases, ReconcileEffects DEF vars, sweepVars
<1>3. r \in BatchRun /\ r[1] = b /\ status[r] # "none"
  BY <1>1, <1>2 DEF SweepFindsOwn, OpenOf, Tagged, Exists
<1>4. QED
  BY <1>1, <1>3, RunIsPair, NeverForgotten

LEMMA LoggedStep ==
    IInv /\ [Next]_vars => \A b \in Batches : ClosedWhenLogged(b)'
<1> SUFFICES ASSUME IInv, [Next]_vars, NEW b \in Batches PROVE ClosedWhenLogged(b)'
  OBVIOUS
<1>1. TypeOK /\ ClosedWhenLogged(b)
  BY DEF IInv, BatchInv
<1> USE DEF ClosedWhenLogged
<1>2. CASE Acts(b)
  <2> USE <1>1 DEF Goto, TypeOK, resultVars
  <2>1. CASE CreateRun(b) \/ LogParam(b) \/ RunTask(b) \/ Abandon(b)
    BY <2>1 DEF CreateRun, LogParam, RunTask, Abandon
  <2>2. CASE SetTags(b) \/ LogResult(b) \/ CloseFailed(b) \/ Kill(b)
    BY <2>2 DEF SetTags, LogResult, CloseFailed, Kill
  <2>3. CASE CloseRun(b)
    BY <2>3 DEF CloseRun, NextTask
  <2>4. CASE SearchOrphans(b) \/ CloseOrphan(b) \/ Exit(b) \/ InterruptSweep(b)
    BY <2>4 DEF SearchOrphans, CloseOrphan, Exit, InterruptSweep
  <2>5. QED
    BY <1>2, <2>1, <2>2, <2>3, <2>4 DEF Acts, Step
<1>3. ASSUME NEW c \in Batches \ {b}, Acts(c) PROVE ClosedWhenLogged(b)'
  BY <1>1, <1>3, OthersKnowNothing DEF Untouched
<1>4. QED
  BY <1>1, <1>2, <1>3, NextCases, ReconcileEffects DEF vars, resultVars

LEMMA EndOfBatch ==
    ASSUME TypeOK, NEW b \in Batches, Acts(b), b \notin missed', ~ Overfull(b)
    PROVE  /\ b \notin missed
           /\ at'[b] = "closing" =>
                 \/ found'[b] = OpenOf(Tagged(b)) /\ UNCHANGED status
                 \/ /\ at[b] = "closing"
                    /\ \E r \in found[b] :
                          Sets(r, "FAILED") /\ found'[b] = found[b] \ {r}
           /\ at'[b] = "exited" => at[b] = "closing" /\ found[b] = {} /\ UNCHANGED status
<1> USE DEF TypeOK, Goto, sweepVars
<1>1. CASE CreateRun(b) \/ LogParam(b) \/ RunTask(b) \/ Abandon(b)
  BY <1>1 DEF CreateRun, LogParam, RunTask, Abandon
<1>2. CASE SetTags(b) \/ LogResult(b) \/ CloseFailed(b) \/ Kill(b)
  BY <1>2 DEF SetTags, LogResult, CloseFailed, Kill
<1>3. CASE CloseRun(b)
  BY <1>3 DEF CloseRun, NextTask
<1>4. CASE SearchOrphans(b)
  <2>1. \A page \in Pages(Tagged(b), SweepLimit) : page = Tagged(b)
    BY Searched, PageIsWhole DEF Overfull
  <2>2. QED
    BY <1>4, <2>1 DEF SearchOrphans
<1>5. CASE CloseOrphan(b)
  BY <1>5 DEF CloseOrphan
<1>6. CASE Exit(b) \/ InterruptSweep(b)
  BY <1>6 DEF Exit, InterruptSweep
<1>7. QED
  BY <1>1, <1>2, <1>3, <1>4, <1>5, <1>6 DEF Acts, Step

(***************************************************************************)
(* The server forgets no run, so what exceeds a search goes on to.         *)
(***************************************************************************)
LEMMA MoreAndMore ==
    ASSUME TypeOK, [Next]_vars
    PROVE  /\ \A b \in Batches : Overfull(b) => Overfull(b)'
           /\ \A e : Crowded(e) => Crowded(e)'
<1>1. ASSUME NEW b \in Batches PROVE Tagged(b) \subseteq Tagged(b)' /\ Tagged(b)' \subseteq Runs
  BY NeverForgotten DEF Tagged, Exists, Runs
<1>2. ASSUME NEW e PROVE Held(e) \subseteq Held(e)' /\ Held(e)' \subseteq Runs
  BY NeverForgotten DEF Held, Exists, InExperiment
<1>3. ASSUME NEW S, NEW T, S \subseteq T, T \subseteq Runs, NEW limit \in Nat,
             Cardinality(S) > limit
      PROVE  Cardinality(T) > limit
  <2>1. IsFiniteSet(T)
    BY <1>3, OtherRunsAssumption, FS_Subset
  <2>2. IsFiniteSet(S) /\ Cardinality(S) <= Cardinality(T)
    BY <1>3, <2>1, FS_Subset
  <2>3. QED
    BY <1>3, <2>1, <2>2, FS_CardinalityType
<1>4. QED
  BY <1>1, <1>2, <1>3, Searched DEF Overfull, Crowded

LEMMA ThoroughStep ==
    IInv /\ [Next]_vars => \A b \in Batches : SweepIsThorough(b)'
<1> SUFFICES ASSUME IInv, [Next]_vars, NEW b \in Batches, b \notin missed',
                    ~ Overfull(b)'
             PROVE  /\ at'[b] = "closing" =>
                          \A i \in Tasks(b) : Open(<<b, i>>)' => <<b, i>> \in found'[b]
                    /\ at'[b] = "exited" => \A i \in Tasks(b) : ~ Open(<<b, i>>)'
  BY DEF SweepIsThorough
<1>1. TypeOK /\ SweepIsThorough(b)
  BY DEF IInv, BatchInv
<1>5. ~ Overfull(b)
  BY <1>1, MoreAndMore
<1>2. CASE Acts(b)
  <2>1. ASSUME at'[b] = "closing", NEW i \in Tasks(b), Open(<<b, i>>)'
        PROVE  <<b, i>> \in found'[b]
    <3>1. CASE found'[b] = OpenOf(Tagged(b)) /\ UNCHANGED status
      BY <2>1, <3>1, RunIsPair DEF OpenOf, Tagged, Exists, Open
    <3>2. ASSUME at[b] = "closing", NEW r \in found[b], Sets(r, "FAILED"),
                 found'[b] = found[b] \ {r}
          PROVE  <<b, i>> \in found'[b]
      BY <1>1, <1>2, <1>5, <2>1, <3>2, RunIsPair, EndOfBatch
         DEF Sets, Open, SweepIsThorough, TypeOK
    <3>3. QED
      BY <1>1, <1>2, <1>5, <2>1, <3>1, <3>2, EndOfBatch
  <2>2. ASSUME at'[b] = "exited", NEW i \in Tasks(b) PROVE ~ Open(<<b, i>>)'
    BY <1>1, <1>2, <1>5, <2>2, EndOfBatch DEF SweepIsThorough, Open
  <2>3. QED
    BY <2>1, <2>2
<1>3. CASE ~ Acts(b)
  <2>1. ASSUME NEW c \in Batches, Acts(c) PROVE c # b /\ Untouched(b)
    BY <1>1, <1>3, <2>1, OthersKnowNothing
  <2>2. at'[b] = at[b] /\ found'[b] = found[b] /\ b \notin missed
    <3>1. CASE ReconcileActs
      BY <3>1, ReconcileEffects DEF sweepVars
    <3>2. QED
      BY <2>1, <3>1, NextCases DEF vars, sweepVars, Untouched
  <2>3. ASSUME NEW i \in Tasks(b), Open(<<b, i>>)' PROVE Open(<<b, i>>)
    <3>1. \A c \in Batches \ {b} : <<b, i>> # Current(c)
      BY DEF Current
    <3>2. QED
      BY <1>1, <2>1, <2>3, <3>1, RunIsPair, OnlyCreatesOpens
  <2>4. QED
    BY <1>1, <1>5, <2>2, <2>3 DEF SweepIsThorough
<1>4. QED
  BY <1>2, <1>3

(***************************************************************************)
(* The reconciliation.                                                     *)
(***************************************************************************)
LEMMA ReconcileStep == IInv /\ [Next]_vars => ReconcileInv'
<1> SUFFICES ASSUME IInv, [Next]_vars PROVE ReconcileInv'
  OBVIOUS
<1>1. TypeOK /\ ReconcileInv
  BY DEF IInv
<1>2. ASSUME NEW r \in BatchRun, status[r] # "none" PROVE status'[r] # "none"
  BY <1>1, <1>2, RunIsPair, NeverForgotten
<1>3. ASSUME NEW r \in BatchRun, status[r] # "none", Open(r)' PROVE Open(r)
  <2>1. SUFFICES ASSUME ~ Open(r) PROVE FALSE
    OBVIOUS
  <2>2. PICK b \in Batches : Creates(b) /\ r = Current(b)
    BY <1>1, <1>3, <2>1, RunIsPair, OnlyCreatesOpens
  <2>3. NothingAhead(b) /\ task[b] \in Tasks(b)
    BY DEF IInv, BatchInv, TypeOK
  <2>4. QED
    BY <1>3, <2>2, <2>3 DEF Creates, NothingAhead, Current
<1>9. \A e : Crowded(e) => Crowded(e)'
  BY <1>1, MoreAndMore
<1>4. CASE UNCHANGED reconcileVars
  BY <1>1, <1>2, <1>3, <1>4, <1>9 DEF ReconcileInv, reconcileVars
<1>5. CASE StartReconcile
  BY <1>1, <1>2, <1>3, <1>5, RunIsPair DEF StartReconcile, ReconcileInv, Open
<1>6. CASE SearchExperiment
  <2>1. PICK e \in recTodo :
           /\ recTodo' = recTodo \ {e}
           /\ \/ /\ \E page \in Pages(Held(e), ReconcileLimit) : recFound' = Stuck(page)
                 /\ UNCHANGED due
              \/ due' = due \ Stuck(Held(e)) /\ UNCHANGED recFound
    BY <1>6 DEF SearchExperiment
  <2>2. recFound = {} /\ UNCHANGED status
    BY <1>6 DEF SearchExperiment
  <2>3. \A r \in BatchRun : Open(r) /\ r[2] = e => r \in Stuck(Held(e))
    BY RunIsPair DEF Stuck, Held, OpenOf, InExperiment, Open, Exists
  <2>4. CASE due' = due \ Stuck(Held(e)) /\ UNCHANGED recFound
    BY <1>1, <1>9, <2>1, <2>2, <2>3, <2>4 DEF ReconcileInv, Open
  <2>5. ASSUME NEW page \in Pages(Held(e), ReconcileLimit), recFound' = Stuck(page),
               UNCHANGED due
        PROVE  ReconcileInv'
    <3>1. \A r \in Stuck(page) : r \in BatchRun /\ status[r] # "none"
      BY DEF Stuck, OpenOf, Open
    <3>2. Crowded(e) \/ page = Held(e)
      BY Searched, PageIsWhole DEF Crowded
    <3>3. QED
      BY <1>1, <1>9, <2>1, <2>2, <2>3, <2>5, <3>1, <3>2 DEF ReconcileInv, Open
  <2>6. QED
    BY <2>1, <2>4, <2>5
<1>7. CASE CloseStuck
  BY <1>1, <1>2, <1>3, <1>7, <1>9 DEF CloseStuck, ReconcileInv, Sets, TypeOK, Open, Runs
<1>10. CASE StopReconcile
  BY <1>10 DEF StopReconcile, ReconcileInv
<1>8. QED
  BY <1>4, <1>5, <1>6, <1>7, <1>10, NextCases, BatchLeavesReconcile DEF ReconcileActs, vars

LEMMA Inductive == IInv /\ [Next]_vars => IInv'
<1>1. IInv /\ [Next]_vars => TypeOK'
  BY TypeStep DEF IInv
<1>2. QED
  BY <1>1, AheadStep, ThoroughStep, FindsOwnStep, LoggedStep, ReconcileStep
     DEF IInv, BatchInv

LEMMA Invariance == Spec => []IInv
<1>1. Init => IInv
  BY InitInductive
<1>2. IInv /\ [Next]_vars => IInv'
  BY Inductive
<1>3. QED
  BY <1>1, <1>2, PTL DEF Spec

(***************************************************************************)
(* Type correctness of batches.                                            *)
(***************************************************************************)
THEOREM TypeCorrect == Spec => []TypeOK
<1>1. IInv => TypeOK
  BY DEF IInv
<1>2. QED
  BY <1>1, Invariance, PTL

(***************************************************************************)
(* sweep_orphaned_batch_runs: a batch that ends by itself, whose sweep got *)
(* through and that has no more runs than its search lists leaves none of  *)
(* them open, whichever calls failed before.                               *)
(***************************************************************************)
THEOREM ExitedBatchesAreClosed == Spec => []ShutdownClosesRuns
<1>1. IInv => ShutdownClosesRuns
  <2> SUFFICES ASSUME IInv, NEW b \in Batches, at[b] = "exited", b \notin missed,
                      Cardinality(Tagged(b)) <= SweepLimit, NEW i \in Tasks(b)
               PROVE  ~ Open(<<b, i>>)
    BY DEF ShutdownClosesRuns
  <2>1. Cardinality(Tagged(b)) \in Nat
    BY Searched, OtherRunsAssumption, FS_Subset, FS_CardinalityType
  <2>2. ~ Overfull(b)
    BY <2>1, Searched DEF Overfull
  <2>3. QED
    BY <2>2 DEF IInv, BatchInv, SweepIsThorough
<1>2. QED
  BY <1>1, Invariance, PTL

(***************************************************************************)
(* reconcile_orphan_runs, if it ends by itself, closes every dev run that  *)
(* was open when it began and whose experiment holds no more runs than one *)
(* search lists, but for those a failing call was about.                   *)
(***************************************************************************)
THEOREM ReconcileClosesListed == Spec => []ReconcileIsThorough
<1>1. IInv => ReconcileIsThorough
  BY DEF IInv, ReconcileInv, ReconcileIsThorough, Reconciling
<1>2. QED
  BY <1>1, Invariance, PTL

(***************************************************************************)
(* log_task_to_mlflow marks a run FINISHED only with everything logged and *)
(* only for a task that did not fail; nothing else marks one FINISHED.     *)
(***************************************************************************)
THEOREM FinishedRunsAreComplete == Spec => FinishedIsComplete
<1> DEFINE Complete == \A r \in BatchRun :
          status[r] # "FINISHED" /\ status'[r] = "FINISHED" =>
              LET b == r[1] IN
              r = Current(b) /\ logged[b] /\ outcome[b] = "ok"
<1>1. IInv /\ [Next]_vars => [Complete]_vars
  <2> SUFFICES ASSUME IInv, [Next]_vars, NEW r \in BatchRun,
                      status[r] # "FINISHED", status'[r] = "FINISHED"
               PROVE  r = Current(r[1]) /\ logged[r[1]] /\ outcome[r[1]] = "ok"
    OBVIOUS
  <2>1. TypeOK /\ r \in Runs
    BY RunIsPair DEF IInv
  <2>2. PICK b \in Batches : Completes(b) /\ r = Current(b)
    <3>1. ~ ReconcileActs
      BY <2>1, ReconcileEffects DEF TypeOK, Sets
    <3>2. ASSUME NEW b \in Batches, Acts(b) PROVE Completes(b) /\ r = Current(b)
      BY <2>1, <3>2, ServerEffects DEF TypeOK, Creates, GivesUp, Completes, Sets
    <3>3. QED
      BY <3>1, <3>2, NextCases DEF vars
  <2>3. r[1] = b
    BY <2>2 DEF Current
  <2>4. QED
    BY <2>2, <2>3 DEF Completes, IInv, BatchInv, ClosedWhenLogged
<1>2. QED
  BY <1>1, Invariance, PTL DEF Spec, FinishedIsComplete

(***************************************************************************)
(* No step of a batch, its sweep included, changes a run of another, and   *)
(* no step at all one that no batch started.                               *)
(***************************************************************************)
THEOREM BatchesAreSeparate == Spec => BatchesStayApart
<1> DEFINE Apart == \A b \in Batches : at'[b] # at[b] \/ found'[b] # found[b] =>
          \A r \in BatchRun : r[1] # b => status'[r] = status[r]
<1> DEFINE Alone == \A r \in Manual \cup CiRuns : status'[r] = status[r]
<1>1. IInv /\ [Next]_vars => [Apart]_vars
  <2> SUFFICES ASSUME IInv, [Next]_vars, NEW b \in Batches,
                      at'[b] # at[b] \/ found'[b] # found[b],
                      NEW r \in BatchRun, r[1] # b
               PROVE  status'[r] = status[r]
    OBVIOUS
  <2>1. TypeOK /\ SweepFindsOwn(b) /\ r \in Runs
    BY RunIsPair DEF IInv, BatchInv
  <2>2. Acts(b)
    BY <2>1, OthersKnowNothing, ReconcileEffects, NextCases DEF Untouched, vars, sweepVars
  <2>3. r # Current(b) /\ r \notin found[b]
    BY <2>1, CurrentIsRun DEF SweepFindsOwn
  <2>4. QED
    BY <2>1, <2>2, <2>3, ServerEffects DEF TypeOK, Creates, GivesUp, Completes, Sets
<1>2. IInv /\ [Next]_vars => [Alone]_vars
  <2> SUFFICES ASSUME IInv, [Next]_vars, NEW r \in Manual \cup CiRuns
               PROVE  status'[r] = status[r]
    OBVIOUS
  <2>1. TypeOK /\ r \in Runs /\ r \notin BatchRun
    BY OtherRunsAssumption DEF IInv, Runs
  <2>2. ASSUME NEW b \in Batches, Acts(b) PROVE status'[r] = status[r]
    <3>1. Current(b) \in BatchRun /\ \A o \in found[b] : o \in BatchRun
      BY <2>1, CurrentIsRun DEF IInv, BatchInv, SweepFindsOwn
    <3>2. QED
      BY <2>1, <2>2, <3>1, ServerEffects DEF TypeOK, Creates, GivesUp, Completes, Sets
  <2>3. CASE ReconcileActs
    BY <2>1, <2>3, ReconcileEffects DEF IInv, ReconcileInv, TypeOK, Sets
  <2>4. QED
    BY <2>2, <2>3, NextCases DEF vars
<1>3. IInv /\ [Next]_vars => [Apart /\ Alone]_vars
  BY <1>1, <1>2
<1>4. QED
  BY <1>3, Invariance, PTL DEF Spec, BatchesStayApart

=============================================================================
