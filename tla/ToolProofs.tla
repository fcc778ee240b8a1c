----------------------------- MODULE ToolProofs -----------------------------
(***************************************************************************)
(* Theorems about the tools of the agent and what stands behind their      *)
(* results: BashTool (the bash tool), Ledger (the failure ledger and the   *)
(* stagnation tracker) and ReconWeb (the recon tool and its crawl). The    *)
(* three share nothing but the lemmas on least and greatest elements.      *)
(***************************************************************************)
EXTENDS BashTool, Ledger, ReconWeb,
        FiniteSetTheorems, WellFoundedInduction, NaturalsInduction, TLAPS

(***************************************************************************)
(* Least and greatest elements, from the well-foundedness of < : what      *)
(* takes the place of an induction below is the argument from a least      *)
(* counterexample.                                                         *)
(***************************************************************************)
LEMMA LeastExists ==
    ASSUME NEW S \in SUBSET Nat, S # {}
    PROVE  \E x \in S : \A y \in S : x <= y
<1>1. PICK x \in S : \A y \in S : ~ (<<y, x>> \in OpToRel(<, Nat))
  BY NatLessThanWellFounded, WFMin
<1>2. OpToRel(<, Nat) = {ss \in Nat \X Nat : ss[1] < ss[2]}
  BY Zenon DEF OpToRel
<1>3. \A y \in S : ~ (y < x)
  BY <1>1, <1>2
<1>4. QED
  BY <1>3

LEMMA GreatestExists ==
    ASSUME NEW n \in Nat, NEW S \in SUBSET (0 .. n), S # {}
    PROVE  \E x \in S : \A y \in S : y <= x
<1> DEFINE D == {n - x : x \in S}
<1>1. D \in SUBSET Nat
  OBVIOUS
<1>2. D # {}
  <2>1. PICK x \in S : TRUE
    OBVIOUS
  <2>2. n - x \in D
    BY <2>1
  <2>3. QED
    BY <2>2
<1>3. PICK d \in D : \A e \in D : d <= e
  <2> HIDE DEF D
  <2>1. QED
    BY <1>1, <1>2, LeastExists
<1>4. PICK x \in S : d = n - x
  OBVIOUS
<1>5. ASSUME NEW y \in S PROVE y <= x
  <2>1. n - y \in D
    OBVIOUS
  <2>2. n - x <= n - y
    BY <1>3, <1>4, <2>1
  <2>3. QED
    BY <2>2
<1>6. QED
  BY <1>5

-----------------------------------------------------------------------------
(***************************************************************************)
(* BashTool, for any number of phases and calls. A step concerns one call, *)
(* or all of them in the same way (the end of a phase), so the invariant   *)
(* is a conjunction over calls.                                            *)
(***************************************************************************)
\* Nothing runs behind a call that has not been spawned.
NothingRuns(c) ==
    call[c] \in {"none", "finalizing", "spawn_error"} =>
        shell[c] = "none" /\ child[c] = "none"

\* The session was killed before the call is reaped.
Signalled(c) ==
    call[c] \in {"reaping", "killed"} =>
        /\ shell[c] # "running"
        /\ child[c] = "running" => kind[c] = "escaped"

Complete(c) == call[c] = "done" => ~ unread[c] /\ ~ HoldsPipes(c)

\* No phase ends or is cut with a call still waiting.
OfThisPhase(c) ==
    /\ madeIn[c] <= phase
    /\ call[c] \in Waiting => madeIn[c] = phase

CallInv(c) == NothingRuns(c) /\ Signalled(c) /\ Complete(c) /\ OfThisPhase(c)

IInv == TypeOK /\ \A c \in Calls : CallInv(c)

callVars(c) == <<call[c], madeIn[c], shell[c], child[c], kind[c], unread[c]>>

-----------------------------------------------------------------------------

LEMMA InitInv == Init => IInv
<1> USE BashToolAssumption
<1> SUFFICES ASSUME Init PROVE IInv
  OBVIOUS
<1>1. TypeOK
  <2>1. phase \in 1 .. NPhases + 1
    BY DEF Init
  <2>2. madeIn \in [Calls -> 0 .. NPhases]
    BY DEF Init
  <2>3. QED
    BY <2>1, <2>2 DEF Init, TypeOK
<1>2. ASSUME NEW c \in Calls PROVE CallInv(c)
  BY DEF Init, CallInv, NothingRuns, Signalled, Complete, OfThisPhase, Waiting
<1>3. QED
  BY <1>1, <1>2 DEF IInv

\* A step of one call leaves the phase and all other calls alone.
LEMMA OneCallActs ==
    ASSUME TypeOK, NEW c \in Calls, Tool(c) \/ Command(c)
    PROVE  /\ UNCHANGED phaseVars
           /\ \A d \in Calls \ {c} : UNCHANGED callVars(d)
<1> USE DEF phaseVars, processVars, callVars, TypeOK
<1>1. CASE Tool(c)
  BY <1>1 DEF Tool, Call, Reads, Drained, TimeOut, Kill, Reap
<1>2. CASE Command(c)
  BY <1>2 DEF Command, Forks, ShellExits, ChildExits, Writes
<1>3. QED
  BY <1>1, <1>2

LEMMA TypeStep == ASSUME TypeOK, [Next]_vars PROVE TypeOK'
<1> USE BashToolAssumption DEF TypeOK, phaseVars, processVars, InPhase
<1>1. CASE ReserveBegins
  BY <1>1 DEF ReserveBegins
<1>2. CASE PhaseEnds
  <2>1. phase' \in 1 .. NPhases + 1
    BY <1>2 DEF PhaseEnds
  <2>2. QED
    BY <1>2, <2>1 DEF PhaseEnds
<1>3. CASE PhaseCut
  <2>1. phase' \in 1 .. NPhases + 1
    BY <1>3 DEF PhaseCut
  <2>2. call' \in [Calls -> {"none", "finalizing", "spawn_error", "draining", "reaping",
                           "done", "killed", "cancelled"}]
    BY <1>3 DEF PhaseCut
  <2>3. QED
    BY <1>3, <2>1, <2>2 DEF PhaseCut
<1>4. ASSUME NEW c \in Calls, Tool(c) PROVE TypeOK'
  <2>1. CASE Call(c)
    BY <2>1 DEF Call
  <2>2. CASE Reads(c)
    BY <2>2 DEF Reads
  <2>3. CASE Drained(c)
    BY <2>3 DEF Drained
  <2>4. CASE TimeOut(c)
    BY <2>4 DEF TimeOut, Kill, Killed
  <2>5. CASE Reap(c)
    BY <2>5 DEF Reap
  <2>6. QED
    BY <1>4, <2>1, <2>2, <2>3, <2>4, <2>5 DEF Tool
<1>5. ASSUME NEW c \in Calls, Command(c) PROVE TypeOK'
  BY <1>5 DEF Command, Forks, ShellExits, ChildExits, Writes
<1>6. CASE UNCHANGED vars
  BY <1>6 DEF vars
<1>7. QED
  BY <1>1, <1>2, <1>3, <1>4, <1>5, <1>6 DEF Next, Over

\* What a call's own step makes of it.
LEMMA ActorStep ==
    ASSUME TypeOK, NEW c \in Calls, CallInv(c), Tool(c) \/ Command(c)
    PROVE  CallInv(c)'
<1> USE DEF TypeOK, phaseVars, processVars, CallInv, NothingRuns, Signalled, Complete,
            OfThisPhase, HoldsPipes, Waiting, Alive, Kinds
<1>1. CASE Call(c)
  BY <1>1 DEF Call
<1>2. CASE Reads(c)
  BY <1>2 DEF Reads
<1>3. CASE Drained(c)
  BY <1>3 DEF Drained
<1>4. CASE TimeOut(c)
  BY <1>4 DEF TimeOut, Kill, Killed
<1>5. CASE Reap(c)
  BY <1>5 DEF Reap
<1>6. CASE Forks(c)
  BY <1>6 DEF Forks
<1>7. CASE ShellExits(c)
  BY <1>7 DEF ShellExits
<1>8. CASE ChildExits(c)
  BY <1>8 DEF ChildExits
<1>9. CASE Writes(c)
  BY <1>9 DEF Writes
<1>10. QED
  BY <1>1, <1>2, <1>3, <1>4, <1>5, <1>6, <1>7, <1>8, <1>9 DEF Tool, Command

LEMMA NextInv == IInv /\ [Next]_vars => IInv'
<1> SUFFICES ASSUME IInv, [Next]_vars PROVE IInv'
  OBVIOUS
<1>1. TypeOK /\ TypeOK'
  BY TypeStep DEF IInv
<1>2. ASSUME NEW d \in Calls PROVE CallInv(d)'
  <2> USE DEF CallInv, NothingRuns, Signalled, Complete, OfThisPhase, HoldsPipes,
              phaseVars, processVars
  <2>1. CallInv(d)
    BY DEF IInv
  <2>2. CASE ReserveBegins \/ UNCHANGED vars
    BY <2>1, <2>2 DEF ReserveBegins, vars
  <2>3. CASE PhaseEnds
    BY <1>1, <2>1, <2>3, BashToolAssumption DEF PhaseEnds, TypeOK
  <2>4. CASE PhaseCut
    BY <1>1, <2>1, <2>4, BashToolAssumption DEF PhaseCut, TypeOK, Waiting
  <2>5. ASSUME NEW c \in Calls, Tool(c) \/ Command(c) PROVE CallInv(d)'
    <3>1. CASE c = d
      BY <1>1, <2>1, <2>5, <3>1, ActorStep
    <3>2. CASE c # d
      <4>1. UNCHANGED phaseVars /\ UNCHANGED callVars(d)
        BY <1>1, <2>5, <3>2, OneCallActs
      <4>2. QED
        BY <2>1, <4>1 DEF callVars
    <3>3. QED
      BY <3>1, <3>2
  <2>6. QED
    BY <2>2, <2>3, <2>4, <2>5 DEF Next, Over
<1>3. QED
  BY <1>1, <1>2 DEF IInv

LEMMA Invariance == Spec => []IInv
  BY InitInv, NextInv, PTL DEF Spec

-----------------------------------------------------------------------------

(***************************************************************************)
(* Every reachable state of the calls and phases has the declared types.   *)
(***************************************************************************)
THEOREM TypeCorrect == Spec => []TypeOK
<1>1. IInv => TypeOK
  BY DEF IInv
<1>2. QED
  BY <1>1, Invariance, PTL

(***************************************************************************)
(* Behind exit code 124 nothing of the session runs on (bash's time-out    *)
(* and _kill_process_group).                                               *)
(***************************************************************************)
THEOREM TheKilledAreDead == Spec => []KilledMeansKilled
<1>1. IInv => KilledMeansKilled
  BY DEF IInv, CallInv, Signalled, KilledMeansKilled
<1>2. QED
  BY <1>1, Invariance, PTL

(***************************************************************************)
(* A result other than a time-out has all the output there will be         *)
(* (_drain_and_wait).                                                      *)
(***************************************************************************)
THEOREM ResultsAreFinal == Spec => []OutputIsWhole
<1>1. IInv => OutputIsWhole
  BY DEF IInv, CallInv, Complete, OutputIsWhole
<1>2. QED
  BY <1>1, Invariance, PTL

(***************************************************************************)
(* Only the cap of a phase leaves work behind (the asyncio.timeout of      *)
(* _run_phase around a running bash call).                                 *)
(***************************************************************************)
THEOREM OnlyCapsLeaveWork == Spec => []LeftoversWereCut
<1>1. IInv => LeftoversWereCut
  <2> SUFFICES ASSUME IInv, NEW c \in Calls, madeIn[c] < phase,
                      shell[c] = "running" \/ (child[c] = "running" /\ kind[c] = "piped")
               PROVE  call[c] = "cancelled"
    BY DEF LeftoversWereCut
  <2>1. TypeOK /\ CallInv(c)
    BY DEF IInv
  <2>2. call[c] \notin Waiting
    BY <2>1, BashToolAssumption DEF CallInv, OfThisPhase, TypeOK
  <2>3. call[c] \notin {"none", "finalizing", "spawn_error"}
    BY <2>1 DEF CallInv, NothingRuns
  <2>4. call[c] \notin {"done", "killed"}
    BY <2>1 DEF CallInv, Complete, Signalled, HoldsPipes, Alive
  <2>5. QED
    BY <2>1, <2>2, <2>3, <2>4 DEF TypeOK, Waiting
<1>2. QED
  BY <1>1, Invariance, PTL

-----------------------------------------------------------------------------
(***************************************************************************)
(* The failure ledger: one entry per key of an adverse result, and it is   *)
(* the number of them - over all phases.                                   *)
(***************************************************************************)
AdverseAt(i) == IsAdverse(given[i].result)
WithKey(k) == {i \in DOMAIN given : AdverseAt(i) /\ Key(given[i].result) = k}

LedgerCounts ==
    /\ given \in Seq([phase : Nat, result : Results])
    /\ position \in Nat
    /\ enabled \in BOOLEAN
    /\ enabled => \A k \in Keys : Occurrences(k) = Cardinality(WithKey(k))

LEMMA ResultAppends ==
    ASSUME LedgerCounts, Result
    PROVE  \E r \in Results :
              /\ given' = Append(given, [phase |-> position, result |-> r])
              /\ given' \in Seq([phase : Nat, result : Results])
              /\ DOMAIN given = 1 .. Len(given) /\ Len(given) \in Nat
              /\ DOMAIN given' = 1 .. Len(given) + 1 /\ Len(given') = Len(given) + 1
              /\ \A i \in DOMAIN given : given'[i] = given[i]
              /\ given'[Len(given) + 1] = [phase |-> position, result |-> r]
              /\ Last(given') = [phase |-> position, result |-> r]
              /\ \/ IsAdverse(r) /\ Stagnation(Key(r)) /\ Compress(r)
                 \/ ~ IsAdverse(r) /\ Succeeds(r)
              /\ UNCHANGED <<enabled, position>>
<1>1. PICK r \in Results :
          /\ given' = Append(given, [phase |-> position, result |-> r])
          /\ \/ IsAdverse(r) /\ Stagnation(Key(r)) /\ Compress(r)
             \/ ~ IsAdverse(r) /\ Succeeds(r)
  BY DEF Result
<1>2. [phase |-> position, result |-> r] \in [phase : Nat, result : Results]
  BY DEF LedgerCounts
<1>3. given \in Seq([phase : Nat, result : Results])
  BY DEF LedgerCounts
<1> DEFINE e == [phase |-> position, result |-> r]
<1>4. /\ given' \in Seq([phase : Nat, result : Results])
      /\ DOMAIN given = 1 .. Len(given) /\ Len(given) \in Nat
      /\ DOMAIN given' = 1 .. Len(given) + 1 /\ Len(given') = Len(given) + 1
      /\ \A i \in DOMAIN given : given'[i] = given[i]
      /\ given'[Len(given) + 1] = e
  <2> HIDE DEF e
  <2>1. QED
    BY <1>1, <1>2, <1>3 DEF e
<1>5. Last(given') = e
  BY <1>4 DEF Last
<1>6. QED
  BY <1>1, <1>4, <1>5 DEF Result

LEMMA WithKeyGrows ==
    ASSUME LedgerCounts, Result, NEW k
    PROVE  /\ IsAdverse(Last(given').result) /\ Key(Last(given').result) = k =>
                /\ WithKey(k)' = WithKey(k) \cup {Len(given) + 1}
                /\ Cardinality(WithKey(k)') = Cardinality(WithKey(k)) + 1
           /\ ~ (IsAdverse(Last(given').result) /\ Key(Last(given').result) = k) =>
                WithKey(k)' = WithKey(k)
           /\ Cardinality(WithKey(k)) \in Nat
<1>1. PICK r \in Results :
              /\ DOMAIN given = 1 .. Len(given) /\ Len(given) \in Nat
              /\ DOMAIN given' = 1 .. Len(given) + 1
              /\ \A i \in DOMAIN given : given'[i] = given[i]
              /\ given'[Len(given) + 1] = [phase |-> position, result |-> r]
              /\ Last(given') = [phase |-> position, result |-> r]
  BY ResultAppends
<1>2. IsFiniteSet(WithKey(k)) /\ Len(given) + 1 \notin WithKey(k)
  <2>1. IsFiniteSet(1 .. Len(given)) /\ WithKey(k) \subseteq 1 .. Len(given)
    <3>1. Len(given) \in Int /\ 1 \in Int
      BY <1>1
    <3>2. IsFiniteSet(1 .. Len(given))
      BY <3>1, FS_Interval
    <3>3. QED
      BY <1>1, <3>2 DEF WithKey
  <2>2. QED
    BY <1>1, <2>1, FS_Subset
<1>3. Cardinality(WithKey(k) \cup {Len(given) + 1}) = Cardinality(WithKey(k)) + 1
  BY <1>2, FS_AddElement
<1>4. WithKey(k)' = {i \in DOMAIN given' : IsAdverse(given'[i].result) /\ Key(given'[i].result) = k}
  BY DEF WithKey, AdverseAt, Key, IsAdverse
<1>5. WithKey(k)' = WithKey(k) \cup
          {i \in {Len(given) + 1} : IsAdverse(r) /\ Key(r) = k}
  BY <1>1, <1>4 DEF WithKey, AdverseAt
<1>6. CASE IsAdverse(r) /\ Key(r) = k
  <2>1. WithKey(k)' = WithKey(k) \cup {Len(given) + 1}
    BY <1>5, <1>6
  <2>2. QED
    BY <1>1, <1>2, <1>3, <1>6, <2>1, FS_CardinalityType
<1>7. CASE ~ (IsAdverse(r) /\ Key(r) = k)
  <2>1. WithKey(k)' = WithKey(k)
    BY <1>5, <1>7
  <2>2. QED
    BY <1>1, <1>2, <1>7, <2>1, FS_CardinalityType
<1>8. QED
  BY <1>6, <1>7

LEMMA LedgerCountsStep == LedgerCounts /\ [LedgerNext]_ledgerVars => LedgerCounts'
<1> SUFFICES ASSUME LedgerCounts, [LedgerNext]_ledgerVars PROVE LedgerCounts'
  OBVIOUS
<1>1. CASE Result
  <2>1. PICK r \in Results :
            /\ given' \in Seq([phase : Nat, result : Results])
            /\ Last(given') = [phase |-> position, result |-> r]
            /\ \/ IsAdverse(r) /\ Compress(r)
               \/ ~ IsAdverse(r) /\ Succeeds(r)
            /\ UNCHANGED <<enabled, position>>
    BY <1>1, ResultAppends
  <2>2. ASSUME NEW k \in Keys, enabled
        PROVE  Occurrences(k)' = Cardinality(WithKey(k)')
    <3>1. Occurrences(k) = Cardinality(WithKey(k)) /\ Cardinality(WithKey(k)) \in Nat
      BY <1>1, <2>2, WithKeyGrows DEF LedgerCounts
    <3>2. CASE IsAdverse(r) /\ Key(r) = k
      <4>1. ledger' = [j \in DOMAIN ledger \cup {k} |->
                          IF j = k THEN Occurrences(k) + 1 ELSE ledger[j]]
        BY <2>1, <2>2, <3>2 DEF Compress
      <4>2. Occurrences(k)' = Occurrences(k) + 1
        BY <4>1 DEF Occurrences
      <4>3. Cardinality(WithKey(k)') = Cardinality(WithKey(k)) + 1
        BY <1>1, <2>1, <3>2, WithKeyGrows
      <4>4. QED
        BY <3>1, <4>2, <4>3
    <3>3. CASE ~ (IsAdverse(r) /\ Key(r) = k)
      <4>1. WithKey(k)' = WithKey(k)
        BY <1>1, <2>1, <3>3, WithKeyGrows
      <4>2. Occurrences(k)' = Occurrences(k)
        <5>1. CASE IsAdverse(r)
          <6>1. ledger' = [j \in DOMAIN ledger \cup {Key(r)} |->
                              IF j = Key(r) THEN Occurrences(Key(r)) + 1 ELSE ledger[j]]
            BY <2>1, <2>2, <5>1 DEF Compress
          <6>2. k # Key(r)
            BY <3>3, <5>1
          <6>3. QED
            BY <6>1, <6>2 DEF Occurrences
        <5>2. CASE ~ IsAdverse(r)
          BY <2>1, <5>2 DEF Succeeds, Occurrences
        <5>3. QED
          BY <5>1, <5>2
      <4>3. QED
        BY <3>1, <4>1, <4>2
    <3>4. QED
      BY <3>2, <3>3
  <2>3. QED
    BY <2>1, <2>2 DEF LedgerCounts
<1>2. CASE NextPhase
  <2>1. UNCHANGED <<enabled, given, ledger>> /\ position' = position + 1
    BY <1>2 DEF NextPhase
  <2>2. QED
    BY <2>1 DEF LedgerCounts, Occurrences, WithKey, AdverseAt
<1>3. CASE UNCHANGED ledgerVars
  BY <1>3 DEF ledgerVars, LedgerCounts, Occurrences, WithKey, AdverseAt
<1>4. QED
  BY <1>1, <1>2, <1>3 DEF LedgerNext, LedgerOver

LEMMA InitLedgerCounts == LedgerInit => LedgerCounts
<1> SUFFICES ASSUME LedgerInit PROVE LedgerCounts
  OBVIOUS
<1>1. \A k \in Keys : WithKey(k) = {}
  BY DEF LedgerInit, WithKey
<1>2. \A k \in Keys : Occurrences(k) = 0
  BY DEF LedgerInit, Occurrences
<1>3. QED
  BY <1>1, <1>2, FS_EmptySet DEF LedgerInit, LedgerCounts

(***************************************************************************)
(* "repeated Nx" is the number of failures of this key in the whole run.   *)
(***************************************************************************)
THEOREM CountsAreHonest == LedgerSpec => []CountIsHonest
<1> DEFINE Inv == LedgerCounts /\ CountIsHonest
<1>1. LedgerInit => Inv
  <2> SUFFICES ASSUME LedgerInit PROVE Inv
    OBVIOUS
  <2>1. CountIsHonest
    BY DEF LedgerInit, CountIsHonest
  <2>2. LedgerCounts
    BY InitLedgerCounts
  <2>3. QED
    BY <2>1, <2>2
<1>2. Inv /\ [LedgerNext]_ledgerVars => Inv'
  <2> SUFFICES ASSUME Inv, [LedgerNext]_ledgerVars PROVE CountIsHonest'
    BY LedgerCountsStep
  <2>1. CASE Result
    <3>1. PICK r \in Results :
              /\ Last(given') = [phase |-> position, result |-> r]
              /\ IsAdverse(r) => Compress(r)
              /\ UNCHANGED enabled
      BY <2>1, ResultAppends
    <3> DEFINE key == Key(r)
    <3>2. Alike(r)' = WithKey(key)'
      BY DEF Alike, WithKey, AdverseAt
    <3>3. SUFFICES ASSUME IsAdverse(r)
                   PROVE  forwarded' = IF enabled /\ Cardinality(WithKey(key)') > 1
                              THEN [as |-> "compressed", count |-> Cardinality(WithKey(key)')]
                              ELSE [as |-> "full", count |-> 0]
      BY <3>1, <3>2 DEF CountIsHonest
    <3>4. /\ Cardinality(WithKey(key)') = Cardinality(WithKey(key)) + 1
          /\ Cardinality(WithKey(key)) \in Nat
      BY <2>1, <3>1, <3>3, WithKeyGrows
    <3>5. CASE enabled
      <4>1. key \in Keys
        BY DEF Keys
      <4>2. Occurrences(key) = Cardinality(WithKey(key))
        BY <3>5, <4>1 DEF LedgerCounts
      <4>3. forwarded' = Forward(Occurrences(key) + 1)
        BY <3>1, <3>3, <3>5 DEF Compress
      <4>4. QED
        BY <3>4, <3>5, <4>2, <4>3 DEF Forward
    <3>6. CASE ~ enabled
      BY <3>1, <3>3, <3>6 DEF Compress
    <3>7. QED
      BY <3>5, <3>6
  <2>2. CASE NextPhase
    BY <2>2 DEF NextPhase, CountIsHonest, Alike
  <2>3. CASE UNCHANGED ledgerVars
    BY <2>3 DEF ledgerVars, CountIsHonest, Alike
  <2>4. QED
    BY <2>1, <2>2, <2>3 DEF LedgerNext, LedgerOver
<1>3. QED
  BY <1>1, <1>2, PTL DEF LedgerSpec

-----------------------------------------------------------------------------
(***************************************************************************)
(* The streak of a sequence is as long as its constant tail.               *)
(***************************************************************************)
LEMMA StreakIsTail ==
    ASSUME NEW S, NEW s \in Seq(S), s # <<>>
    PROVE  \E m \in 0 .. Len(s) - 1 :
              /\ Streak(s) = Len(s) - m
              /\ \A j \in m + 1 .. Len(s) : s[j] = Last(s)
              /\ m > 0 => s[m] # Last(s)
<1> DEFINE others == {i \in DOMAIN s : s[i] # Last(s)}
           top == CHOOSE i \in others : \A j \in others : j <= i
<1>1. /\ Len(s) \in Nat /\ Len(s) > 0 /\ DOMAIN s = 1 .. Len(s)
      /\ Last(s) = s[Len(s)]
  BY DEF Last
<1>2. others \subseteq 0 .. Len(s) /\ Len(s) \notin others
  BY <1>1
<1>3. CASE others = {}
  <2>1. Streak(s) = Len(s)
    BY <1>1, <1>3 DEF Streak
  <2>2. \A j \in 1 .. Len(s) : s[j] = Last(s)
    BY <1>1, <1>3
  <2>3. QED
    <3>1. 0 \in 0 .. Len(s) - 1 /\ Len(s) - 0 = Len(s)
      BY <1>1
    <3>2. QED
      BY <2>1, <2>2, <3>1
<1>4. CASE others # {}
  <2>1. \E i \in others : \A j \in others : j <= i
    <3> HIDE DEF others
    <3>1. QED
      BY <1>1, <1>2, <1>4, GreatestExists
  <2>2. top \in others /\ \A j \in others : j <= top
    <3> HIDE DEF others
    <3>1. QED
      BY <2>1
  <2>3. Streak(s) = Len(s) - top
    BY <1>4 DEF Streak
  <2>4. top \in 1 .. Len(s) - 1
    <3> HIDE DEF top
    <3>1. QED
      BY <1>1, <1>2, <2>2
  <2>5. \A j \in top + 1 .. Len(s) : s[j] = Last(s)
    <3> HIDE DEF top
    <3>1. QED
      BY <1>1, <2>2, <2>4
  <2>6. QED
    <3> HIDE DEF top
    <3>1. QED
      BY <2>2, <2>3, <2>4, <2>5
<1>5. QED
  BY <1>3, <1>4

(***************************************************************************)
(* A set of positions that is closed upwards is as large as it is long.    *)
(***************************************************************************)
LEMMA TailSize ==
    ASSUME NEW n \in Nat, NEW a \in 1 .. n + 1, NEW R \in SUBSET (1 .. n),
           \A i \in 1 .. n : i \in R <=> i >= a
    PROVE  Cardinality(R) = n - a + 1
<1>1. R \subseteq a .. n
  OBVIOUS
<1>2. a .. n \subseteq R
  OBVIOUS
<1>3. R = a .. n
  BY <1>1, <1>2
<1>4. a \in Int /\ n \in Int /\ (a > n => n - a + 1 = 0)
  OBVIOUS
<1>5. Cardinality(a .. n) = IF a > n THEN 0 ELSE n - a + 1
  BY <1>4, FS_Interval
<1>6. QED
  BY <1>3, <1>4, <1>5

-----------------------------------------------------------------------------
(***************************************************************************)
(* The tracker s holds the keys of the last results of g, all of them      *)
(* failures in phases of one id, and none that belongs to them is missing  *)
(* but beyond the window.                                                  *)
(***************************************************************************)
Entries == [phase : Nat, result : Results]

InRow(e, id) == IsAdverse(e.result) /\ Id(e.phase) = id

Tracks(s, g, id) ==
    /\ s \in Seq(Keys) /\ Len(s) <= Len(g) /\ Len(s) <= Window
    /\ \A j \in 1 .. Len(s) :
          LET e == g[Len(g) - Len(s) + j] IN InRow(e, id) /\ Key(e.result) = s[j]
    /\ Len(s) < Window /\ Len(s) < Len(g) => ~ InRow(g[Len(g) - Len(s)], id)

Tracked ==
    /\ given \in Seq(Entries)
    /\ Tracks(seq, given, seqPhase)
    /\ given # <<>> => seqPhase = Id(Last(given).phase)
    /\ event = IF Streak(seq) >= Threshold THEN Streak(seq) ELSE 0

Row == {i \in DOMAIN given : OneFailureSince(i)}

(***************************************************************************)
(* The streak the tracker sees is the row, as far as the window reaches.   *)
(***************************************************************************)
LEMMA StreakIsRow ==
    ASSUME Tracked
    PROVE  /\ Cardinality(Row) \in Nat
           /\ Streak(seq) = IF Cardinality(Row) > Window THEN Window ELSE Cardinality(Row)
<1> DEFINE n == Len(given)
           m == Len(seq)
<1>1. /\ n \in Nat /\ m \in Nat /\ m <= n /\ m <= Window /\ Window \in Nat /\ Window > 0
      /\ given \in Seq(Entries) /\ seq \in Seq(Keys)
      /\ DOMAIN given = 1 .. n /\ DOMAIN seq = 1 .. m
      /\ n > 0 => given # <<>> /\ Last(given) = given[n] /\ seqPhase = Id(given[n].phase)
      /\ m > 0 => seq # <<>> /\ Last(seq) = seq[m]
      /\ m = 0 => seq = <<>>
  BY LedgerAssumption DEF Tracked, Tracks, Last
<1>2. /\ \A j \in 1 .. m : /\ InRow(given[n - m + j], seqPhase)
                           /\ Key(given[n - m + j].result) = seq[j]
      /\ m < Window /\ m < n => ~ InRow(given[n - m], seqPhase)
  BY DEF Tracked, Tracks
<1>3. \A i \in 1 .. n :
          OneFailureSince(i) <=>
              \A j \in i .. n : /\ InRow(given[j], seqPhase)
                                /\ Key(given[j].result) = Key(given[n].result)
  BY <1>1 DEF OneFailureSince, InRow
<1>4. Row \subseteq 1 .. n /\ \A i \in 1 .. n : i \in Row <=> OneFailureSince(i)
  BY <1>1 DEF Row
<1> HIDE DEF n, m
<1>5. CASE m = 0
  <2>1. Streak(seq) = 0
    BY <1>1, <1>5 DEF Streak
  <2>2. ASSUME NEW i \in 1 .. n, OneFailureSince(i) PROVE FALSE
    <3>1. InRow(given[n], seqPhase)
      BY <1>1, <1>3, <2>2
    <3>2. QED
      BY <1>1, <1>2, <1>5, <3>1
  <2>3. Row = {}
    BY <1>4, <2>2
  <2>4. QED
    BY <1>1, <2>1, <2>3, FS_EmptySet
<1>6. CASE m > 0
  <2>1. PICK k \in 0 .. m - 1 :
            /\ Streak(seq) = m - k
            /\ \A j \in k + 1 .. m : seq[j] = Last(seq)
            /\ k > 0 => seq[k] # Last(seq)
    BY <1>1, <1>6, StreakIsTail DEF m
  <2>2. Key(given[n].result) = Last(seq)
    <3>1. m \in 1 .. m /\ n - m + m = n
      BY <1>1, <1>6
    <3>2. QED
      BY <1>1, <1>2, <1>6, <3>1
  <2>3. ASSUME NEW i \in 1 .. n, i >= n - m + k + 1 PROVE OneFailureSince(i)
    <3>1. ASSUME NEW j \in i .. n
          PROVE  /\ InRow(given[j], seqPhase)
                 /\ Key(given[j].result) = Key(given[n].result)
      <4>1. PICK l \in k + 1 .. m : j = n - m + l
        <5>1. j - (n - m) \in k + 1 .. m /\ j = n - m + (j - (n - m))
          BY <1>1, <2>3
        <5>2. QED
          BY <5>1
      <4>2. l \in 1 .. m
        BY <1>1
      <4>3. QED
        BY <1>2, <2>1, <2>2, <4>1, <4>2
    <3>2. QED
      BY <1>3, <3>1
  <2>4. CASE k > 0 \/ m < Window
    <3>1. ASSUME NEW i \in 1 .. n, i < n - m + k + 1, OneFailureSince(i) PROVE FALSE
      <4>1. n - m + k \in i .. n
        BY <1>1, <3>1
      <4>2. /\ InRow(given[n - m + k], seqPhase)
            /\ Key(given[n - m + k].result) = Last(seq)
        BY <1>3, <2>2, <3>1, <4>1
      <4>3. CASE k > 0
        BY <1>1, <1>2, <2>1, <4>2, <4>3
      <4>4. CASE k = 0
        BY <1>1, <1>2, <2>4, <3>1, <4>2, <4>4
      <4>5. QED
        BY <4>3, <4>4
    <3>2. \A i \in 1 .. n : i \in Row <=> i >= n - m + k + 1
      <4>1. \A i \in 1 .. n : i < n - m + k + 1 \/ i >= n - m + k + 1
        BY <1>1
      <4>2. QED
        BY <1>1, <1>4, <2>3, <3>1, <4>1
    <3>3. Cardinality(Row) = n - (n - m + k + 1) + 1
      <4>1. n - m + k + 1 \in 1 .. n + 1
        BY <1>1
      <4>2. QED
        BY <1>1, <1>4, <3>2, <4>1, TailSize
    <3>4. Cardinality(Row) = m - k /\ m - k \in Nat /\ m - k <= Window
      BY <1>1, <3>3
    <3>5. QED
      BY <1>1, <2>1, <3>4
  <2>5. CASE k = 0 /\ m = Window
    <3>1. (n - m + 1) .. n \subseteq Row
      BY <1>1, <1>4, <2>3, <2>5
    <3>2. IsFiniteSet(Row)
      <4>1. IsFiniteSet(1 .. n)
        BY <1>1, FS_Interval
      <4>2. QED
        BY <1>4, <4>1, FS_Subset
    <3>3. Cardinality((n - m + 1) .. n) = m
      <4>1. n - m + 1 \in Int /\ n \in Int /\ n - m + 1 <= n /\ n - (n - m + 1) + 1 = m
        BY <1>1, <1>6
      <4>2. QED
        BY <4>1, FS_Interval
    <3>4. Cardinality(Row) \in Nat /\ m <= Cardinality(Row)
      BY <3>1, <3>2, <3>3, FS_Subset, FS_CardinalityType
    <3>5. Streak(seq) = Window
      BY <1>1, <2>1, <2>5
    <3>6. QED
      BY <1>1, <2>5, <3>4, <3>5
  <2>6. k = 0 \/ k > 0
    BY <1>1
  <2>7. QED
    BY <1>1, <2>4, <2>5, <2>6
<1>7. QED
  BY <1>1, <1>5, <1>6

LEMMA SliceOf ==
    ASSUME NEW S, NEW q \in Seq(S), NEW a \in {1, 2}, a <= Len(q)
    PROVE  /\ SubSeq(q, a, Len(q)) \in Seq(S)
           /\ Len(SubSeq(q, a, Len(q))) = Len(q) - a + 1
           /\ \A j \in 1 .. Len(q) - a + 1 : SubSeq(q, a, Len(q))[j] = q[a + j - 1]
OBVIOUS

(***************************************************************************)
(* One more failure: the tracker goes on if the phase id is still the      *)
(* same, and drops the oldest key beyond the window.                       *)
(***************************************************************************)
LEMMA TracksOneMore ==
    ASSUME NEW g \in Seq(Entries), NEW s, NEW id, Tracks(s, g, id),
           g # <<>> => id = Id(Last(g).phase),
           NEW e \in Entries, IsAdverse(e.result),
           NEW before, before = IF id = Id(e.phase) THEN s ELSE <<>>,
           NEW grown, grown = Append(before, Key(e.result))
    PROVE  Tracks(SubSeq(grown, IF Len(grown) > Window THEN 2 ELSE 1, Len(grown)),
                  Append(g, e), Id(e.phase))
<1>1. PICK n, m : n = Len(g) /\ m = Len(before)
  OBVIOUS
<1>2. /\ n \in Nat /\ m \in Nat /\ m <= n /\ m <= Window
      /\ Window \in Nat /\ Window >= 2
  <2>1. s \in Seq(Keys) /\ Len(s) <= Len(g) /\ Len(s) <= Window
    BY DEF Tracks
  <2>2. Window \in Nat /\ Window >= 2
    BY LedgerAssumption
  <2>3. Len(g) \in Nat /\ Len(s) \in Nat
    BY <2>1
  <2>4. QED
    BY <1>1, <2>1, <2>2, <2>3
<1>3. \A j \in 1 .. m : /\ InRow(g[n - m + j], Id(e.phase))
                        /\ Key(g[n - m + j].result) = before[j]
  <2>1. CASE id = Id(e.phase)
    BY <1>1, <2>1 DEF Tracks
  <2>2. CASE id # Id(e.phase)
    BY <1>1, <2>2
  <2>3. QED
    BY <2>1, <2>2
<1>4. m < Window /\ m < n => ~ InRow(g[n - m], Id(e.phase))
  <2>1. CASE id = Id(e.phase)
    BY <1>1, <2>1 DEF Tracks
  <2>2. CASE id # Id(e.phase) /\ n > 0
    <3>1. g # <<>> /\ Last(g) = g[n] /\ m = 0 /\ n - m = n
      BY <1>1, <1>2, <2>2 DEF Last
    <3>2. QED
      BY <2>2, <3>1 DEF InRow
  <2>3. QED
    BY <1>2, <2>1, <2>2
<1>5. Key(e.result) \in Keys /\ before \in Seq(Keys)
  BY DEF Keys, Entries, Tracks
<1>6. /\ grown \in Seq(Keys) /\ Len(grown) = m + 1
      /\ grown[m + 1] = Key(e.result) /\ \A j \in 1 .. m : grown[j] = before[j]
  BY <1>1, <1>2, <1>5
<1>7. PICK h : h = Append(g, e)
  OBVIOUS
<1>8. Len(h) = n + 1 /\ h[n + 1] = e /\ \A i \in 1 .. n : h[i] = g[i]
  BY <1>1, <1>2, <1>7
<1>9. ASSUME NEW j \in 1 .. m + 1
      PROVE  /\ InRow(h[n - m + j], Id(e.phase))
             /\ Key(h[n - m + j].result) = grown[j]
  <2>1. CASE j \in 1 .. m
    <3>1. n - m + j \in 1 .. n
      BY <1>2, <2>1
    <3>2. QED
      BY <1>3, <1>6, <1>8, <2>1, <3>1
  <2>2. CASE j = m + 1
    <3>1. n - m + j = n + 1
      BY <1>2, <2>2
    <3>2. QED
      BY <1>6, <1>8, <2>2, <3>1 DEF InRow
  <2>3. j \in 1 .. m \/ j = m + 1
    BY <1>2
  <2>4. QED
    BY <2>1, <2>2, <2>3
<1>10. CASE m < Window
  <2>1. PICK kept : kept = SubSeq(grown, 1, m + 1)
    OBVIOUS
  <2>2. kept \in Seq(Keys) /\ Len(kept) = m + 1 /\ \A j \in 1 .. m + 1 : kept[j] = grown[j]
    <3>1. m + 1 \in Nat /\ 1 .. m + 1 = 1 .. Len(grown)
      BY <1>2, <1>6
    <3>2. QED
      BY <1>6, <2>1, <3>1, SliceOf
  <2>3. Len(h) - Len(kept) = n - m
    BY <1>2, <1>8, <2>2
  <2>4. m + 1 < Window /\ m + 1 < n + 1 => ~ InRow(h[n - m], Id(e.phase))
    <3>1. m < n => n - m \in 1 .. n
      BY <1>2
    <3>2. m + 1 < Window /\ m + 1 < n + 1 => m < Window /\ m < n
      BY <1>2
    <3>3. QED
      BY <1>4, <1>8, <3>1, <3>2
  <2>5. Tracks(kept, h, Id(e.phase))
    <3>1. Len(kept) <= Len(h) /\ Len(kept) <= Window
      BY <1>2, <1>8, <1>10, <2>2
    <3>2. QED
      BY <1>8, <1>9, <2>2, <2>3, <2>4, <3>1 DEF Tracks
  <2>6. QED
    BY <1>2, <1>6, <1>7, <1>10, <2>1, <2>5
<1>11. CASE m = Window
  <2>1. PICK kept : kept = SubSeq(grown, 2, m + 1)
    OBVIOUS
  <2>2. kept \in Seq(Keys) /\ Len(kept) = m /\ \A j \in 1 .. m : kept[j] = grown[j + 1]
    <3>1. m + 1 \in Nat /\ m + 1 = Len(grown) /\ (m + 1) - 2 + 1 = m
      BY <1>2, <1>6
    <3>2. \A j \in 1 .. m : 2 + j - 1 = j + 1
      BY <1>2
    <3>3. /\ kept \in Seq(Keys) /\ Len(kept) = m
          /\ \A j \in 1 .. m : kept[j] = grown[2 + j - 1]
      BY <1>2, <1>6, <1>11, <2>1, <3>1, SliceOf
    <3>4. QED
      BY <3>2, <3>3
  <2>3. ASSUME NEW j \in 1 .. m
        PROVE  /\ InRow(h[(n + 1) - m + j], Id(e.phase))
               /\ Key(h[(n + 1) - m + j].result) = kept[j]
    <3>1. j + 1 \in 1 .. m + 1 /\ (n + 1) - m + j = n - m + (j + 1)
      BY <1>2
    <3>2. QED
      BY <1>9, <2>2, <3>1
  <2>4. Tracks(kept, h, Id(e.phase))
    <3>1. Len(kept) <= Len(h) /\ Len(kept) <= Window /\ ~ (Len(kept) < Window)
      BY <1>2, <1>8, <1>11, <2>2
    <3>2. QED
      BY <1>8, <2>2, <2>3, <3>1 DEF Tracks
  <2>5. QED
    BY <1>2, <1>6, <1>7, <1>11, <2>1, <2>4
<1>12. QED
  BY <1>1, <1>2, <1>10, <1>11

LEMMA TrackedStep == Tracked /\ LedgerCounts /\ [LedgerNext]_ledgerVars => Tracked'
<1> SUFFICES ASSUME Tracked, LedgerCounts, [LedgerNext]_ledgerVars PROVE Tracked'
  OBVIOUS
<1>1. CASE Result
  <2>1. PICK r \in Results :
            /\ given' = Append(given, [phase |-> position, result |-> r])
            /\ given' \in Seq(Entries) /\ Len(given') = Len(given) + 1
            /\ Len(given) \in Nat
            /\ Last(given') = [phase |-> position, result |-> r]
            /\ \/ IsAdverse(r) /\ Stagnation(Key(r))
               \/ ~ IsAdverse(r) /\ Succeeds(r)
    BY <1>1, ResultAppends DEF Entries
  <2>2. /\ given' # <<>>
        /\ seqPhase' = Id(position) /\ Id(Last(given').phase) = Id(position)
    <3>1. given' # <<>>
      BY <2>1
    <3>2. seqPhase' = Id(position)
      BY <2>1 DEF Stagnation, Succeeds
    <3>3. Last(given').phase = position
      BY <2>1
    <3>4. QED
      BY <3>1, <3>2, <3>3
  <2>3. CASE ~ IsAdverse(r)
    <3>1. seq' = <<>> /\ event' = 0
      BY <2>1, <2>3 DEF Succeeds
    <3>2. Tracks(<<>>, given', Id(position))
      <4>1. Len(given') > 0 /\ given'[Len(given') - 0] = Last(given')
        BY <2>1, <2>2 DEF Last
      <4>2. QED
        BY <2>1, <2>3, <4>1, LedgerAssumption DEF Tracks, InRow
    <3>3. event' = IF Streak(seq') >= Threshold THEN Streak(seq') ELSE 0
      BY <3>1, LedgerAssumption DEF Streak
    <3>4. QED
      BY <2>1, <2>2, <3>1, <3>2, <3>3 DEF Tracked, Id
  <2>4. CASE IsAdverse(r)
    <3> DEFINE e == [phase |-> position, result |-> r]
               before == IF seqPhase = Id(position) THEN seq ELSE <<>>
               grown == Append(before, Key(r))
               kept == SubSeq(grown, IF Len(grown) > Window THEN 2 ELSE 1, Len(grown))
    <3>1. seq' = kept /\ event' = IF Streak(kept) >= Threshold THEN Streak(kept) ELSE 0
      BY <2>1, <2>4 DEF Stagnation
    <3>2. Tracks(kept, Append(given, e), Id(position))
      <4>1. /\ e \in Entries /\ e.phase = position /\ e.result = r
            /\ given \in Seq(Entries) /\ Tracks(seq, given, seqPhase)
            /\ given # <<>> => seqPhase = Id(Last(given).phase)
        BY DEF Entries, Tracked, LedgerCounts
      <4> HIDE DEF e
      <4>2. QED
        BY <2>4, <4>1, TracksOneMore
    <3> HIDE DEF kept
    <3>3. Tracks(seq', given', seqPhase')
      BY <2>1, <2>2, <3>1, <3>2
    <3>4. QED
      BY <2>1, <2>2, <3>1, <3>3 DEF Tracked, Id
  <2>5. QED
    BY <2>3, <2>4
<1>2. CASE NextPhase
  BY <1>2 DEF NextPhase, trackerVars, Tracked, Id
<1>3. CASE UNCHANGED ledgerVars
  BY <1>3 DEF ledgerVars, trackerVars, Tracked, Id
<1>4. QED
  BY <1>1, <1>2, <1>3 DEF LedgerNext, LedgerOver

(***************************************************************************)
(* A stagnation event is an uninterrupted row of one failure, and every    *)
(* such row makes one.                                                     *)
(***************************************************************************)
THEOREM StreaksAreReal == LedgerSpec => []StreakIsReal
<1> DEFINE Inv == LedgerCounts /\ Tracked
<1>1. LedgerInit => Inv
  <2> SUFFICES ASSUME LedgerInit PROVE Inv
    OBVIOUS
  <2>1. Tracked
    BY LedgerAssumption DEF LedgerInit, Tracked, Tracks, Streak
  <2>2. QED
    BY <2>1, InitLedgerCounts
<1>2. Inv /\ [LedgerNext]_ledgerVars => Inv'
  BY LedgerCountsStep, TrackedStep
<1>3. Inv => StreakIsReal
  <2> SUFFICES ASSUME Inv PROVE StreakIsReal
    OBVIOUS
  <2>1. PICK row : row = Cardinality(Row)
    OBVIOUS
  <2>2. row \in Nat /\ Streak(seq) = IF row > Window THEN Window ELSE row
    BY <2>1, StreakIsRow
  <2>3. event = IF Streak(seq) >= Threshold THEN Streak(seq) ELSE 0
    BY DEF Tracked
  <2>4. event = IF row < Threshold THEN 0 ELSE IF row > Window THEN Window ELSE row
    BY <2>2, <2>3, LedgerAssumption
  <2>5. QED
    BY <2>1, <2>4 DEF StreakIsReal, Row
<1>4. QED
  BY <1>1, <1>2, <1>3, PTL DEF LedgerSpec

-----------------------------------------------------------------------------
(***************************************************************************)
(* ReconWeb.  The first n of a list (a slice of the sorted paths): at most *)
(* n, and n if any path is left out.                                       *)
(***************************************************************************)
FirstBy(place, n, paths) ==
    {p \in paths : Cardinality({q \in paths : place[q] < place[p]}) < n}

LEMMA FirstBySize ==
    ASSUME NEW S, IsFiniteSet(S), NEW place, \A p \in S : place[p] \in Nat,
           \A p, q \in S : place[p] = place[q] => p = q,
           NEW n \in Nat
    PROVE  LET F == FirstBy(place, n, S) IN
           /\ F \subseteq S /\ IsFiniteSet(F)
           /\ Cardinality(F) \in Nat /\ Cardinality(F) <= n
           /\ S \ F # {} => Cardinality(F) = n
<1> DEFINE Below(p) == {q \in S : place[q] < place[p]}
           F == {p \in S : Cardinality(Below(p)) < n}
<1>1. ASSUME NEW p \in S
      PROVE  IsFiniteSet(Below(p)) /\ Cardinality(Below(p)) \in Nat
  BY FS_Subset, FS_CardinalityType
<1>2. F \subseteq S /\ IsFiniteSet(F) /\ Cardinality(F) \in Nat
  BY FS_Subset, FS_CardinalityType
<1>3. \A p \in S : p \in F <=> Cardinality(Below(p)) < n
  OBVIOUS
<1>4. ASSUME NEW p \in S, NEW q \in S, place[p] < place[q]
      PROVE  Cardinality(Below(q)) >= Cardinality(Below(p)) + 1
  <2>1. Below(p) \cup {p} \subseteq Below(q) /\ p \notin Below(p)
    BY <1>4
  <2> HIDE DEF Below
  <2>2. Cardinality(Below(p) \cup {p}) = Cardinality(Below(p)) + 1
    BY <1>1, <2>1, FS_AddElement
  <2>3. Cardinality(Below(p) \cup {p}) <= Cardinality(Below(q))
    BY <1>1, <2>1, FS_Subset
  <2>4. QED
    BY <1>1, <2>2, <2>3
<1>5. Cardinality(F) <= n
  <2>1. CASE F = {}
    <3> HIDE DEF F
    <3>1. Cardinality(F) = 0
      BY <2>1, FS_EmptySet
    <3>2. QED
      BY <3>1
  <2>2. CASE F # {}
    <3> DEFINE sizes == {Cardinality(Below(p)) : p \in F}
    <3> HIDE DEF Below, F
    <3>1. sizes \in SUBSET (0 .. n) /\ sizes # {}
      BY <1>1, <1>2, <1>3, <2>2
    <3>2. PICK x \in sizes : \A y \in sizes : y <= x
      <4> HIDE DEF sizes
      <4>1. QED
        BY <3>1, GreatestExists
    <3>3. PICK p \in F : x = Cardinality(Below(p))
      OBVIOUS
    <3>4. \A q \in F : Cardinality(Below(q)) <= Cardinality(Below(p))
      BY <3>2, <3>3
    <3>5. ASSUME NEW q \in F PROVE q \in Below(p) \cup {p}
      <4>1. q \in S /\ p \in S
        BY <1>2
      <4>2. ~ (place[p] < place[q])
        <5>1. Cardinality(Below(q)) <= Cardinality(Below(p))
          BY <3>4
        <5>2. Cardinality(Below(q)) \in Nat /\ Cardinality(Below(p)) \in Nat
          BY <1>1, <4>1
        <5>3. ~ (Cardinality(Below(q)) >= Cardinality(Below(p)) + 1)
          BY <5>1, <5>2
        <5>4. QED
          BY <1>4, <4>1, <5>3
      <4>3. place[q] < place[p] \/ place[q] = place[p]
        BY <4>1, <4>2
      <4>4. QED
        BY <4>1, <4>3 DEF Below
    <3>6. p \in S /\ Cardinality(Below(p)) < n
      BY <1>2, <1>3
    <3>7. IsFiniteSet(Below(p)) /\ Cardinality(Below(p)) \in Nat /\ p \notin Below(p)
      BY <1>1, <3>6 DEF Below
    <3>8. /\ Cardinality(Below(p) \cup {p}) = Cardinality(Below(p)) + 1
          /\ IsFiniteSet(Below(p) \cup {p})
      BY <3>7, FS_AddElement
    <3>9. F \subseteq Below(p) \cup {p}
      BY <3>5
    <3>10. Cardinality(F) <= Cardinality(Below(p) \cup {p})
      BY <3>8, <3>9, FS_Subset
    <3>11. QED
      BY <1>2, <3>6, <3>7, <3>8, <3>10
  <2>3. QED
    BY <2>1, <2>2
<1>6. ASSUME S \ F # {} PROVE Cardinality(F) >= n
  <2> DEFINE left == {place[p] : p \in S \ F}
  <2> HIDE DEF Below, F
  <2>1. left \in SUBSET Nat /\ left # {}
    BY <1>6
  <2>2. PICK x \in left : \A y \in left : x <= y
    <3> HIDE DEF left
    <3>1. QED
      BY <2>1, LeastExists
  <2>3. PICK p \in S \ F : x = place[p]
    OBVIOUS
  <2>4. \A q \in S \ F : place[p] <= place[q]
    BY <2>2, <2>3
  <2>5. Below(p) \subseteq F
    <3>1. ASSUME NEW q \in Below(p) PROVE q \in F
      <4>1. q \in S /\ place[q] < place[p] /\ place[q] \in Nat /\ place[p] \in Nat
        BY DEF Below
      <4>2. QED
        BY <2>4, <4>1
    <3>2. QED
      BY <3>1
  <2>6. Cardinality(Below(p)) <= Cardinality(F)
    BY <1>2, <2>5, FS_Subset
  <2>7. ~ (Cardinality(Below(p)) < n) /\ Cardinality(Below(p)) \in Nat
    BY <1>1, <1>3
  <2>8. QED
    BY <1>2, <2>6, <2>7
<1>7. FirstBy(place, n, S) = F
  BY DEF FirstBy
<1>8. QED
  <2> HIDE DEF F
  <2>1. QED
    BY <1>2, <1>5, <1>6, <1>7

-----------------------------------------------------------------------------
(***************************************************************************)
(* The levels of the crawl. Level k is defined from the levels below it;   *)
(* that there is a function so defined, and that it depends on nothing     *)
(* else, follows from a least counterexample.                              *)
(***************************************************************************)
\* Level k, if f has the levels below it.
Body(links, pages, f, k) ==
    IF k = 0 THEN DOMAIN Seeds
    ELSE (UNION {links[p] : p \in f[k - 1] \cap pages})
         \ (UNION {f[j] : j \in 0 .. k - 1})

LEMMA HigherBody ==
    ASSUME NEW links, NEW pages, NEW f, NEW k, k # 0
    PROVE  Body(links, pages, f, k) =
              (UNION {links[p] : p \in f[k - 1] \cap pages})
              \ (UNION {f[j] : j \in 0 .. k - 1})
BY Zenon DEF Body

LEMMA LevelsChosen ==
    ASSUME NEW links, NEW pages
    PROVE  Levels(links, pages) =
              CHOOSE f : f = [k \in 0 .. Depths |-> Body(links, pages, f, k)]
BY DEF Levels, Body

\* A level looks at those below it, and at who answered there.
LEMMA BodyLooksDown ==
    ASSUME NEW links, NEW pages, NEW others, NEW f, NEW g, NEW k \in Nat,
           \A j \in Nat : j < k => f[j] = g[j] /\ f[j] \cap pages = f[j] \cap others
    PROVE  Body(links, pages, f, k) = Body(links, others, g, k)
<1>1. CASE k = 0
  BY <1>1 DEF Body
<1>2. CASE k # 0
  <2>1. f[k - 1] \cap pages = g[k - 1] \cap others
    BY <1>2
  <2>2. {f[j] : j \in 0 .. k - 1} = {g[j] : j \in 0 .. k - 1}
    BY <1>2
  <2>3. QED
    BY <1>2, <2>1, <2>2, Zenon DEF Body
<1>3. QED
  BY <1>1, <1>2

\* The equations of the levels have a solution.
LEMMA LevelsExist ==
    ASSUME NEW links, NEW pages, NEW n \in Nat
    PROVE  \E f : f = [k \in 0 .. n |-> Body(links, pages, f, k)]
<1> DEFINE Exists(m) == \E f : f = [k \in 0 .. m |-> Body(links, pages, f, k)]
           Bad == {m \in Nat : ~ Exists(m)}
<1>1. SUFFICES ASSUME Bad # {} PROVE FALSE
  OBVIOUS
<1>2. PICK m \in Bad : \A k \in Bad : m <= k
  <2> HIDE DEF Exists
  <2>1. QED
    BY <1>1, LeastExists
<1>3. m \in Nat /\ ~ Exists(m)
  OBVIOUS
<1>4. CASE m = 0
  <2> DEFINE f == [k \in 0 .. 0 |-> DOMAIN Seeds]
  <2>1. \A k \in 0 .. 0 : Body(links, pages, f, k) = f[k]
    BY DEF Body
  <2>2. f = [k \in 0 .. 0 |-> Body(links, pages, f, k)]
    BY <2>1
  <2>3. QED
    BY <1>3, <1>4, <2>2
<1>5. CASE m > 0
  <2>1. m - 1 \in Nat /\ m - 1 \notin Bad
    BY <1>2, <1>3, <1>5
  <2>2. PICK f : f = [k \in 0 .. m - 1 |-> Body(links, pages, f, k)]
    BY <2>1
  <2> DEFINE g == [k \in 0 .. m |-> IF k < m THEN f[k] ELSE Body(links, pages, f, m)]
  <2>3. \A j \in Nat : j < m => g[j] = f[j]
    BY <1>3
  <2>4. ASSUME NEW k \in 0 .. m
        PROVE  g[k] = Body(links, pages, g, k)
    <3>1. g[k] = Body(links, pages, f, k)
      <4>1. CASE k < m
        <5>1. f[k] = Body(links, pages, f, k)
          BY <1>3, <2>2, <4>1
        <5>2. QED
          BY <4>1, <5>1
      <4>2. CASE k = m
        BY <1>3, <4>2
      <4>3. QED
        BY <1>3, <4>1, <4>2
    <3>2. \A j \in Nat : j < k => f[j] = g[j] /\ f[j] \cap pages = f[j] \cap pages
      BY <1>3, <2>3
    <3>3. Body(links, pages, f, k) = Body(links, pages, g, k)
      <4> HIDE DEF g
      <4>1. QED
        BY <3>2, BodyLooksDown
    <3>4. QED
      BY <3>1, <3>3
  <2>5. g = [k \in 0 .. m |-> Body(links, pages, g, k)]
    <3>1. g = [k \in 0 .. m |-> g[k]]
      OBVIOUS
    <3>2. QED
      BY <2>4, <3>1, Zenon
  <2>6. QED
    BY <1>3, <2>5
<1>6. QED
  BY <1>3, <1>4, <1>5

\* Levels solves them.
LEMMA LevelIsNew ==
    ASSUME NEW links, NEW pages
    PROVE  \A k \in 0 .. Depths :
              Levels(links, pages)[k] = Body(links, pages, Levels(links, pages), k)
<1>1. Depths \in Nat
  BY ReconWebAssumption
<1>2. \E f : f = [k \in 0 .. Depths |-> Body(links, pages, f, k)]
  BY <1>1, LevelsExist
<1> DEFINE L == Levels(links, pages)
<1>3. L = [k \in 0 .. Depths |-> Body(links, pages, L, k)]
  BY <1>2, LevelsChosen, Zenon
<1> HIDE DEF L
<1>4. \A k \in 0 .. Depths : L[k] = Body(links, pages, L, k)
  BY <1>3, Zenon
<1>5. QED
  BY <1>4 DEF L

\* A page is on one level only.
LEMMA LevelsAreApart ==
    ASSUME NEW links, NEW pages, NEW i \in 0 .. Depths, NEW k \in 0 .. Depths, i < k
    PROVE  Levels(links, pages)[i] \cap Levels(links, pages)[k] = {}
<1> DEFINE L == Levels(links, pages)
<1>1. Depths \in Nat
  BY ReconWebAssumption
<1>2. L[k] = Body(links, pages, L, k)
  BY LevelIsNew
<1> HIDE DEF L
<1>3. i \in 0 .. k - 1 /\ k # 0
  BY <1>1
<1>4. L[k] \cap UNION {L[j] : j \in 0 .. k - 1} = {}
  <2> DEFINE near == UNION {L[j] : j \in 0 .. k - 1}
             next == UNION {links[p] : p \in L[k - 1] \cap pages}
  <2>1. L[k] = next \ near
    <3>1. k # 0
      BY <1>3
    <3>2. Body(links, pages, L, k) = next \ near
      BY <3>1, HigherBody, Zenon
    <3>3. QED
      BY <1>2, <3>2, Zenon
  <2> HIDE DEF near, next
  <2>2. L[k] \cap near = {}
    BY <2>1
  <2>3. QED
    BY <2>2 DEF near
<1>5. L[i] \subseteq UNION {L[j] : j \in 0 .. k - 1}
  BY <1>3
<1>6. QED
  BY <1>4, <1>5 DEF L

\* Levels depend on what the nearer pages answered, and on nothing else.
LEMMA LevelsLookDown ==
    ASSUME NEW links, NEW pages, NEW more, NEW d \in 0 .. Depths,
           \A j \in Nat : j < d =>
              Levels(links, pages)[j] \cap pages = Levels(links, pages)[j] \cap more
    PROVE  \A k \in 0 .. d : Levels(links, more)[k] = Levels(links, pages)[k]
<1> DEFINE L == Levels(links, pages)
           M == Levels(links, more)
           Bad == {k \in 0 .. d : M[k] # L[k]}
<1>1. d \in Nat /\ Depths \in Nat /\ d <= Depths
  BY ReconWebAssumption
<1>2. /\ \A k \in 0 .. Depths : L[k] = Body(links, pages, L, k)
      /\ \A k \in 0 .. Depths : M[k] = Body(links, more, M, k)
  BY LevelIsNew
<1>3. \A j \in Nat : j < d => L[j] \cap pages = L[j] \cap more
  OBVIOUS
<1> HIDE DEF L, M
<1>4. SUFFICES ASSUME Bad # {} PROVE FALSE
  BY DEF L, M
<1>5. PICK k \in Bad : \A j \in Bad : k <= j
  <2>1. Bad \in SUBSET Nat
    BY <1>1
  <2>2. QED
    BY <1>4, <2>1, LeastExists
<1>6. k \in 0 .. d /\ M[k] # L[k] /\ k \in 0 .. Depths /\ k \in Nat
  BY <1>1
<1>7. \A j \in Nat : j < k => L[j] = M[j] /\ L[j] \cap pages = L[j] \cap more
  BY <1>1, <1>3, <1>5, <1>6
<1>8. Body(links, pages, L, k) = Body(links, more, M, k)
  BY <1>6, <1>7, BodyLooksDown
<1>9. QED
  BY <1>2, <1>6, <1>8

\* Nothing is behind an empty level.
LEMMA NothingBehind ==
    ASSUME NEW links, NEW pages, NEW d \in 0 .. Depths, Levels(links, pages)[d] = {}
    PROVE  \A k \in d .. Depths : Levels(links, pages)[k] = {}
<1> DEFINE L == Levels(links, pages)
           Bad == {k \in d .. Depths : L[k] # {}}
<1>1. d \in Nat /\ Depths \in Nat
  BY ReconWebAssumption
<1>2. \A k \in 0 .. Depths : L[k] = Body(links, pages, L, k)
  BY LevelIsNew
<1>3. L[d] = {}
  OBVIOUS
<1> HIDE DEF L
<1>4. SUFFICES ASSUME Bad # {} PROVE FALSE
  BY DEF L
<1>5. PICK k \in Bad : \A j \in Bad : k <= j
  <2>1. Bad \in SUBSET Nat
    BY <1>1
  <2>2. QED
    BY <1>4, <2>1, LeastExists
<1>6. k \in d .. Depths /\ L[k] # {} /\ k # d
  BY <1>3
<1>7. k - 1 \in d .. Depths /\ ~ (k <= k - 1)
  BY <1>1, <1>6
<1>8. L[k - 1] = {}
  BY <1>5, <1>7
<1>9. k # 0 /\ k \in 0 .. Depths
  BY <1>1, <1>6
<1>10. L[k] = {}
  <2>1. UNION {links[p] : p \in L[k - 1] \cap pages} = {}
    BY <1>8
  <2>2. QED
    BY <1>2, <1>9, <2>1, Zenon DEF Body
<1>11. QED
  BY <1>6, <1>10

-----------------------------------------------------------------------------
(***************************************************************************)
(* The invariant: the types; where the lists of paths come from; who has   *)
(* been asked for; and how far the crawl is.                               *)
(***************************************************************************)
ReconTyped ==
    /\ site \in [Paths -> SUBSET Paths]
    /\ clock \in Nat /\ requests \in Nat /\ vhostWaves \in Nat
    /\ tool \in {"waiting", "answered", "killed", "refused", "cancelled"}
    /\ stage \in {"ports", "base", "vhosts", "crawl", "crawled", "sensitive", "done"}
    /\ baseline \in BOOLEAN /\ crawling \in BOOLEAN
    /\ depth \in 0 .. Depths
    /\ frontier \subseteq Paths /\ todo \subseteq Paths /\ linked \subseteq Paths
    /\ results \in [DOMAIN results -> {"page", "error"}]
    /\ DOMAIN results \subseteq Paths
    /\ asked \in [Paths -> Nat]

\* Where the lists of the crawl come from.
CrawlShape ==
    /\ stage \in {"ports", "base", "vhosts"} =>
          depth = 0 /\ frontier = {} /\ DOMAIN results = {} /\ linked = {}
    /\ crawling => stage = "crawl" /\ depth < Depths
    /\ stage \notin {"sensitive", "done"} /\ ~ crawling => todo = {}
    /\ stage = "crawl" /\ depth = 0 => frontier \subseteq DOMAIN Seeds /\ todo \subseteq DOMAIN Seeds
    /\ stage = "sensitive" => todo \subseteq DOMAIN SensitivePaths

\* asked for, by crawl or sensitive stage
Pages == {p \in Paths : asked[p] > 0}

(***************************************************************************)
(* Every path has been asked for once at most: those of the crawl are the  *)
(* ones with a result, and with those that are still to be asked for they  *)
(* fit into the budget.                                                    *)
(***************************************************************************)
Counted ==
    /\ \A p \in Pages : asked[p] = 1
    /\ DOMAIN results \subseteq Pages
    /\ stage \notin {"sensitive", "done"} => Pages = DOMAIN results
    /\ Pages \cap todo = {}
    /\ Cardinality(Pages \cup todo) <= MaxRequests
    /\ stage = "sensitive" /\ Pages # DOMAIN results => requests <= MaxRequests

\* those that answered, and the levels below d
Answered == {p \in DOMAIN results : results[p] = "page"}
Nearer(d) == UNION {Level[j] : j \in 0 .. d - 1}

(***************************************************************************)
(* No level is begun before those below it are complete.                   *)
(***************************************************************************)
Ascends ==
    \E e \in 0 .. Depths :
        /\ DOMAIN results \subseteq UNION {Level[j] : j \in 0 .. e}
        /\ \A j \in 0 .. e - 1 : Level[j] \subseteq DOMAIN results

(***************************************************************************)
(* Between two levels, as long as there is time and budget: all levels     *)
(* below are complete and the frontier is the next one.                    *)
(***************************************************************************)
AtLevel ==
    stage = "crawl" /\ ~ crawling /\ InTime /\ Budget > 0 =>
        /\ DOMAIN results = Nearer(depth)
        /\ depth < Depths => frontier = Level[depth] /\ linked = {}

(***************************************************************************)
(* Inside one: what has a result is the levels below and a part of this    *)
(* one, what is still to be asked for is the rest of it - all of the rest  *)
(* unless the budget is used up - and the pages whose links will be taken  *)
(* are those of this level that answered.                                  *)
(***************************************************************************)
InLevel ==
    crawling =>
        /\ Nearer(depth) \subseteq DOMAIN results
        /\ DOMAIN results \subseteq Nearer(depth) \cup Level[depth]
        /\ todo \subseteq Level[depth] \ DOMAIN results
        /\ linked = Level[depth] \cap Answered
        /\ \/ Level[depth] \subseteq DOMAIN results \cup todo
           \/ Cardinality(DOMAIN results \cup todo) >= MaxRequests

-----------------------------------------------------------------------------
\* A list has every path at a place of its own.
LEMMA ListOrder ==
    ASSUME NEW S, S \subseteq DOMAIN Places
    PROVE  /\ S \subseteq Paths /\ IsFiniteSet(S)
           /\ \A p \in S : Places[p] \in Nat
           /\ \A p, q \in S : Places[p] = Places[q] => p = q
<1> DEFINE Order(list) == /\ DOMAIN list \subseteq Paths
                          /\ \A p \in DOMAIN list : list[p] \in Nat
                          /\ \A p, q \in DOMAIN list : list[p] = list[q] => p = q
<1>1. Order(Seeds)
  BY ReconWebAssumption DEF IsInjective
<1>2. Order(SensitivePaths)
  BY ReconWebAssumption DEF IsInjective
<1>3. Order([p \in Paths |-> p])
  BY ReconWebAssumption
<1>4. Order(Places)
  BY <1>1, <1>2, <1>3 DEF Places
<1>5. S \subseteq Paths
  BY <1>4
<1>6. IsFiniteSet(S)
  BY <1>5, ReconWebAssumption, FS_Subset
<1>7. QED
  BY <1>4, <1>5, <1>6

LEMMA FirstSize ==
    ASSUME NEW S, S \subseteq DOMAIN Places, NEW n \in Nat
    PROVE  /\ First(n, S) \subseteq S /\ IsFiniteSet(First(n, S))
           /\ Cardinality(First(n, S)) \in Nat /\ Cardinality(First(n, S)) <= n
           /\ S \ First(n, S) # {} => Cardinality(First(n, S)) = n
<1>1. First(n, S) = FirstBy(Places, n, S)
  BY DEF First, FirstBy
<1>2. /\ IsFiniteSet(S)
      /\ \A p \in S : Places[p] \in Nat
      /\ \A p, q \in S : Places[p] = Places[q] => p = q
  BY ListOrder
<1>3. /\ FirstBy(Places, n, S) \subseteq S /\ IsFiniteSet(FirstBy(Places, n, S))
      /\ Cardinality(FirstBy(Places, n, S)) \in Nat
      /\ Cardinality(FirstBy(Places, n, S)) <= n
      /\ S \ FirstBy(Places, n, S) # {} => Cardinality(FirstBy(Places, n, S)) = n
  BY <1>2, FirstBySize
<1>4. QED
  BY <1>1, <1>3

LEMMA FirstIsPart == \A n, S : First(n, S) \subseteq S
BY DEF First

LEMMA ReconTypedInit == ReconInit => ReconTyped /\ CrawlShape
<1> SUFFICES ASSUME ReconInit PROVE ReconTyped /\ CrawlShape
  OBVIOUS
<1> USE DEF ReconInit
<1>1. /\ Depths \in Nat /\ VhostWaves \in Nat
      /\ site \in [Paths -> SUBSET Paths]
  BY ReconWebAssumption
<1>2. DOMAIN results = {} /\ results \in [DOMAIN results -> {"page", "error"}]
  OBVIOUS
<1>3. asked \in [Paths -> Nat]
  OBVIOUS
<1>4. /\ clock = 0 /\ requests = 0 /\ depth = 0 /\ vhostWaves = VhostWaves
      /\ tool = "waiting" /\ stage = "ports" /\ ~ baseline /\ ~ crawling
      /\ baseline \in BOOLEAN /\ crawling \in BOOLEAN
      /\ frontier = {} /\ todo = {} /\ linked = {}
  OBVIOUS
<1>5. CrawlShape
  BY <1>2, <1>4 DEF CrawlShape
<1> HIDE DEF ReconInit
<1>7. DOMAIN results \subseteq Paths
  BY <1>2
<1>8. ReconTyped
  BY <1>1, <1>2, <1>3, <1>4, <1>7 DEF ReconTyped
<1>6. QED
  BY <1>5, <1>8

LEMMA TakesTime ==
    ASSUME clock \in Nat, NEW most, Takes(most)
    PROVE  clock' \in Nat /\ clock <= clock'
BY DEF Takes

LEMMA NewOfIsPart == \A S : NewOf(S) \subseteq S \ DOMAIN results
BY FirstIsPart DEF NewOf

LEMMA ReconTypedStep ==
    ReconTyped /\ CrawlShape /\ [ReconNext]_reconVars => (ReconTyped /\ CrawlShape)'
<1> SUFFICES ASSUME ReconTyped, CrawlShape, [ReconNext]_reconVars
             PROVE  (ReconTyped /\ CrawlShape)'
  OBVIOUS
<1> USE DEF ReconTyped, CrawlShape
<1>1. CASE ScanPorts
  <2>1. clock' \in Nat
    <3>1. PortsTime \in Nat
      BY ReconWebAssumption
    <3>2. QED
      BY <1>1, <3>1 DEF ScanPorts
  <2>2. QED
    BY <1>1, <2>1 DEF ScanPorts, Runs, crawlVars, countVars
<1>2. CASE ProbeBase
  <2>1. clock' \in Nat
    BY <1>2, TakesTime DEF ProbeBase
  <2>2. QED
    BY <1>2, <2>1 DEF ProbeBase, Runs, crawlVars
<1>3. CASE ProbeVhosts
  <2>1. clock' \in Nat
    BY <1>3, TakesTime DEF ProbeVhosts
  <2>2. QED
    BY <1>3, <2>1 DEF ProbeVhosts, MoreVhosts, Runs, crawlVars, countVars
<1>4. CASE LeaveVhosts
  <2>1. DOMAIN Seeds \subseteq Paths
    BY ReconWebAssumption
  <2>2. QED
    BY <1>4, <2>1 DEF LeaveVhosts, Runs, countVars
<1>5. CASE BeginLevel
  <2>1. todo' \subseteq frontier /\ depth < Depths
    BY <1>5, NewOfIsPart DEF BeginLevel, MoreLevels
  <2>2. QED
    BY <1>5, <2>1 DEF BeginLevel, Runs, countVars
<1>6. CASE CrawlWave
  <2> DEFINE wave == First(WaveSize, todo)
  <2>1. clock' \in Nat
    BY <1>6, TakesTime DEF CrawlWave
  <2>2. wave \subseteq todo
    BY FirstIsPart
  <2>3. IsFiniteSet(wave) /\ Cardinality(wave) \in Nat
    BY <2>2, ReconWebAssumption, FS_Subset, FS_CardinalityType
  <2> HIDE DEF wave
  <2>4. requests' \in Nat /\ asked' \in [Paths -> Nat]
    BY <1>6, <2>3 DEF CrawlWave, Ask, wave
  <2>5. PICK failed \in SUBSET wave :
           /\ results' = [p \in DOMAIN results \cup wave |->
                            IF p \in failed THEN "error"
                            ELSE IF p \in wave THEN "page" ELSE results[p]]
           /\ linked' = linked \cup (wave \ failed)
    BY <1>6 DEF CrawlWave, wave
  <2>6. /\ DOMAIN results' = DOMAIN results \cup wave
        /\ results' \in [DOMAIN results' -> {"page", "error"}]
    BY <2>5
  <2>7. /\ todo' \subseteq todo /\ stage = "crawl" /\ crawling
        /\ UNCHANGED <<site, tool, stage, baseline, vhostWaves, depth, frontier, crawling>>
    BY <1>6 DEF CrawlWave, Runs
  <2>8. QED
    BY <2>1, <2>2, <2>4, <2>5, <2>6, <2>7
<1>7. CASE EndLevel
  <2>1. (UNION {site[p] : p \in linked}) \subseteq Paths
    OBVIOUS
  <2>2. Depths \in Nat
    BY ReconWebAssumption
  <2>3. depth < Depths /\ stage = "crawl" /\ depth' = depth + 1
    BY <1>7 DEF EndLevel, Runs
  <2>4. depth' \in 0 .. Depths /\ depth' # 0
    BY <2>2, <2>3
  <2>5. frontier' \subseteq Paths /\ linked' \subseteq Paths
    BY <1>7, <2>1 DEF EndLevel
  <2>6. QED
    BY <1>7, <2>3, <2>4, <2>5 DEF EndLevel, countVars
<1>8. CASE LeaveCrawl
  BY <1>8 DEF LeaveCrawl, Runs, crawlVars, countVars
<1>9. CASE BeginSensitive
  <2>1. NewOf(DOMAIN SensitivePaths) \subseteq DOMAIN SensitivePaths
    BY NewOfIsPart
  <2>2. DOMAIN SensitivePaths \subseteq Paths
    BY ReconWebAssumption
  <2>3. QED
    BY <1>9, <2>1, <2>2 DEF BeginSensitive, Runs, countVars
<1>10. CASE SensitiveWave
  <2>1. clock' \in Nat
    BY <1>10, TakesTime DEF SensitiveWave
  <2>2. SensitivePart \subseteq todo
    BY FirstIsPart DEF SensitivePart
  <2>3. IsFiniteSet(SensitivePart) /\ Cardinality(SensitivePart) \in Nat
    BY <2>2, ReconWebAssumption, FS_Subset, FS_CardinalityType
  <2>4. requests' \in Nat /\ asked' \in [Paths -> Nat]
    BY <1>10, <2>3 DEF SensitiveWave, Ask
  <2>5. QED
    BY <1>10, <2>1, <2>4 DEF SensitiveWave, Runs
<1>11. CASE LeaveSensitive
  BY <1>11 DEF LeaveSensitive, Runs, crawlVars, countVars
<1>12. CASE Refuse \/ Answer \/ KillScript \/ Cancel
  BY <1>12 DEF Refuse, Answer, KillScript, Cancel, scriptVars, crawlVars, countVars, Runs
<1>13. CASE UNCHANGED reconVars
  BY <1>13 DEF reconVars, crawlVars, countVars
<1>14. QED
  BY <1>1, <1>2, <1>3, <1>4, <1>5, <1>6, <1>7, <1>8, <1>9, <1>10, <1>11, <1>12, <1>13
     DEF ReconNext, Script, CallOver

-----------------------------------------------------------------------------
(***************************************************************************)
(* Time: after the base probe a wave begins before the deadline, and no    *)
(* timeout is longer than what was left then.                              *)
(***************************************************************************)
LEMMA OperationsTake ==
    ASSUME NEW h \in Nat, NEW a \in Nat, NEW b \in Nat, a <= b
    PROVE  h * a <= h * b
OBVIOUS

LEMMA LaterBy ==
    ASSUME NEW x \in Int, NEW y \in Int, NEW a \in Int, NEW b \in Int, y <= x + a, a <= b
    PROVE  y - x <= b
OBVIOUS

LEMMA TimeoutFits ==
    ASSUME clock \in Nat, clock < Deadline, NEW most \in Nat
    PROVE  Timeout(most) \in Nat /\ TimeLeft \in Nat /\ Timeout(most) <= TimeLeft
<1>1. Deadline \in Nat /\ MinTimeout \in Nat
  BY ReconWebAssumption
<1>2. QED
  BY <1>1 DEF Timeout, TimeLeft, Least

LEMMA WaveFits ==
    ASSUME clock \in Nat, clock < Deadline, NEW most \in Nat, Takes(most)
    PROVE  clock' - clock <= MaxOperations * TimeLeft
<1>1. Timeout(most) \in Nat /\ TimeLeft \in Nat /\ Timeout(most) <= TimeLeft
  BY TimeoutFits
<1>2. MaxOperations \in Nat
  BY ReconWebAssumption
<1>3. MaxOperations * Timeout(most) <= MaxOperations * TimeLeft
  BY <1>1, <1>2, OperationsTake
<1>4. MaxOperations * Timeout(most) \in Int /\ MaxOperations * TimeLeft \in Int
  BY <1>1, <1>2
<1>5. clock' \in Int /\ clock' <= clock + MaxOperations * Timeout(most)
  BY <1>4 DEF Takes
<1>6. QED
  BY <1>3, <1>4, <1>5, LaterBy

LEMMA OverrunStep ==
    ReconTyped /\ [ReconNext]_reconVars =>
        (stage \notin {"ports", "base"} /\ clock' > Deadline /\ clock' # clock =>
            clock < Deadline /\ clock' - clock <= MaxOperations * TimeLeft)
<1> SUFFICES ASSUME ReconTyped, [ReconNext]_reconVars,
                    stage \notin {"ports", "base"}, clock' # clock
             PROVE  clock < Deadline /\ clock' - clock <= MaxOperations * TimeLeft
  OBVIOUS
<1>1. clock \in Nat /\ PageTimeout \in Nat /\ VhostTimeout \in Nat
  BY ReconWebAssumption DEF ReconTyped
<1>2. CASE ProbeVhosts
  BY <1>1, <1>2, WaveFits DEF ProbeVhosts, MoreVhosts, InTime
<1>3. CASE CrawlWave \/ SensitiveWave
  BY <1>1, <1>3, WaveFits DEF CrawlWave, SensitiveWave, MoreSensitive, InTime
<1>4. CASE ScanPorts \/ ProbeBase
  BY <1>4 DEF ScanPorts, ProbeBase, Runs
<1>5. CASE ReconNext \/ UNCHANGED reconVars
  BY <1>2, <1>3, <1>4, <1>5 DEF ReconNext, Script, LeaveVhosts, BeginLevel, EndLevel,
     LeaveCrawl, BeginSensitive, LeaveSensitive, Refuse, Answer, KillScript, Cancel, CallOver,
     scriptVars, reconVars
<1>6. QED
  BY <1>5

LEMMA ReconIsTyped == ReconSpec => [](ReconTyped /\ CrawlShape)
<1>1. ReconInit => ReconTyped /\ CrawlShape
  BY ReconTypedInit
<1>2. (ReconTyped /\ CrawlShape) /\ [ReconNext]_reconVars => (ReconTyped /\ CrawlShape)'
  BY ReconTypedStep
<1>3. QED
  BY <1>1, <1>2, PTL DEF ReconSpec

(***************************************************************************)
(* Only a wave that began before the deadline ends behind it, and none of  *)
(* its operations waits longer than what was left then: the clamped        *)
(* timeouts of recon_web and the deadline checks between its waves.  It    *)
(* holds for any number of operations, so it bounds no wave in seconds.    *)
(***************************************************************************)
THEOREM OneWaveOverruns == ReconSpec => OverrunIsOneWave
<1>1. ReconTyped /\ [ReconNext]_reconVars =>
        [stage \notin {"ports", "base"} /\ clock' > Deadline /\ clock' # clock =>
            clock < Deadline /\ clock' - clock <= MaxOperations * TimeLeft]_reconVars
  BY OverrunStep
<1>2. QED
  BY <1>1, ReconIsTyped, PTL DEF ReconSpec, OverrunIsOneWave

-----------------------------------------------------------------------------

(***************************************************************************)
(* The budget of the crawl and the sensitive stage.                        *)
(***************************************************************************)
LEMMA CountedInit == ReconInit => Counted
<1> SUFFICES ASSUME ReconInit PROVE Counted
  OBVIOUS
<1>1. Pages = {} /\ DOMAIN results = {} /\ todo = {} /\ stage = "ports"
  BY DEF ReconInit, Pages
<1>2. Cardinality(Pages \cup todo) = 0
  BY <1>1, FS_EmptySet
<1>3. MaxRequests \in Nat
  BY ReconWebAssumption
<1>4. QED
  BY <1>1, <1>2, <1>3 DEF Counted

LEMMA BudgetSize ==
    ReconTyped => Budget \in Nat /\ Cardinality(DOMAIN results) \in Nat
<1> SUFFICES ASSUME ReconTyped PROVE Budget \in Nat /\ Cardinality(DOMAIN results) \in Nat
  OBVIOUS
<1>1. Cardinality(DOMAIN results) \in Nat /\ MaxRequests \in Nat
  BY ReconWebAssumption, FS_Subset, FS_CardinalityType DEF ReconTyped
<1>2. QED
  BY <1>1 DEF Budget

\* New paths fit into the budget, and only the budget cuts them off.
LEMMA NewOfFits ==
    ASSUME ReconTyped, NEW S, S \subseteq DOMAIN Places,
           Cardinality(DOMAIN results) <= MaxRequests
    PROVE  /\ Cardinality(DOMAIN results \cup NewOf(S)) <= MaxRequests
           /\ \/ S \subseteq DOMAIN results \cup NewOf(S)
              \/ Cardinality(DOMAIN results \cup NewOf(S)) >= MaxRequests
<1> DEFINE new == S \ DOMAIN results
           part == First(Budget, new)
           asking == DOMAIN results
<1>1. Budget \in Nat /\ Cardinality(asking) \in Nat /\ MaxRequests \in Nat
  BY BudgetSize, ReconWebAssumption
<1>2. /\ part \subseteq new /\ IsFiniteSet(part)
      /\ Cardinality(part) \in Nat /\ Cardinality(part) <= Budget
      /\ new \ part # {} => Cardinality(part) = Budget
  BY <1>1, FirstSize
<1>3. IsFiniteSet(asking) /\ asking \cap new = {}
  BY ReconWebAssumption, FS_Subset DEF ReconTyped
<1>4. Cardinality(asking) + Budget = MaxRequests
  BY <1>1 DEF Budget
<1>5. NewOf(S) = part
  BY DEF NewOf
<1>6. S \subseteq asking \cup new
  OBVIOUS
<1> HIDE DEF new, part, asking
<1>7. asking \cap part = {}
  BY <1>2, <1>3
<1>8. Cardinality(asking \cup part) = Cardinality(asking) + Cardinality(part)
  <2>1. Cardinality(asking \cup part) =
           Cardinality(asking) + Cardinality(part) - Cardinality(asking \cap part)
    BY <1>2, <1>3, FS_Union
  <2>2. Cardinality(asking \cap part) = 0
    BY <1>7, FS_EmptySet
  <2>3. QED
    BY <1>1, <1>2, <2>1, <2>2
<1>9. Cardinality(asking \cup part) <= MaxRequests
  BY <1>1, <1>2, <1>4, <1>8
<1>10. new \ part # {} => Cardinality(asking \cup part) >= MaxRequests
  BY <1>1, <1>2, <1>4, <1>8
<1>11. new \ part = {} => S \subseteq asking \cup part
  BY <1>6
<1>12. QED
  BY <1>5, <1>9, <1>10, <1>11 DEF asking

LEMMA ShrinksWithin ==
    ASSUME NEW S, NEW T, S \subseteq T, T \subseteq Paths, Cardinality(T) <= MaxRequests
    PROVE  Cardinality(S) <= MaxRequests
<1>1. IsFiniteSet(T) /\ MaxRequests \in Nat
  BY ReconWebAssumption, FS_Subset
<1>2. IsFiniteSet(S) /\ Cardinality(S) <= Cardinality(T)
  BY <1>1, FS_Subset
<1>3. Cardinality(S) \in Nat /\ Cardinality(T) \in Nat
  BY <1>1, <1>2, FS_CardinalityType
<1>4. QED
  BY <1>1, <1>2, <1>3

LEMMA CountedStep ==
    ReconTyped /\ CrawlShape /\ Counted /\ [ReconNext]_reconVars => Counted'
<1> SUFFICES ASSUME ReconTyped, CrawlShape, Counted, [ReconNext]_reconVars
             PROVE  Counted'
  OBVIOUS
<1>1. CASE UNCHANGED <<requests, asked, results, todo>> /\ (stage' = "sensitive" => stage = "sensitive")
           /\ (stage \in {"sensitive", "done"} => stage' \in {"sensitive", "done"})
  <2>1. Pages' = Pages
    BY <1>1 DEF Pages
  <2>2. stage' \notin {"sensitive", "done"} => stage \notin {"sensitive", "done"}
    BY <1>1
  <2>3. QED
    BY <1>1, <2>1, <2>2 DEF Counted
<1>2. CASE ProbeBase
  <2>1. Pages' = Pages
    BY <1>2 DEF Pages, ProbeBase
  <2>2. QED
    BY <1>2, <2>1 DEF Counted, ProbeBase, Runs, crawlVars
<1>3. CASE BeginLevel
  <2>1. Pages' = Pages /\ Pages = DOMAIN results /\ todo' = NewOf(frontier)
    BY <1>3 DEF Pages, BeginLevel, countVars, Counted, Runs
  <2>2. frontier \subseteq DOMAIN Places
    BY <1>3 DEF BeginLevel, Runs, CrawlShape, ReconTyped, Places
  <2>3. Cardinality(DOMAIN results) <= MaxRequests
    <3>1. Pages \subseteq Pages \cup todo /\ Pages \cup todo \subseteq Paths
      BY DEF ReconTyped, Pages
    <3>2. QED
      BY <2>1, <3>1, ShrinksWithin DEF Counted
  <2>4. Cardinality(DOMAIN results \cup NewOf(frontier)) <= MaxRequests
    BY <2>2, <2>3, NewOfFits
  <2>5. NewOf(frontier) \cap DOMAIN results = {}
    BY NewOfIsPart
  <2>6. QED
    BY <1>3, <2>1, <2>4, <2>5 DEF Counted, BeginLevel, Runs, countVars
<1>4. CASE CrawlWave
  <2> DEFINE wave == First(WaveSize, todo)
  <2>1. wave \subseteq todo /\ todo \subseteq Paths
    BY FirstIsPart DEF ReconTyped
  <2> HIDE DEF wave
  <2>2. /\ asked' = [p \in Paths |-> IF p \in wave THEN asked[p] + 1 ELSE asked[p]]
        /\ todo' = todo \ wave /\ stage = "crawl" /\ stage' = stage
    BY <1>4 DEF CrawlWave, Ask, wave, Runs
  <2>3. DOMAIN results' = DOMAIN results \cup wave
    BY <1>4 DEF CrawlWave, wave
  <2>4. Pages' = Pages \cup wave
    BY <2>1, <2>2 DEF Pages, ReconTyped
  <2>5. \A p \in wave : asked[p] = 0
    BY <2>1 DEF Counted, Pages, ReconTyped
  <2>6. \A p \in Pages' : asked'[p] = 1
    <3>1. ASSUME NEW p \in Pages' PROVE asked'[p] = 1
      <4>1. p \in Paths /\ asked'[p] = IF p \in wave THEN asked[p] + 1 ELSE asked[p]
        BY <2>2 DEF Pages
      <4>2. QED
        BY <2>4, <2>5, <4>1 DEF Counted
    <3>2. QED
      BY <3>1
  <2>7. Pages' \cup todo' = Pages \cup todo
    BY <2>1, <2>2, <2>4
  <2>8. Pages = DOMAIN results /\ Pages \cap todo = {}
    BY <2>2 DEF Counted
  <2>9. Pages' = DOMAIN results' /\ Pages' \cap todo' = {}
    BY <2>2, <2>3, <2>4, <2>8
  <2>10. Cardinality(Pages' \cup todo') <= MaxRequests
    BY <2>7 DEF Counted
  <2>11. QED
    BY <2>2, <2>6, <2>9, <2>10 DEF Counted
<1>5. CASE EndLevel
  <2>1. Pages' = Pages /\ todo' = {} /\ stage = "crawl" /\ stage' = stage /\ results' = results
    BY <1>5 DEF Pages, EndLevel, countVars, Runs
  <2>2. Pages' \cup todo' \subseteq Pages \cup todo /\ Pages \cup todo \subseteq Paths
    BY <2>1 DEF ReconTyped, Pages
  <2>3. Cardinality(Pages' \cup todo') <= MaxRequests
    BY <2>2, ShrinksWithin DEF Counted
  <2>4. asked' = asked
    BY <1>5 DEF EndLevel, countVars
  <2>5. QED
    BY <2>1, <2>3, <2>4 DEF Counted
<1>6. CASE BeginSensitive
  <2>1. Pages' = Pages /\ results' = results /\ asked' = asked /\ stage = "crawled"
    BY <1>6 DEF Pages, BeginSensitive, countVars, Runs
  <2>2. Pages = DOMAIN results
    BY <2>1 DEF Counted
  <2>3. CASE stage' = "done" /\ todo' = todo
    BY <2>1, <2>2, <2>3 DEF Counted
  <2>4. CASE stage' = "sensitive" /\ todo' = NewOf(DOMAIN SensitivePaths)
    <3>1. DOMAIN SensitivePaths \subseteq DOMAIN Places
      BY <2>1 DEF Places
    <3>2. Cardinality(DOMAIN results) <= MaxRequests
      <4>1. Pages \subseteq Pages \cup todo /\ Pages \cup todo \subseteq Paths
        BY DEF ReconTyped, Pages
      <4>2. QED
        BY <2>2, <4>1, ShrinksWithin DEF Counted
    <3>3. Cardinality(DOMAIN results \cup todo') <= MaxRequests
      BY <2>4, <3>1, <3>2, NewOfFits
    <3>4. todo' \cap DOMAIN results = {}
      BY <2>4, NewOfIsPart
    <3>5. QED
      BY <2>1, <2>2, <2>4, <3>3, <3>4 DEF Counted
  <2>5. QED
    BY <1>6, <2>3, <2>4 DEF BeginSensitive
<1>7. CASE SensitiveWave
  <2> DEFINE wave == SensitivePart
  <2>1. /\ wave \subseteq todo /\ todo \subseteq Paths
        /\ wave \subseteq First(WaveSize, todo) /\ First(WaveSize, todo) \subseteq todo
    <3>1. todo \subseteq Paths /\ First(WaveSize, todo) \subseteq todo
      BY FirstIsPart DEF ReconTyped
    <3>2. \A p \in todo : Cardinality({q \in todo : Places[q] < Places[p]}) \in Nat
      BY <3>1, ReconWebAssumption, FS_Subset, FS_CardinalityType
    <3>3. WaveSize \in Nat /\ MaxRequests - requests \in Int
      BY ReconWebAssumption DEF ReconTyped
    <3>4. Least(WaveSize, MaxRequests - requests) \in Int
          /\ Least(WaveSize, MaxRequests - requests) <= WaveSize
      BY <3>3 DEF Least
    <3>5. \A p \in todo :
             Cardinality({q \in todo : Places[q] < Places[p]}) <
                Least(WaveSize, MaxRequests - requests) =>
             Cardinality({q \in todo : Places[q] < Places[p]}) < WaveSize
      BY <3>2, <3>3, <3>4
    <3>6. wave \subseteq First(WaveSize, todo)
      BY <3>5 DEF SensitivePart, First
    <3>7. QED
      BY <3>1, <3>6
  <2>2. Cardinality(wave) \in Nat /\ requests + Cardinality(wave) <= MaxRequests
    <3>1. todo \subseteq DOMAIN Places
      BY <1>7 DEF SensitiveWave, Runs, CrawlShape, Places
    <3>2. requests < MaxRequests /\ requests \in Nat /\ MaxRequests \in Nat /\ WaveSize \in Nat
      BY <1>7, ReconWebAssumption DEF SensitiveWave, MoreSensitive, ReconTyped
    <3>3. Least(WaveSize, MaxRequests - requests) \in Nat
          /\ Least(WaveSize, MaxRequests - requests) <= MaxRequests - requests
      BY <3>2 DEF Least
    <3>4. Cardinality(wave) \in Nat
          /\ Cardinality(wave) <= Least(WaveSize, MaxRequests - requests)
      BY <3>1, <3>3, FirstSize DEF SensitivePart
    <3>5. QED
      BY <3>2, <3>3, <3>4
  <2> HIDE DEF wave
  <2>3. /\ asked' = [p \in Paths |-> IF p \in wave THEN asked[p] + 1 ELSE asked[p]]
        /\ requests' = requests + Cardinality(wave)
        /\ todo' = todo \ First(WaveSize, todo)
        /\ stage = "sensitive" /\ stage' = stage /\ results' = results
    BY <1>7 DEF SensitiveWave, Ask, wave, Runs
  <2>4. Pages' = Pages \cup wave
    BY <2>1, <2>3 DEF Pages, ReconTyped
  <2>5. \A p \in wave : asked[p] = 0
    BY <2>1 DEF Counted, Pages, ReconTyped
  <2>6. \A p \in Pages' : asked'[p] = 1
    <3>1. ASSUME NEW p \in Pages' PROVE asked'[p] = 1
      <4>1. p \in Paths /\ asked'[p] = IF p \in wave THEN asked[p] + 1 ELSE asked[p]
        BY <2>3 DEF Pages
      <4>2. QED
        BY <2>4, <2>5, <4>1 DEF Counted
    <3>2. QED
      BY <3>1
  <2>7. Pages' \cup todo' \subseteq Pages \cup todo /\ Pages \cup todo \subseteq Paths
    BY <2>1, <2>3, <2>4 DEF Pages, ReconTyped
  <2>8. Pages' \cap todo' = {}
    <3>1. Pages \cap todo = {}
      BY DEF Counted
    <3>2. QED
      BY <2>1, <2>3, <2>4, <3>1
  <2>9. Cardinality(Pages' \cup todo') <= MaxRequests
    BY <2>7, ShrinksWithin DEF Counted
  <2>10. DOMAIN results' \subseteq Pages'
    BY <2>3, <2>4 DEF Counted
  <2>11. QED
    BY <2>2, <2>3, <2>6, <2>8, <2>9, <2>10 DEF Counted
<1>8. CASE ScanPorts \/ ProbeVhosts \/ LeaveVhosts \/ LeaveCrawl \/ LeaveSensitive
           \/ Refuse \/ Answer \/ KillScript \/ Cancel \/ UNCHANGED reconVars
  BY <1>1, <1>8 DEF ScanPorts, ProbeVhosts, LeaveVhosts, LeaveCrawl, LeaveSensitive,
     Refuse, Answer, KillScript, Cancel, Runs, scriptVars, reconVars, crawlVars, countVars
<1>9. QED
  BY <1>2, <1>3, <1>4, <1>5, <1>6, <1>7, <1>8 DEF ReconNext, Script, CallOver

LEMMA ReconIsCounted == ReconSpec => []Counted
<1>1. ReconInit => Counted
  BY CountedInit
<1>2. ReconTyped /\ CrawlShape /\ Counted /\ [ReconNext]_reconVars => Counted'
  BY CountedStep
<1>3. QED
  BY <1>1, <1>2, ReconIsTyped, PTL DEF ReconSpec

(***************************************************************************)
(* Crawl and sensitive stage together ask for MAX_REQUESTS paths at most,  *)
(* and for none of them twice (recon_web's budget and its two cut-offs).   *)
(***************************************************************************)
THEOREM CrawlStaysWithinBudget == ReconSpec => []WithinBudget
<1>1. ReconTyped /\ Counted => WithinBudget
  <2>1. SUFFICES ASSUME ReconTyped, Counted PROVE WithinBudget
    OBVIOUS
  <2>2. Pages \subseteq Pages \cup todo /\ Pages \cup todo \subseteq Paths
    BY <2>1 DEF ReconTyped, Pages
  <2>3. Cardinality(Pages) <= MaxRequests
    BY <2>1, <2>2, ShrinksWithin DEF Counted
  <2>4. QED
    BY <2>1, <2>3 DEF WithinBudget, Counted, Pages
<1>2. QED
  BY <1>1, ReconIsTyped, ReconIsCounted, PTL

-----------------------------------------------------------------------------
(***************************************************************************)
(* The order of the crawl. A wave adds answers on the level it is on, so   *)
(* this level and those below it stay what they were; the levels beyond it *)
(* change with every answer, but no page of theirs has been asked for.     *)
(***************************************************************************)
BreadthFirst == Ascends /\ AtLevel /\ InLevel

LEMMA NearerLevels ==
    ASSUME NEW d \in 0 .. Depths
    PROVE  /\ \A x : x \in Nearer(d) <=> \E j \in 0 .. d - 1 : x \in Level[j]
           /\ Nearer(d) \cap Level[d] = {}
           /\ \A k \in 0 .. d - 1 : Level[k] \subseteq Nearer(d)
           /\ d + 1 <= Depths => Nearer(d + 1) = Nearer(d) \cup Level[d]
<1>1. \A j \in 0 .. d - 1 : Level[j] \cap Level[d] = {}
  <2>1. ASSUME NEW j \in 0 .. d - 1 PROVE Level[j] \cap Level[d] = {}
    <3>1. j \in 0 .. Depths /\ j < d
      BY ReconWebAssumption
    <3>2. QED
      BY <3>1, LevelsAreApart, Zenon DEF Level
  <2>2. QED
    BY <2>1
<1>2. \A x : x \in Nearer(d) <=> \E j \in 0 .. d - 1 : x \in Level[j]
  BY DEF Nearer
<1>3. Nearer(d) \cap Level[d] = {}
  BY <1>1, <1>2
<1>4. ASSUME d + 1 <= Depths PROVE Nearer(d + 1) = Nearer(d) \cup Level[d]
  <2>1. d \in Nat
    BY ReconWebAssumption
  <2>2. \A x : x \in Nearer(d + 1) <=> \E j \in 0 .. d : x \in Level[j]
    BY <2>1 DEF Nearer
  <2>3. 0 .. d = (0 .. d - 1) \cup {d}
    BY <2>1
  <2>4. \A x : x \in Nearer(d + 1) <=> x \in Nearer(d) \/ x \in Level[d]
    BY <1>2, <2>2, <2>3
  <2>5. QED
    BY <2>4
<1>5. QED
  BY <1>2, <1>3, <1>4

\* The part of a level that is there when its links are taken.
LEMMA LinksAreNextLevel ==
    ASSUME NEW d \in 0 .. Depths, d + 1 <= Depths
    PROVE  Level[d + 1] = (UNION {site[p] : p \in Level[d] \cap Answered}) \ Nearer(d + 1)
<1>1. d + 1 \in 0 .. Depths /\ d + 1 # 0 /\ (d + 1) - 1 = d
  BY ReconWebAssumption
<1>2. Level[d + 1] = Body(site, Answered, Level, d + 1)
  BY <1>1, LevelIsNew, Zenon DEF Level, Answered
<1>3. Body(site, Answered, Level, d + 1) =
         (UNION {site[p] : p \in Level[(d + 1) - 1] \cap Answered})
         \ (UNION {Level[j] : j \in 0 .. (d + 1) - 1})
  <2>1. d + 1 # 0
    BY <1>1
  <2>2. QED
    BY <2>1, Zenon DEF Body
<1>4. QED
  BY <1>1, <1>2, <1>3, Zenon DEF Nearer

LEMMA FirstLevel == Level[0] = DOMAIN Seeds
<1>1. 0 \in 0 .. Depths
  BY ReconWebAssumption
<1>2. Level[0] = Body(site, Answered, Level, 0)
  BY <1>1, LevelIsNew, Zenon DEF Level, Answered
<1>3. QED
  BY <1>2 DEF Body

LEMMA BreadthFirstInit == ReconInit => BreadthFirst
<1> SUFFICES ASSUME ReconInit PROVE BreadthFirst
  OBVIOUS
<1>1. DOMAIN results = {} /\ ~ crawling /\ stage = "ports" /\ 0 \in 0 .. Depths
  BY ReconWebAssumption DEF ReconInit
<1>2. \A j \in 0 .. 0 - 1 : Level[j] \subseteq DOMAIN results
  OBVIOUS
<1>3. Ascends
  BY <1>1, <1>2 DEF Ascends
<1>4. QED
  BY <1>1, <1>3 DEF BreadthFirst, AtLevel, InLevel

\* Whoever leaves the site and the answers alone leaves the levels.
LEMMA LevelsStay ==
    ASSUME site' = site, results' = results
    PROVE  /\ Level' = Level /\ Budget' = Budget /\ Answered' = Answered
           /\ \A d : Nearer(d)' = Nearer(d)
           /\ Ascends => Ascends'
<1>1. Level' = Level
  BY DEF Level
<1>2. Budget' = Budget /\ Answered' = Answered
  BY DEF Budget, Answered
<1>3. \A d : Nearer(d)' = Nearer(d)
  BY <1>1 DEF Nearer
<1>4. Ascends => Ascends'
  BY <1>1 DEF Ascends
<1>5. QED
  BY <1>1, <1>2, <1>3, <1>4

\* A step outside the crawl.
LEMMA BreadthFirstFrame ==
    ASSUME BreadthFirst, site' = site, results' = results, ~ crawling', stage' # "crawl"
    PROVE  BreadthFirst'
BY LevelsStay DEF BreadthFirst, AtLevel, InLevel

\* A step inside it that leaves the crawl alone: only time may pass.
LEMMA BreadthFirstWaits ==
    ASSUME BreadthFirst, ReconTyped, UNCHANGED <<site, results, crawling, stage, depth, frontier, todo, linked>>,
           clock' \in Nat, clock <= clock'
    PROVE  BreadthFirst'
<1>1. InTime' => InTime
  BY ReconWebAssumption DEF InTime, ReconTyped
<1>2. /\ Level' = Level /\ Budget' = Budget /\ Answered' = Answered
      /\ Nearer(depth)' = Nearer(depth) /\ Ascends'
  BY LevelsStay DEF BreadthFirst, Nearer
<1>3. AtLevel'
  BY <1>1, <1>2 DEF BreadthFirst, AtLevel
<1>4. InLevel'
  BY <1>2 DEF BreadthFirst, InLevel
<1>5. QED
  BY <1>2, <1>3, <1>4 DEF BreadthFirst

LEMMA BreadthFirstStep ==
    ReconTyped /\ CrawlShape /\ Counted /\ BreadthFirst /\ [ReconNext]_reconVars => BreadthFirst'
<1> SUFFICES ASSUME ReconTyped, CrawlShape, Counted, BreadthFirst, [ReconNext]_reconVars
             PROVE  BreadthFirst'
  OBVIOUS
<1> USE DEF crawlVars, countVars
<1>0. depth \in 0 .. Depths /\ depth \in Nat /\ Depths \in Nat
  BY ReconWebAssumption DEF ReconTyped
<1>1. CASE ScanPorts \/ ProbeBase \/ ProbeVhosts
  BY <1>1, BreadthFirstFrame DEF ScanPorts, ProbeBase, ProbeVhosts, Runs, CrawlShape
<1>2. CASE LeaveVhosts
  <2>1. CASE stage' = "crawled"
    BY <1>2, <2>1, BreadthFirstFrame DEF LeaveVhosts, Runs, CrawlShape
  <2>2. CASE stage' = "crawl" /\ frontier' = DOMAIN Seeds
    <3>1. /\ depth = 0 /\ depth' = 0 /\ DOMAIN results = {} /\ results' = results
          /\ linked' = {} /\ ~ crawling' /\ site' = site
      BY <1>2 DEF LeaveVhosts, Runs, CrawlShape
    <3>2. Level' = Level /\ Ascends'
      BY <3>1, LevelsStay DEF BreadthFirst
    <3>3. Nearer(depth)' = {}
      BY <3>1 DEF Nearer
    <3>4. frontier' = Level'[depth']
      BY <2>2, <3>1, <3>2, FirstLevel
    <3>5. AtLevel'
      BY <3>1, <3>3, <3>4 DEF AtLevel
    <3>6. QED
      BY <3>1, <3>2, <3>5 DEF BreadthFirst, InLevel
  <2>3. QED
    BY <1>2, <2>1, <2>2 DEF LeaveVhosts
<1>3. CASE BeginLevel
  <2>1. /\ stage = "crawl" /\ ~ crawling /\ depth < Depths /\ InTime /\ NewOf(frontier) # {}
        /\ todo' = NewOf(frontier) /\ crawling' /\ stage' = stage
        /\ UNCHANGED <<site, clock, depth, frontier, results, linked>>
    BY <1>3 DEF BeginLevel, MoreLevels, Runs, ReconTyped
  <2>2. Budget > 0
    <3>1. Budget \in Nat
      BY BudgetSize
    <3>2. frontier \subseteq DOMAIN Places
      BY <2>1 DEF CrawlShape, ReconTyped, Places
    <3>3. frontier \ DOMAIN results \subseteq DOMAIN Places
      BY <3>2
    <3>4. IsFiniteSet(NewOf(frontier)) /\ Cardinality(NewOf(frontier)) \in Nat
          /\ Cardinality(NewOf(frontier)) <= Budget
      BY <3>1, <3>3, FirstSize DEF NewOf
    <3>5. Cardinality(NewOf(frontier)) # 0
      BY <2>1, <3>4, FS_EmptySet
    <3>6. QED
      BY <3>1, <3>4, <3>5
  <2>3. DOMAIN results = Nearer(depth) /\ frontier = Level[depth] /\ linked = {}
    BY <2>1, <2>2 DEF BreadthFirst, AtLevel
  <2>4. /\ Level' = Level /\ Answered' = Answered
        /\ Nearer(depth)' = Nearer(depth) /\ Ascends'
    BY <2>1, LevelsStay DEF BreadthFirst, Nearer
  <2>5. Nearer(depth) \cap Level[depth] = {}
    BY <1>0, NearerLevels
  <2>6. linked = Level[depth] \cap Answered
    BY <2>3, <2>5 DEF Answered
  <2>7. NewOf(frontier) \subseteq frontier \ DOMAIN results
    BY NewOfIsPart
  <2>8. \/ frontier \subseteq DOMAIN results \cup NewOf(frontier)
        \/ Cardinality(DOMAIN results \cup NewOf(frontier)) >= MaxRequests
    <3>1. frontier \subseteq DOMAIN Places
      BY <2>1 DEF CrawlShape, ReconTyped, Places
    <3>2. Cardinality(DOMAIN results) <= MaxRequests
      <4>1. Pages = DOMAIN results
        BY <2>1 DEF Counted
      <4>2. Pages \subseteq Pages \cup todo /\ Pages \cup todo \subseteq Paths
        BY DEF ReconTyped, Pages
      <4>3. QED
        BY <4>1, <4>2, ShrinksWithin DEF Counted
    <3>3. QED
      BY <3>1, <3>2, NewOfFits
  <2>9. InLevel'
    BY <2>1, <2>3, <2>4, <2>6, <2>7, <2>8 DEF InLevel
  <2>10. QED
    BY <2>1, <2>4, <2>9 DEF BreadthFirst, AtLevel
<1>4. CASE CrawlWave
  <2> DEFINE wave == First(WaveSize, todo)
  <2>1. wave \subseteq todo
    BY FirstIsPart
  <2> HIDE DEF wave
  <2>2. /\ stage = "crawl" /\ crawling /\ todo' = todo \ wave
        /\ UNCHANGED <<site, stage, depth, crawling>>
    BY <1>4 DEF CrawlWave, Runs, wave
  <2>3. PICK failed \in SUBSET wave :
           /\ results' = [p \in DOMAIN results \cup wave |->
                            IF p \in failed THEN "error"
                            ELSE IF p \in wave THEN "page" ELSE results[p]]
           /\ linked' = linked \cup (wave \ failed)
    BY <1>4 DEF CrawlWave, wave
  <2>4. /\ Nearer(depth) \subseteq DOMAIN results
        /\ DOMAIN results \subseteq Nearer(depth) \cup Level[depth]
        /\ todo \subseteq Level[depth] \ DOMAIN results
        /\ linked = Level[depth] \cap Answered
        /\ \/ Level[depth] \subseteq DOMAIN results \cup todo
           \/ Cardinality(DOMAIN results \cup todo) >= MaxRequests
    BY <2>2 DEF BreadthFirst, InLevel
  <2>5. DOMAIN results' = DOMAIN results \cup wave
    BY <2>3
  <2>6. Answered' = Answered \cup (wave \ failed)
    <3>1. \A p \in DOMAIN results : p \notin wave
      BY <2>1, <2>4
    <3>2. \A p \in DOMAIN results : results'[p] = results[p]
      BY <2>3, <3>1
    <3>3. \A p \in wave : results'[p] = IF p \in failed THEN "error" ELSE "page"
      BY <2>3
    <3>4. QED
      BY <2>5, <3>1, <3>2, <3>3 DEF Answered
  <2>7. \A j \in Nat : j < depth => Level[j] \cap Answered = Level[j] \cap Answered'
    <3>1. ASSUME NEW j \in Nat, j < depth
          PROVE  Level[j] \cap Answered = Level[j] \cap Answered'
      <4>1. j \in 0 .. depth - 1
        BY <1>0, <3>1
      <4>2. Level[j] \subseteq Nearer(depth)
        BY <4>1 DEF Nearer
      <4>3. wave \cap Nearer(depth) = {}
        BY <2>1, <2>4
      <4>4. QED
        BY <2>6, <4>2, <4>3
    <3>2. QED
      BY <3>1
  <2>8. \A k \in 0 .. depth : Level'[k] = Level[k]
    <3>1. Level = Levels(site, Answered) /\ Level' = Levels(site, Answered')
      BY <2>2, Zenon DEF Level, Answered
    <3>2. \A j \in Nat : j < depth =>
             Levels(site, Answered)[j] \cap Answered = Levels(site, Answered)[j] \cap Answered'
      BY <2>7, <3>1, Zenon
    <3>3. \A k \in 0 .. depth : Levels(site, Answered')[k] = Levels(site, Answered)[k]
      BY <1>0, <3>2, LevelsLookDown
    <3>4. QED
      BY <3>1, <3>3, Zenon
  <2>9. Nearer(depth)' = Nearer(depth) /\ Level'[depth'] = Level[depth]
    <3>1. \A j \in 0 .. depth - 1 : Level'[j] = Level[j]
      BY <1>0, <2>8
    <3>2. {Level'[j] : j \in 0 .. depth - 1} = {Level[j] : j \in 0 .. depth - 1}
      BY <3>1
    <3>3. depth' = depth /\ depth \in 0 .. depth
      BY <1>0, <2>2
    <3>4. QED
      BY <2>8, <3>2, <3>3, Zenon DEF Nearer
  <2>10. DOMAIN results' \cup todo' = DOMAIN results \cup todo
    BY <2>1, <2>2, <2>5
  <2>11. InLevel'
    <3>1. /\ Nearer(depth) \subseteq DOMAIN results'
          /\ DOMAIN results' \subseteq Nearer(depth) \cup Level[depth]
          /\ todo' \subseteq Level[depth] \ DOMAIN results'
          /\ linked' = Level[depth] \cap Answered'
      BY <2>1, <2>2, <2>3, <2>4, <2>5, <2>6
    <3>2. \/ Level[depth] \subseteq DOMAIN results' \cup todo'
          \/ Cardinality(DOMAIN results' \cup todo') >= MaxRequests
      BY <2>4, <2>10
    <3>3. QED
      BY <2>9, <3>1, <3>2 DEF InLevel
  <2>12. Ascends'
    <3>1. DOMAIN results' \subseteq Nearer(depth) \cup Level[depth]
      BY <2>1, <2>4, <2>5
    <3>2. \A j \in 0 .. depth : Level[j] \subseteq UNION {Level'[i] : i \in 0 .. depth}
      BY <2>8
    <3>3. \A x : x \in Nearer(depth) => \E j \in 0 .. depth - 1 : x \in Level[j]
      BY <1>0, NearerLevels
    <3>4. DOMAIN results' \subseteq UNION {Level'[i] : i \in 0 .. depth}
      BY <1>0, <3>1, <3>2, <3>3
    <3>5. \A j \in 0 .. depth - 1 : Level'[j] \subseteq DOMAIN results'
      <4>1. \A j \in 0 .. depth - 1 : Level[j] \subseteq Nearer(depth) /\ Level'[j] = Level[j]
        BY <1>0, <2>8 DEF Nearer
      <4>2. QED
        BY <2>4, <2>5, <4>1
    <3>6. QED
      BY <1>0, <3>4, <3>5 DEF Ascends
  <2>13. QED
    BY <2>2, <2>11, <2>12 DEF BreadthFirst, AtLevel
<1>5. CASE EndLevel
  <2>1. /\ stage = "crawl" /\ crawling /\ ~ crawling' /\ (todo = {} \/ ~ InTime)
        /\ depth' = depth + 1 /\ depth < Depths
        /\ UNCHANGED <<site, clock, stage, results>>
    BY <1>5 DEF EndLevel, Runs, CrawlShape, ReconTyped
  <2>2. /\ Level' = Level /\ Budget' = Budget /\ Answered' = Answered
        /\ Nearer(depth)' = Nearer(depth + 1) /\ Ascends'
    BY <2>1, LevelsStay DEF BreadthFirst, Nearer
  <2>3. SUFFICES ASSUME InTime, Budget > 0
                 PROVE  /\ DOMAIN results' = Nearer(depth)'
                        /\ depth' < Depths => frontier' = Level'[depth'] /\ linked' = {}
    <3>1. InTime' = InTime
      BY <2>1 DEF InTime
    <3>2. QED
      BY <2>1, <2>2, <3>1 DEF BreadthFirst, AtLevel, InLevel
  <2>4. /\ Nearer(depth) \subseteq DOMAIN results
        /\ DOMAIN results \subseteq Nearer(depth) \cup Level[depth]
        /\ linked = Level[depth] \cap Answered
        /\ \/ Level[depth] \subseteq DOMAIN results \cup todo
           \/ Cardinality(DOMAIN results \cup todo) >= MaxRequests
    BY <2>1 DEF BreadthFirst, InLevel
  <2>5. todo = {}
    BY <2>1, <2>3
  <2>6. Cardinality(DOMAIN results) < MaxRequests /\ Cardinality(DOMAIN results) \in Nat
        /\ MaxRequests \in Nat
    BY <2>3, BudgetSize, ReconWebAssumption DEF Budget
  <2>7. Level[depth] \subseteq DOMAIN results
    <3>1. DOMAIN results \cup todo = DOMAIN results
      BY <2>5
    <3>2. QED
      BY <2>4, <2>6, <3>1
  <2>8. DOMAIN results = Nearer(depth) \cup Level[depth]
    BY <2>4, <2>7
  <2>9. Nearer(depth + 1) = Nearer(depth) \cup Level[depth]
    BY <1>0, <2>1, NearerLevels
  <2>10. DOMAIN results' = Nearer(depth)'
    BY <2>1, <2>2, <2>8, <2>9
  <2>11. ASSUME depth' < Depths
         PROVE  frontier' = Level'[depth'] /\ linked' = {}
    <3>1. GoesDeeper
      BY <1>0, <2>1, <2>11 DEF GoesDeeper
    <3>2. frontier' = (UNION {site[p] : p \in linked}) \ DOMAIN results /\ linked' = {}
      BY <1>5, <3>1 DEF EndLevel
    <3>3. Level[depth + 1] = (UNION {site[p] : p \in Level[depth] \cap Answered}) \ Nearer(depth + 1)
      BY <1>0, <2>1, <2>11, LinksAreNextLevel
    <3>4. frontier' = Level[depth + 1]
      BY <2>4, <2>8, <2>9, <3>2, <3>3, Zenon
    <3>5. QED
      BY <2>1, <2>2, <3>2, <3>4
  <2>12. QED
    BY <2>10, <2>11
<1>6. CASE LeaveCrawl \/ BeginSensitive \/ SensitiveWave \/ LeaveSensitive
  BY <1>6, BreadthFirstFrame DEF LeaveCrawl, BeginSensitive, SensitiveWave, LeaveSensitive,
     Runs, CrawlShape
<1>7. CASE Refuse \/ Answer \/ KillScript \/ Cancel \/ UNCHANGED reconVars
  <2>1. UNCHANGED <<site, results, crawling, stage, depth, frontier, todo, linked>>
        /\ clock' = clock
    BY <1>7 DEF Refuse, Answer, KillScript, Cancel, scriptVars, reconVars
  <2>2. clock' \in Nat /\ clock <= clock'
    BY <2>1 DEF ReconTyped
  <2>3. QED
    BY <2>1, <2>2, BreadthFirstWaits
<1>8. QED
  BY <1>1, <1>2, <1>3, <1>4, <1>5, <1>6, <1>7 DEF ReconNext, Script, CallOver

(***************************************************************************)
(* The crawl goes level by level: no page is asked for before all that are *)
(* nearer to the seeds, and none is left out as long as there is time and  *)
(* budget (recon_web's loop over the frontier).                            *)
(***************************************************************************)
THEOREM CrawlGoesByLevels == ReconSpec => []CrawlIsBreadthFirst
<1>1. ReconInit => BreadthFirst
  BY BreadthFirstInit
<1>2. ReconTyped /\ CrawlShape /\ Counted /\ BreadthFirst /\ [ReconNext]_reconVars => BreadthFirst'
  BY BreadthFirstStep
<1>3. ReconTyped /\ CrawlShape /\ BreadthFirst => CrawlIsBreadthFirst
  <2> SUFFICES ASSUME ReconTyped, CrawlShape, BreadthFirst PROVE CrawlIsBreadthFirst
    OBVIOUS
  <2>0. Depths \in Nat /\ depth \in 0 .. Depths
    BY ReconWebAssumption DEF ReconTyped
  <2>1. ASSUME NEW k \in 1 .. Depths, Level[k] \cap DOMAIN results # {},
               NEW j \in 0 .. k - 1
        PROVE  Level[j] \subseteq DOMAIN results
    <3>1. PICK e \in 0 .. Depths :
             /\ DOMAIN results \subseteq UNION {Level[i] : i \in 0 .. e}
             /\ \A i \in 0 .. e - 1 : Level[i] \subseteq DOMAIN results
      BY DEF BreadthFirst, Ascends
    <3>2. PICK p \in Level[k] : p \in DOMAIN results
      BY <2>1
    <3>3. PICK i \in 0 .. e : p \in Level[i]
      BY <3>1, <3>2
    <3>4. k <= i
      <4>1. i \in 0 .. Depths /\ k \in 0 .. Depths
        BY <2>0, <3>1
      <4>2. CASE i < k
        <5>1. Level[i] \cap Level[k] = {}
          BY <4>1, <4>2, LevelsAreApart, Zenon DEF Level
        <5>2. QED
          BY <3>2, <3>3, <5>1
      <4>3. QED
        BY <4>1, <4>2
    <3>5. j \in 0 .. e - 1
      BY <2>0, <3>4
    <3>6. QED
      BY <3>1, <3>5
  <2>2. ASSUME stage = "crawl", ~ crawling, ~ MoreLevels, InTime, Budget > 0,
               NEW k \in 0 .. Depths - 1
        PROVE  Level[k] \subseteq DOMAIN results
    <3>1. DOMAIN results = Nearer(depth) /\ (depth < Depths => frontier = Level[depth])
      BY <2>2 DEF BreadthFirst, AtLevel
    <3>2. CASE k < depth
      <4>1. k \in 0 .. depth - 1
        BY <2>0, <3>2
      <4>2. QED
        BY <3>1, <4>1 DEF Nearer
    <3>3. CASE depth <= k
      <4>1. depth < Depths /\ k \in depth .. Depths
        BY <2>0, <3>3
      <4>2. NewOf(frontier) = {}
        BY <2>2, <4>1 DEF MoreLevels
      <4>3. frontier \ DOMAIN results = {}
        <5>1. Budget \in Nat
          BY BudgetSize
        <5>2. frontier \ DOMAIN results \subseteq DOMAIN Places
          BY <2>2 DEF CrawlShape, ReconTyped, Places
        <5>3. (frontier \ DOMAIN results) \ NewOf(frontier) # {} =>
                 Cardinality(NewOf(frontier)) = Budget
          BY <5>1, <5>2, FirstSize DEF NewOf
        <5>4. Cardinality(NewOf(frontier)) = 0
          BY <4>2, FS_EmptySet
        <5>5. QED
          BY <2>2, <4>2, <5>1, <5>3, <5>4
      <4>4. Nearer(depth) \cap Level[depth] = {}
        BY <2>0, NearerLevels
      <4>5. Level[depth] = {}
        BY <3>1, <4>1, <4>3, <4>4
      <4>6. Level[k] = {}
        BY <2>0, <4>1, <4>5, NothingBehind, Zenon DEF Level
      <4>7. QED
        BY <4>6
    <3>4. QED
      BY <2>0, <3>2, <3>3
  <2>3. QED
    BY <2>1, <2>2 DEF CrawlIsBreadthFirst
<1>4. QED
  BY <1>1, <1>2, <1>3, ReconIsTyped, ReconIsCounted, PTL DEF ReconSpec

=============================================================================
