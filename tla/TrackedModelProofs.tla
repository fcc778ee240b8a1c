------------------------- MODULE TrackedModelProofs -------------------------
(***************************************************************************)
(* Theorems about the model client and the conversations it is sent.       *)
(* TrackedModel, for every set of phases, configured cap, set of endpoint  *)
(* caps and failure limit: its type invariant, to whom usage is            *)
(* attributed, how a request counts, which caps are settled on, and that   *)
(* it is the endpoint Pipeline relies on.  Transcript, for every set of    *)
(* wire ids and every bound: what is sent is a history the endpoint        *)
(* accepts, the relay has the evidence of WORK, and the hand-off tells     *)
(* what the cut-off PLAN did.                                              *)
(***************************************************************************)
EXTENDS TrackedModel, Transcript, FiniteSetTheorems, WellFoundedInduction,
        NaturalsInduction, TLAPS

USE DEF Opening, Reading, MinMax, TrackedModelAssumption

(***************************************************************************)
(* The ladder is a sequence of caps, with one at least.                    *)
(***************************************************************************)
LEMMA LadderIsCaps == Ladder \in Seq(Nat) /\ Len(Ladder) \in Nat /\ Len(Ladder) > 0
<1> DEFINE top == IF ConfigMax = 0 THEN << >> ELSE <<ConfigMax>>
<1>1. /\ FixedStep(8) \in Seq(Nat) /\ Len(FixedStep(8)) \in Nat
      /\ FixedStep(4) \in Seq(Nat) /\ Len(FixedStep(4)) \in Nat
      /\ FixedStep(2) \in Seq(Nat) /\ Len(FixedStep(2)) \in Nat
  BY DEF FixedStep
<1>2. top \in Seq(Nat) /\ Len(top) \in Nat
  BY TrackedModelAssumption
<1>3. Ladder = top \o FixedStep(8) \o FixedStep(4) \o FixedStep(2)
  BY DEF Ladder
<1> HIDE DEF top
<1>4. top \o FixedStep(8) \in Seq(Nat)
      /\ Len(top \o FixedStep(8)) = Len(top) + Len(FixedStep(8))
  BY <1>1, <1>2
<1>5. top \o FixedStep(8) \o FixedStep(4) \in Seq(Nat)
      /\ Len(top \o FixedStep(8) \o FixedStep(4))
             = Len(top) + Len(FixedStep(8)) + Len(FixedStep(4))
  BY <1>1, <1>4
<1>6. Ladder \in Seq(Nat)
      /\ Len(Ladder) = Len(top) + Len(FixedStep(8)) + Len(FixedStep(4))
                       + Len(FixedStep(2))
  BY <1>1, <1>3, <1>5
<1>7. Len(FixedStep(8)) + Len(FixedStep(4)) >= 1
  <2>1. CASE ConfigMax = 8
    BY <1>1, <2>1 DEF FixedStep
  <2>2. CASE ConfigMax # 8
    BY <1>1, <2>2 DEF FixedStep
  <2>3. QED
    BY <2>1, <2>2
<1>8. QED
  BY <1>1, <1>2, <1>6, <1>7

(***************************************************************************)
(* What a request does to the streak: nothing but a reset or one count.    *)
(***************************************************************************)
LEMMA StreakSteps ==
    ASSUME TypeOK, [Next]_vars
    PROVE  fails' \in 0 .. FailBound /\ before' \in 0 .. FailBound
           /\ storm' \in 0 .. FailBound
<1> USE TrackedModelAssumption DEF TypeOK
<1>1. CASE ProbeNoCap \/ ProbeCap \/ UNCHANGED vars
  BY <1>1 DEF ProbeNoCap, ProbeCap, vars, history
<1>2. CASE (\E p \in PhaseIds : StartRun(p)) \/ EndRun
  BY <1>2 DEF StartRun, EndRun, AbandonRequest, history
<1>3. CASE StartStream \/ StartWhole
  BY <1>3 DEF StartStream, StartWhole, StartRequest
<1>4. CASE StreamOpens \/ WholeAnswer
  BY <1>4 DEF StreamOpens, WholeAnswer, history
<1>5. CASE CapRejectedReduce \/ OpenFails \/ ContextExceeded
  BY <1>5 DEF CapRejectedReduce, OpenFails, ContextExceeded, RetryOrFail
<1>6. CASE OpenTerminal \/ StreamTerminal
  BY <1>6 DEF OpenTerminal, StreamTerminal
<1>7. CASE Chunk \/ StreamEnds
  BY <1>7 DEF Chunk, StreamEnds
<1>8. QED
  BY <1>1, <1>2, <1>3, <1>4, <1>5, <1>6, <1>7 DEF Next

(***************************************************************************)
(* Type correctness.                                                       *)
(***************************************************************************)
LEMMA TypeInit == Init => TypeOK
<1> SUFFICES ASSUME Init PROVE TypeOK
  OBVIOUS
<1>1. probe \in 0 .. Len(Ladder)
  BY LadderIsCaps DEF Init
<1>2. {fails, before, storm} \subseteq 0 .. FailBound
  BY TrackedModelAssumption DEF Init
<1>3. eff \in Nat \cup {None} /\ sent \in Nat
  BY DEF Init
<1>4. noCapOk \in BOOLEAN /\ streamed \in BOOLEAN /\ running \in BOOLEAN
  BY DEF Init
<1>5. QED
  BY <1>1, <1>2, <1>3, <1>4 DEF Init, TypeOK

LEMMA TypeStep == TypeOK /\ [Next]_vars => TypeOK'
<1> SUFFICES ASSUME TypeOK, [Next]_vars PROVE TypeOK'
  OBVIOUS
<1> USE TrackedModelAssumption, LadderIsCaps, StreakSteps
    DEF TypeOK, envVars, probeVars, requestVars, runVars, history
<1>1. CASE ProbeNoCap
  <2>1. probe' \in 0 .. Len(Ladder)
    BY <1>1 DEF ProbeNoCap, EndPreflight
  <2>2. noCapOk' \in BOOLEAN
    BY <1>1 DEF ProbeNoCap, EndPreflight
  <2>3. QED
    BY <1>1, <2>1, <2>2 DEF ProbeNoCap, EndPreflight
<1>2. CASE ProbeCap
  <2>1. Ladder[probe] \in Nat /\ Concluded \in Nat \cup {None}
    BY <1>2 DEF ProbeCap, Concluded
  <2>2. eff' \in Nat \cup {None}
    BY <1>2, <2>1 DEF ProbeCap, EndPreflight
  <2>3. probe' \in 0 .. Len(Ladder)
    BY <1>2 DEF ProbeCap, EndPreflight
  <2>4. QED
    BY <1>2, <2>2, <2>3 DEF ProbeCap, EndPreflight
<1>3. CASE \E p \in PhaseIds : StartRun(p)
  BY <1>3 DEF StartRun
<1>4. CASE EndRun
  BY <1>4 DEF EndRun, AbandonRequest, LogPending
<1>5. CASE StartStream \/ StartWhole
  BY <1>5 DEF StartStream, StartWhole, StartRequest, LogPending, RequestCap
<1>6. CASE StreamOpens
  BY <1>6 DEF StreamOpens
<1>7. CASE WholeAnswer
  BY <1>7 DEF WholeAnswer, LogPending
<1>8. CASE CapRejectedReduce
  <2>1. eff' \in Nat /\ sent' \in Nat
    BY <1>8 DEF CapRejectedReduce
  <2>2. QED
    BY <1>8, <2>1 DEF CapRejectedReduce, RetryOrFail
<1>9. CASE OpenFails \/ ContextExceeded \/ OpenTerminal
  BY <1>9 DEF OpenFails, ContextExceeded, OpenTerminal, RetryOrFail
<1>10. CASE Chunk \/ StreamEnds \/ StreamTerminal
  BY <1>10 DEF Chunk, StreamEnds, StreamTerminal
<1>11. CASE UNCHANGED vars
  BY <1>11 DEF vars
<1>12. QED
  BY <1>1, <1>2, <1>3, <1>4, <1>5, <1>6, <1>7, <1>8, <1>9, <1>10, <1>11 DEF Next

(***************************************************************************)
(* Every reachable state of the model has the declared types.              *)
(***************************************************************************)
THEOREM TypeCorrect == Spec => []TypeOK
BY TypeInit, TypeStep, PTL DEF Spec

(***************************************************************************)
(* Usage: a run has a phase, and nothing is pending outside a run.  What   *)
(* is pending is the current phase's because the phase only changes when a *)
(* run begins.                                                             *)
(***************************************************************************)
Tagged ==
    /\ running => phase \in PhaseIds
    /\ pending # None => running /\ pending = phase
    /\ place \in Opening \cup Reading => running

LEMMA TaggedStep == TypeOK /\ Tagged /\ [Next]_vars => Tagged'
<1> SUFFICES ASSUME TypeOK, Tagged, [Next]_vars PROVE Tagged'
  OBVIOUS
<1> USE DEF TypeOK, Tagged, probeVars, runVars
<1>1. CASE ProbeNoCap \/ ProbeCap
  BY <1>1 DEF ProbeNoCap, ProbeCap, EndPreflight
<1>2. CASE \E p \in PhaseIds : StartRun(p)
  BY <1>2 DEF StartRun
<1>3. CASE EndRun
  BY <1>3 DEF EndRun, AbandonRequest, LogPending
<1>4. CASE StartStream \/ StartWhole
  BY <1>4 DEF StartStream, StartWhole, StartRequest, LogPending
<1>5. CASE StreamOpens \/ WholeAnswer
  BY <1>5 DEF StreamOpens, WholeAnswer, LogPending
<1>6. CASE CapRejectedReduce \/ OpenFails \/ ContextExceeded \/ OpenTerminal
  BY <1>6 DEF CapRejectedReduce, OpenFails, ContextExceeded, OpenTerminal, RetryOrFail
<1>7. CASE Chunk \/ StreamEnds \/ StreamTerminal
  BY <1>7 DEF Chunk, StreamEnds, StreamTerminal
<1>8. CASE UNCHANGED vars
  BY <1>8 DEF vars
<1>9. QED
  BY <1>1, <1>2, <1>3, <1>4, <1>5, <1>6, <1>7, <1>8 DEF Next

(***************************************************************************)
(* Pending usage is always the current phase's, whichever way a run or its *)
(* last request ended.                                                     *)
(***************************************************************************)
THEOREM UsageIsAttributed == Spec => []UsageAttributed
<1>1. Init => Tagged
  BY DEF Init, Tagged
<1>2. Tagged => UsageAttributed
  BY DEF Tagged, UsageAttributed
<1>3. QED
  BY TypeCorrect, TaggedStep, <1>1, <1>2, PTL DEF Spec

(***************************************************************************)
(* The streak: while a request is being opened it is the one the request   *)
(* found, an open stream has reset it, and a terminal status ends the      *)
(* request.                                                                *)
(***************************************************************************)
Counted ==
    /\ place \in Opening => fails = before
    /\ place \in Reading => fails = 0
    /\ fails <= before + 1

LEMMA CountedStep == TypeOK /\ Counted /\ [Next]_vars => Counted'
<1> SUFFICES ASSUME TypeOK, Counted, [Next]_vars PROVE Counted'
  OBVIOUS
<1> USE TrackedModelAssumption DEF TypeOK, Counted, CountsOncePerRequest, history
<1>1. CASE ProbeNoCap \/ ProbeCap
  <2>1. \/ place' = "probe"
        \/ place' = "idle"
    BY <1>1 DEF ProbeNoCap, ProbeCap, EndPreflight
  <2>2. fails' = fails /\ before' = before
    BY <1>1 DEF ProbeNoCap, ProbeCap
  <2>3. QED
    BY <2>1, <2>2
<1>2. CASE (\E p \in PhaseIds : StartRun(p)) \/ EndRun
  BY <1>2 DEF StartRun, EndRun, AbandonRequest
<1>3. CASE StartStream \/ StartWhole
  BY <1>3 DEF StartStream, StartWhole, StartRequest
<1>4. CASE StreamOpens \/ WholeAnswer
  BY <1>4 DEF StreamOpens, WholeAnswer
<1>5. CASE CapRejectedReduce \/ OpenFails \/ ContextExceeded \/ OpenTerminal
  BY <1>5 DEF CapRejectedReduce, OpenFails, ContextExceeded, OpenTerminal, RetryOrFail
<1>6. CASE Chunk \/ StreamEnds \/ StreamTerminal
  BY <1>6 DEF Chunk, StreamEnds, StreamTerminal
<1>7. CASE UNCHANGED vars
  BY <1>7 DEF vars
<1>8. QED
  BY <1>1, <1>2, <1>3, <1>4, <1>5, <1>6, <1>7 DEF Next

(***************************************************************************)
(* One request counts at most once, however many attempts it takes and     *)
(* wherever its failure surfaces.                                          *)
(***************************************************************************)
THEOREM RequestsCountOnce == Spec => []CountsOncePerRequest
<1>1. Init => Counted
  BY DEF Init, Counted
<1>2. Counted => CountsOncePerRequest
  BY DEF Counted, CountsOncePerRequest
<1>3. QED
  BY TypeCorrect, CountedStep, <1>1, <1>2, PTL DEF Spec

(***************************************************************************)
(* The preflight, as far as it has come: nothing is settled, no-cap counts *)
(* as accepted only if the endpoint takes it, and every step of the ladder *)
(* already passed was rejected.                                            *)
(***************************************************************************)
Probed ==
    place = "probe" =>
        /\ eff = None
        /\ noCapOk => Fits(0)
        /\ \A j \in 1 .. probe - 1 : ~ Fits(Ladder[j])

LEMMA ProbedStep == TypeOK /\ Probed /\ [Next]_vars => Probed'
<1> SUFFICES ASSUME TypeOK, Probed, [Next]_vars, place' = "probe"
             PROVE  /\ eff' = None
                    /\ noCapOk' => Fits(0)'
                    /\ (\A j \in 1 .. probe - 1 : ~ Fits(Ladder[j]))'
  BY DEF Probed
<1> USE DEF envVars, probeVars
<1>1. CASE ProbeNoCap
  <2>1. eff' = eff /\ probe' = 1 /\ UNCHANGED <<serverCap, needsCap>>
        /\ place = "probe"
    BY <1>1 DEF ProbeNoCap, EndPreflight
  <2>2. noCapOk' => Fits(0)
    BY <1>1 DEF ProbeNoCap, EndPreflight, Probed
  <2>3. Fits(0)' <=> Fits(0)
    BY <2>1 DEF Fits
  <2>4. QED
    BY <2>1, <2>2, <2>3 DEF Probed
<1>2. CASE ProbeCap
  <2>1. /\ place = "probe" /\ probe \in DOMAIN Ladder
        /\ UNCHANGED <<serverCap, needsCap, eff, noCapOk>>
        /\ ~ Fits(Ladder[probe]) /\ probe' = probe + 1
    BY <1>2 DEF ProbeCap, EndPreflight
  <2>2. \A cap : Fits(cap)' <=> Fits(cap)
    BY <2>1 DEF Fits
  <2>3. \A j \in 1 .. probe : ~ Fits(Ladder[j])
    <3>1. TAKE j \in 1 .. probe
    <3>2. j \in 1 .. probe - 1 \/ j = probe
      BY DEF TypeOK
    <3>3. QED
      BY <2>1, <3>2 DEF Probed
  <2>4. Ladder' = Ladder
    BY DEF Ladder, FixedStep
  <2>5. probe' - 1 = probe
    BY <2>1 DEF TypeOK
  <2>6. (\A j \in 1 .. probe - 1 : ~ Fits(Ladder[j]))'
    BY <2>2, <2>3, <2>4, <2>5
  <2>7. QED
    BY <2>1, <2>2, <2>6 DEF Probed
<1>3. CASE \E p \in PhaseIds : StartRun(p)
  BY <1>3 DEF StartRun
<1>4. CASE EndRun
  BY <1>4 DEF EndRun, AbandonRequest
<1>5. CASE StartStream \/ StartWhole \/ StreamOpens \/ WholeAnswer
  BY <1>5 DEF StartStream, StartWhole, StartRequest, StreamOpens, WholeAnswer
<1>6. CASE CapRejectedReduce \/ OpenFails \/ ContextExceeded \/ OpenTerminal
  BY <1>6 DEF CapRejectedReduce, OpenFails, ContextExceeded, OpenTerminal, RetryOrFail
<1>7. CASE Chunk \/ StreamEnds \/ StreamTerminal
  BY <1>7 DEF Chunk, StreamEnds, StreamTerminal
<1>8. CASE UNCHANGED vars
  BY <1>8 DEF vars, Probed, Fits
<1>9. QED
  BY <1>1, <1>2, <1>3, <1>4, <1>5, <1>6, <1>7, <1>8 DEF Next

(***************************************************************************)
(* The preflight settles on no-cap only if that was accepted, and          *)
(* otherwise on the first step of the ladder that the endpoint takes.      *)
(***************************************************************************)
THEOREM PreflightIsRight == Spec => PreflightPicksAccepted
<1>1. Init => Probed
  BY DEF Init, Probed
<1>2. TypeOK /\ Probed /\ [Next]_vars
      => [place = "probe" /\ eff' # eff =>
            \/ eff' = 0 /\ Fits(0)
            \/ \E i \in DOMAIN Ladder :
                  /\ eff' = Ladder[i] /\ Fits(Ladder[i])
                  /\ \A j \in 1 .. i - 1 : ~ Fits(Ladder[j])]_vars
  <2> SUFFICES ASSUME TypeOK, Probed, [Next]_vars, place = "probe", eff' # eff
               PROVE  \/ eff' = 0 /\ Fits(0)
                      \/ \E i \in DOMAIN Ladder :
                            /\ eff' = Ladder[i] /\ Fits(Ladder[i])
                            /\ \A j \in 1 .. i - 1 : ~ Fits(Ladder[j])
    OBVIOUS
  <2>1. ProbeCap
    BY DEF Next, vars, ProbeNoCap, EndPreflight, StartRun, EndRun, StartStream,
           StartWhole, StartRequest, StreamOpens, WholeAnswer, CapRejectedReduce,
           OpenFails, ContextExceeded, OpenTerminal, Chunk, StreamEnds,
           StreamTerminal
  <2>2. CASE eff' = Ladder[probe] /\ Fits(Ladder[probe])
    BY <2>1, <2>2 DEF ProbeCap, Probed
  <2>3. CASE eff' = Concluded
    BY <2>3 DEF Concluded, Probed
  <2>4. QED
    BY <2>1, <2>2, <2>3 DEF ProbeCap, EndPreflight
<1>3. QED
  BY TypeCorrect, ProbedStep, <1>1, <1>2, PTL DEF Spec, PreflightPicksAccepted

(***************************************************************************)
(* While a request is being opened it carries the cap that would be chosen *)
(* for it now: a reduction changes both.                                   *)
(***************************************************************************)
SentIsCurrent == place \in Opening => sent = RequestCap

LEMMA SentStep == TypeOK /\ SentIsCurrent /\ [Next]_vars => SentIsCurrent'
<1> SUFFICES ASSUME TypeOK, SentIsCurrent, [Next]_vars, place' \in Opening
             PROVE  sent' = RequestCap'
  BY DEF SentIsCurrent
<1> USE DEF TypeOK, SentIsCurrent, RequestCap, requestVars
<1>1. CASE ProbeNoCap \/ ProbeCap
  BY <1>1 DEF ProbeNoCap, ProbeCap, EndPreflight, probeVars
<1>2. CASE (\E p \in PhaseIds : StartRun(p)) \/ EndRun
  BY <1>2 DEF StartRun, EndRun, AbandonRequest
<1>3. CASE StartStream \/ StartWhole
  BY <1>3 DEF StartStream, StartWhole, StartRequest
<1>4. CASE StreamOpens \/ WholeAnswer
  BY <1>4 DEF StreamOpens, WholeAnswer
<1>5. CASE CapRejectedReduce
  <2>1. sent' = eff' /\ eff' # None
    BY <1>5, TrackedModelAssumption DEF CapRejectedReduce
  <2>2. QED
    BY <2>1
<1>6. CASE OpenFails \/ ContextExceeded \/ OpenTerminal
  BY <1>6 DEF OpenFails, ContextExceeded, OpenTerminal, RetryOrFail
<1>7. CASE Chunk \/ StreamEnds \/ StreamTerminal
  BY <1>7 DEF Chunk, StreamEnds, StreamTerminal
<1>8. CASE UNCHANGED vars
  BY <1>8 DEF vars
<1>9. QED
  BY <1>1, <1>2, <1>3, <1>4, <1>5, <1>6, <1>7, <1>8 DEF Next

(***************************************************************************)
(* After the preflight the cap moves only down and never below the floor.  *)
(***************************************************************************)
THEOREM CapsOnlyShrink == Spec => CapOnlyShrinks
<1>1. Init => SentIsCurrent
  BY DEF Init, SentIsCurrent
<1>2. TypeOK /\ SentIsCurrent /\ [Next]_vars
      => [place # "probe" /\ eff' # eff =>
            /\ eff' >= MinMax
            /\ eff' < (IF eff = None THEN ConfigMax ELSE eff)]_vars
  <2> SUFFICES ASSUME TypeOK, SentIsCurrent, [Next]_vars, place # "probe", eff' # eff
               PROVE  /\ eff' >= MinMax
                      /\ eff' < (IF eff = None THEN ConfigMax ELSE eff)
    OBVIOUS
  <2>1. CapRejectedReduce
    BY DEF Next, vars, ProbeNoCap, ProbeCap, StartRun, EndRun, StartStream,
           StartWhole, StartRequest, StreamOpens, WholeAnswer, OpenFails,
           ContextExceeded, OpenTerminal, Chunk, StreamEnds, StreamTerminal
  <2>2. sent = RequestCap /\ sent \in Nat /\ sent > 2
    BY <2>1 DEF CapRejectedReduce, SentIsCurrent, TypeOK
  <2>3. eff' >= 2 /\ eff' < sent
    BY <2>1, <2>2 DEF CapRejectedReduce
  <2>4. QED
    BY <2>2, <2>3 DEF RequestCap
<1>3. QED
  BY TypeCorrect, SentStep, <1>1, <1>2, PTL DEF Spec, CapOnlyShrinks

(***************************************************************************)
(* The client implements what the pipeline assumes of the endpoint: every  *)
(* step is one outcome of one request, or leaves it and the streak alone.  *)
(***************************************************************************)
THEOREM ModelImplementsEndpoint == Spec => ImplementsEndpoint
<1> USE DEF E!endpointVars
<1>1. Init => E!EndpointInit
  BY DEF Init, E!EndpointInit
<1>2. TypeOK /\ [Next]_vars => [E!EndpointNext]_(E!endpointVars)
  <2> SUFFICES ASSUME TypeOK, [Next]_vars
               PROVE  [E!EndpointNext]_(E!endpointVars)
    OBVIOUS
  <2> USE DEF TypeOK
  <2>1. CASE ProbeNoCap \/ ProbeCap
    BY <2>1 DEF ProbeNoCap, ProbeCap, EndPreflight, probeVars
  <2>2. CASE (\E p \in PhaseIds : StartRun(p)) \/ EndRun
    BY <2>2 DEF StartRun, EndRun, AbandonRequest, E!EndpointNext, E!CloseStream
  <2>3. CASE StartStream \/ StartWhole
    BY <2>3 DEF StartStream, StartWhole, StartRequest
  <2>4. CASE StreamOpens
    BY <2>4 DEF StreamOpens, E!EndpointNext, E!OpenStream
  <2>5. CASE WholeAnswer
    BY <2>5 DEF WholeAnswer, E!EndpointNext, E!AnswerWhole
  <2>6. CASE CapRejectedReduce \/ OpenFails \/ ContextExceeded
    BY <2>6 DEF CapRejectedReduce, OpenFails, ContextExceeded, RetryOrFail
  <2>7. CASE OpenTerminal
    BY <2>7 DEF OpenTerminal, E!EndpointNext, E!RefuseTerminal
  <2>8. CASE Chunk
    BY <2>8 DEF Chunk
  <2>9. CASE StreamEnds
    BY <2>9 DEF StreamEnds, E!EndpointNext, E!CloseStream
  <2>10. CASE StreamTerminal
    BY <2>10 DEF StreamTerminal, E!EndpointNext, E!BreakTerminal
  <2>11. CASE UNCHANGED vars
    BY <2>11 DEF vars
  <2>12. QED
    BY <2>1, <2>2, <2>3, <2>4, <2>5, <2>6, <2>7, <2>8, <2>9, <2>10, <2>11 DEF Next
<1>3. QED
  BY <1>1, <1>2, TypeCorrect, PTL DEF Spec, ImplementsEndpoint, E!EndpointSpec

-----------------------------------------------------------------------------
(* The conversations of Transcript: what a history is, and what trimming   *)
(* and going on from one keep of it.                                       *)

HIDE DEF Opening, Reading, MinMax, TrackedModelAssumption

\* Requests call nothing and responses answer nothing.
Messages ==
    {m \in [kind : {"request", "response"}, prompt : BOOLEAN, calls : SUBSET Nat,
            returns : SUBSET Nat, retries : SUBSET Nat] :
        /\ m.kind = "request" => m.calls = {}
        /\ m.kind = "response" => Answered(m) = {}}

\* The pairs of calls and answers, up to the last message.
Answers(m) ==
    \A i \in 1 .. Len(m) :
        /\ m[i].kind = "response" /\ i < Len(m) => Answered(m[i + 1]) = m[i].calls
        /\ Answered(m[i]) # {} => i > 1 /\ m[i - 1].calls = Answered(m[i])

\* It ends with no open call.
Closed(m) == m # <<>> => Last(m).calls = {}

\* What ran of a response is in the message behind it.
Evidence(m, done) ==
    \A i \in 1 .. Len(m) : i < Len(m) => done \cap m[i].calls \subseteq m[i + 1].returns

\* What concatenating, appending, the last element and the front are.
LEMMA Concatenated ==
    ASSUME NEW S, NEW s \in Seq(S), NEW t \in Seq(S)
    PROVE  s \o t \in Seq(S) /\ Len(s \o t) = Len(s) + Len(t)
OBVIOUS

LEMMA AppendedTwice ==
    ASSUME NEW S, NEW s \in Seq(S), NEW x \in S, NEW y \in S
    PROVE  s \o <<x, y>> = Append(Append(s, x), y)
<1>1. <<x, y>> = Append(Append(<<>>, x), y)
  OBVIOUS
<1>2. QED
  OBVIOUS

LEMMA LastOf ==
    ASSUME NEW S, NEW s \in Seq(S), s # <<>>
    PROVE  Len(s) \in Nat /\ Len(s) >= 1 /\ Last(s) = s[Len(s)] /\ Last(s) \in S
BY DEF Last

LEMMA LastAppended ==
    ASSUME NEW S, NEW s \in Seq(S), NEW x
    PROVE  /\ Last(Append(s, x)) = x /\ Append(s, x) # <<>>
           /\ Len(Append(s, x)) = Len(s) + 1
<1>1. Len(s) \in Nat
  OBVIOUS
<1>2. Len(Append(s, x)) = Len(s) + 1 /\ Append(s, x)[Len(s) + 1] = x
  BY <1>1
<1>3. QED
  BY <1>1, <1>2 DEF Last

LEMMA FrontOf ==
    ASSUME NEW S, NEW s \in Seq(S), s # <<>>
    PROVE  /\ Front(s) \in Seq(S) /\ Len(Front(s)) = Len(s) - 1
           /\ \A i \in 1 .. Len(s) - 1 : Front(s)[i] = s[i]
<1>1. Len(s) \in Nat /\ Len(s) >= 1
  OBVIOUS
<1>2. PICK n \in Nat : n = Len(s) - 1
  BY <1>1
<1>3. /\ SubSeq(s, 1, n) \in Seq(S) /\ Len(SubSeq(s, 1, n)) = n
      /\ \A i \in 1 .. n : SubSeq(s, 1, n)[i] = s[i]
  BY <1>1, <1>2
<1>4. QED
  BY <1>2, <1>3 DEF Front

\* How much of a history is kept.
Kept(s) == SelectLastInSeq(s, LAMBDA m : ~ IsDangling(m))

\* Trim in terms of what is kept.
LEMMA TrimIs ==
    ASSUME NEW m
    PROVE  /\ m # <<>> /\ IsPrompt(Last(m)) => Trim(m) = SubSeq(Front(m), 1, Kept(Front(m)))
           /\ ~ (m # <<>> /\ IsPrompt(Last(m))) => Trim(m) = SubSeq(m, 1, Kept(m))
BY DEF Trim, Kept

\* The kept part ends with the last message that leaves no call open.
LEMMA KeptIs ==
    ASSUME NEW s, NEW n \in Nat, Len(s) = n
    PROVE  /\ \A k \in 1 .. n :
                 ~ IsDangling(s[k]) /\ (\A i \in 1 .. n : i > k => IsDangling(s[i])) => Kept(s) = k
           /\ (\A i \in 1 .. n : IsDangling(s[i])) => Kept(s) = 0
<1> DEFINE I == {i \in 1 .. n : ~ IsDangling(s[i])}
<1>1. Kept(s) = IF I # {} THEN Max(I) ELSE 0
  BY DEF Kept, SelectLastInSeq
<1>2. ASSUME NEW k \in 1 .. n, ~ IsDangling(s[k]), \A i \in 1 .. n : i > k => IsDangling(s[i])
      PROVE  Kept(s) = k
  <2>1. k \in I /\ \A i \in I : k >= i
    BY <1>2
  <2>2. I \subseteq Int
    OBVIOUS
  <2> HIDE DEF I
  <2>3. Max(I) = CHOOSE x \in I : \A y \in I : x >= y
    BY DEF Max
  <2>4. PICK x : x = Max(I)
    OBVIOUS
  <2>5. x \in I /\ \A y \in I : x >= y
    BY <2>1, <2>3, <2>4, Zenon
  <2>6. x = k
    BY <2>1, <2>2, <2>5
  <2>7. QED
    BY <1>1, <2>1, <2>4, <2>6
<1>3. (\A i \in 1 .. n : IsDangling(s[i])) => I = {}
  OBVIOUS
<1> HIDE DEF I
<1>4. QED
  BY <1>1, <1>2, <1>3

\* Its responses are answered, and it ends with a request.
Sent(m) == Answers(m) /\ (m # <<>> => Last(m).kind = "request")

\* t is an accepted history made of m that lacks nothing of what ran.
TrimmedTo(t, m, done) ==
    /\ t \in Seq(Messages) /\ Answers(t) /\ Closed(t) /\ Evidence(t, done)
    /\ CallsIn(t) \subseteq CallsIn(m)
    /\ done \cap CallsIn(m) \subseteq CallsIn(t)

\* What the fields of a message are.
LEMMA InMessages ==
    ASSUME NEW m \in Messages
    PROVE  /\ m.kind \in {"request", "response"} /\ m.calls \subseteq Nat
           /\ m.returns \subseteq Nat /\ m.retries \subseteq Nat
           /\ m.kind = "request" => m.calls = {}
           /\ m.kind = "response" => Answered(m) = {} /\ m.returns = {}
BY DEF Messages, Answered

\* The calls of a message are calls of its conversation.
LEMMA CallsOf ==
    ASSUME NEW m \in Seq(Messages)
    PROVE  \A c : c \in CallsIn(m) <=> \E i \in 1 .. Len(m) : c \in m[i].calls
<1>1. DOMAIN m = 1 .. Len(m)
  OBVIOUS
<1>2. CallsIn(m) = UNION {m[i].calls : i \in 1 .. Len(m)}
  BY <1>1 DEF CallsIn
<1>3. QED
  BY <1>2

\* A beginning of a conversation that leaves off nothing that ran.
LEMMA PrefixKeeps ==
    ASSUME NEW m \in Seq(Messages), Answers(m), NEW done, Evidence(m, done),
           NEW k \in 0 .. Len(m), NEW t, t = SubSeq(m, 1, k),
           k > 0 => ~ IsDangling(m[k]),
           \A i \in 1 .. Len(m) : i > k => done \cap m[i].calls = {}
    PROVE  TrimmedTo(t, m, done)
<1>1. Len(m) \in Nat /\ k \in Nat /\ k <= Len(m)
  OBVIOUS
<1>2. t \in Seq(Messages) /\ Len(t) = k /\ \A i \in 1 .. k : t[i] = m[i]
  BY <1>1
<1>3. Answers(t)
  <2>1. ASSUME NEW i \in 1 .. k, t[i].kind = "response", i < k
        PROVE  Answered(t[i + 1]) = t[i].calls
    <3>1. i \in 1 .. Len(m) /\ i < Len(m) /\ i + 1 \in 1 .. k
      BY <1>1, <2>1
    <3>2. t[i] = m[i] /\ t[i + 1] = m[i + 1]
      BY <1>2, <3>1
    <3>3. Answered(m[i + 1]) = m[i].calls
      BY <2>1, <3>1, <3>2 DEF Answers
    <3>4. QED
      BY <3>2, <3>3
  <2>2. ASSUME NEW i \in 1 .. k, Answered(t[i]) # {}
        PROVE  i > 1 /\ t[i - 1].calls = Answered(t[i])
    <3>1. i \in 1 .. Len(m) /\ t[i] = m[i]
      BY <1>1, <1>2
    <3>2. i > 1 /\ m[i - 1].calls = Answered(m[i])
      BY <2>2, <3>1 DEF Answers
    <3>3. i - 1 \in 1 .. k
      BY <1>1, <3>2
    <3>4. QED
      BY <1>2, <3>1, <3>2, <3>3
  <2>3. QED
    BY <1>2, <2>1, <2>2 DEF Answers
<1>4. Closed(t)
  <2>1. ASSUME t # <<>> PROVE Last(t).calls = {}
    <3>1. Last(t) = t[k] /\ k >= 1 /\ Last(t) \in Messages
      <4>1. Len(t) >= 1 /\ Last(t) = t[Len(t)] /\ Last(t) \in Messages
        BY <1>2, <2>1, LastOf
      <4>2. QED
        BY <1>2, <4>1
    <3>2. t[k] = m[k] /\ ~ IsDangling(m[k])
      BY <1>1, <1>2, <3>1
    <3>3. QED
      BY <3>1, <3>2, InMessages DEF IsDangling
  <2>2. QED
    BY <2>1 DEF Closed
<1>5. Evidence(t, done)
  <2>1. ASSUME NEW i \in 1 .. k, i < k
        PROVE  done \cap t[i].calls \subseteq t[i + 1].returns
    <3>1. i \in 1 .. Len(m) /\ i < Len(m) /\ i + 1 \in 1 .. k
      BY <1>1, <2>1
    <3>2. QED
      BY <1>2, <3>1 DEF Evidence
  <2>2. QED
    BY <1>2, <2>1 DEF Evidence
<1>6. \A c : c \in CallsIn(t) <=> \E i \in 1 .. k : c \in m[i].calls
  <2>1. \A c : c \in CallsIn(t) <=> \E i \in 1 .. Len(t) : c \in t[i].calls
    BY <1>2, CallsOf
  <2>2. QED
    BY <1>2, <2>1
<1>7. \A c : c \in CallsIn(m) <=> \E i \in 1 .. Len(m) : c \in m[i].calls
  BY CallsOf
<1>8. CallsIn(t) \subseteq CallsIn(m)
  BY <1>1, <1>6, <1>7
<1>9. done \cap CallsIn(m) \subseteq CallsIn(t)
  <2>1. ASSUME NEW c \in done, c \in CallsIn(m) PROVE c \in CallsIn(t)
    <3>1. PICK i \in 1 .. Len(m) : c \in m[i].calls
      BY <1>7, <2>1
    <3>2. i \in 1 .. k
      BY <1>1, <3>1
    <3>3. QED
      BY <1>6, <3>1, <3>2
  <2>2. QED
    BY <2>1
<1>10. QED
  BY <1>2, <1>3, <1>4, <1>5, <1>8, <1>9 DEF TrimmedTo

\* Trim cuts off an end of the history in which nothing ran.
LEMMA TrimLeavesOff ==
    ASSUME NEW m \in Seq(Messages), Sent(m)
    PROVE  \E k \in 0 .. Len(m) :
              /\ Trim(m) = SubSeq(m, 1, k)
              /\ k > 0 => ~ IsDangling(m[k])
              /\ \A done : Evidence(m, done) =>
                    \A i \in 1 .. Len(m) : i > k => done \cap m[i].calls = {}
<1>1. Len(m) \in Nat
  OBVIOUS
<1>2. CASE m = <<>>
  <2>1. Kept(m) = 0
    <3>1. Len(m) = 0
      BY <1>2
    <3>2. QED
      BY <3>1, KeptIs
  <2>2. Trim(m) = SubSeq(m, 1, 0)
    BY <1>2, <2>1, TrimIs
  <2>3. QED
    BY <1>2, <2>2
<1>3. CASE m # <<>> /\ ~ IsPrompt(Last(m))
  <2>1. Len(m) \in 1 .. Len(m) /\ ~ IsDangling(m[Len(m)])
    BY <1>3, LastOf DEF Sent, IsDangling
  <2>2. Kept(m) = Len(m)
    <3>1. \A i \in 1 .. Len(m) : i > Len(m) => IsDangling(m[i])
      BY <1>1
    <3>2. QED
      BY <1>1, <2>1, <3>1, KeptIs
  <2>3. Trim(m) = SubSeq(m, 1, Len(m))
    BY <1>3, <2>2, TrimIs
  <2>4. QED
    BY <1>1, <2>1, <2>3
<1>4. CASE m # <<>> /\ IsPrompt(Last(m))
  <2>1. PICK n \in Nat : n = Len(m) - 1
    BY <1>4
  <2>2. PICK f : f = Front(m)
    OBVIOUS
  <2>3. f \in Seq(Messages) /\ Len(f) = n /\ \A i \in 1 .. n : f[i] = m[i]
    BY <1>4, <2>1, <2>2, FrontOf
  <2>4. m[n + 1].kind = "request" /\ m[n + 1].returns = {} /\ m[n + 1].calls = {}
        /\ \A i \in 1 .. n + 1 : m[i] \in Messages
    BY <1>1, <1>4, <2>1, LastOf, InMessages DEF Sent, IsPrompt
  <2>5. Trim(m) = SubSeq(f, 1, Kept(f))
    BY <1>4, <2>2, TrimIs
  <2>6. \A k \in 0 .. n : SubSeq(f, 1, k) = SubSeq(m, 1, k)
    <3>1. ASSUME NEW k \in 0 .. n PROVE SubSeq(f, 1, k) = SubSeq(m, 1, k)
      <4>1. \A i \in 1 .. k : f[i] = m[i]
        BY <2>3
      <4>2. k <= Len(f) /\ k <= Len(m) /\ k \in Nat
        BY <2>1, <2>3
      <4>3. QED
        BY <2>3, <4>1, <4>2
    <3>2. QED
      BY <3>1
  <2>7. CASE n = 0
    <3>1. Kept(f) = 0
      BY <2>3, <2>7, KeptIs
    <3>2. Trim(m) = SubSeq(m, 1, 0)
      BY <2>5, <2>6, <2>7, <3>1
    <3>3. \A i \in 1 .. Len(m) : m[i].calls = {}
      <4>1. Len(m) = 1 /\ n + 1 = 1
        BY <1>1, <2>1, <2>7
      <4>2. \A i \in 1 .. 1 : i = 1
        OBVIOUS
      <4>3. QED
        BY <2>4, <4>1, <4>2
    <3>4. 0 \in 0 .. Len(m)
      BY <1>1
    <3>5. QED
      BY <3>2, <3>3, <3>4
  <2>8. CASE n > 0 /\ ~ IsDangling(m[n])
    <3>1. Kept(f) = n
      <4>1. n \in 1 .. n /\ f[n] = m[n] /\ \A i \in 1 .. n : i > n => IsDangling(f[i])
        BY <2>3, <2>8
      <4>2. QED
        BY <2>3, <2>8, <4>1, KeptIs
    <3>2. Trim(m) = SubSeq(m, 1, n)
      BY <2>5, <2>6, <3>1
    <3>3. QED
      BY <2>1, <2>4, <2>8, <3>2
  <2>9. CASE n > 0 /\ IsDangling(m[n])
    <3>1. m[n].kind = "response" /\ m[n].calls # {} /\ Answered(m[n]) = {}
      BY <2>4, <2>9, InMessages DEF IsDangling
    <3>2. \A done : Evidence(m, done) =>
             \A i \in 1 .. Len(m) : i > n - 1 => done \cap m[i].calls = {}
      <4>1. ASSUME NEW done, Evidence(m, done), NEW i \in 1 .. Len(m), i > n - 1
            PROVE  done \cap m[i].calls = {}
        <5>1. i = n \/ i = n + 1
          BY <2>1, <4>1
        <5>2. n \in 1 .. Len(m) /\ n < Len(m)
          BY <2>1, <2>9
        <5>3. done \cap m[n].calls \subseteq m[n + 1].returns
          BY <4>1, <5>2 DEF Evidence
        <5>4. QED
          BY <2>4, <5>1, <5>3
      <4>2. QED
        BY <4>1
    <3>3. CASE n = 1
      <4>1. \A i \in 1 .. Len(f) : IsDangling(f[i])
        BY <2>3, <2>9, <3>3
      <4>2. Kept(f) = 0
        BY <4>1, KeptIs
      <4>3. Trim(m) = SubSeq(m, 1, 0)
        BY <2>5, <2>6, <4>2
      <4>4. QED
        BY <1>1, <3>2, <3>3, <4>3
    <3>4. CASE n > 1
      <4>1. n - 1 \in 1 .. n /\ n - 1 \in 1 .. Len(m) /\ n - 1 < Len(m) /\ (n - 1) + 1 = n
        BY <2>1, <3>4
      <4>2. ~ IsDangling(m[n - 1])
        <5>1. m[n - 1].kind = "response" => Answered(m[n]) = m[n - 1].calls
          BY <4>1 DEF Sent, Answers
        <5>2. QED
          BY <3>1, <5>1 DEF IsDangling
      <4>3. Kept(f) = n - 1
        <5>1. f[n - 1] = m[n - 1] /\ f[n] = m[n]
          BY <2>3, <3>4, <4>1
        <5>2. \A i \in 1 .. Len(f) : i > n - 1 => IsDangling(f[i])
          <6>1. \A i \in 1 .. Len(f) : i > n - 1 => i = n
            BY <2>3
          <6>2. QED
            BY <2>9, <5>1, <6>1
        <5>3. QED
          BY <2>3, <4>1, <4>2, <5>1, <5>2, KeptIs
      <4>4. Trim(m) = SubSeq(m, 1, n - 1)
        BY <2>5, <2>6, <4>1, <4>3
      <4>5. QED
        BY <2>1, <3>2, <4>1, <4>2, <4>4
    <3>5. QED
      BY <2>9, <3>3, <3>4
  <2>10. QED
    BY <2>7, <2>8, <2>9
<1>5. QED
  BY <1>2, <1>3, <1>4

\* Trimming keeps the history accepted and all that ran.
LEMMA TrimKeeps ==
    ASSUME NEW m \in Seq(Messages), Sent(m), NEW done, Evidence(m, done)
    PROVE  TrimmedTo(Trim(m), m, done)
<1>1. PICK k \in 0 .. Len(m) :
          /\ Trim(m) = SubSeq(m, 1, k)
          /\ k > 0 => ~ IsDangling(m[k])
          /\ \A i \in 1 .. Len(m) : i > k => done \cap m[i].calls = {}
  BY TrimLeavesOff
<1>2. Answers(m)
  BY DEF Sent
<1>3. QED
  BY <1>1, <1>2, PrefixKeeps, Zenon

\* The history a fresh conversation begins with.
LEMMA EmptyHistory ==
    <<>> \in Seq(Messages) /\ Answers(<<>>) /\ Closed(<<>>)
    /\ (\A done : Evidence(<<>>, done)) /\ CallsIn(<<>>) = {}
BY DEF Answers, Closed, Evidence, CallsIn

\* A message x behind the history t: it answers its calls and no others.
Follows(x, t, done) ==
    /\ x \in Messages
    /\ IF t # <<>> /\ Last(t).kind = "response"
       THEN Answered(x) = Last(t).calls /\ done \cap Last(t).calls \subseteq x.returns
       ELSE Answered(x) = {}

\* c is t with x behind it, accepted so far.
Grows(c, t, x, done) ==
    /\ c \in Seq(Messages) /\ c # <<>> /\ Last(c) = x
    /\ Answers(c) /\ Evidence(c, done)
    /\ CallsIn(c) = CallsIn(t) \cup x.calls

\* A message that follows makes the conversation grow.
LEMMA OneMessageMore ==
    ASSUME NEW t \in Seq(Messages), NEW x, NEW done,
           Answers(t), Evidence(t, done), Follows(x, t, done)
    PROVE  Grows(Append(t, x), t, x, done)
<1> DEFINE c == Append(t, x)
           n == Len(t)
<1>x. x \in Messages
  BY DEF Follows
<1>1. /\ n \in Nat /\ c \in Seq(Messages) /\ Len(c) = n + 1 /\ c # <<>>
      /\ c[n + 1] = x /\ \A i \in 1 .. n : c[i] = t[i]
  <2>1. n \in Nat /\ c \in Seq(Messages) /\ Len(c) = n + 1
    BY <1>x
  <2>2. c[n + 1] = x
    BY <2>1
  <2>3. \A i \in 1 .. n : c[i] = t[i]
    BY <2>1
  <2>4. c # <<>>
    <3> HIDE DEF c
    <3>1. QED
      BY <2>1
  <2>5. QED
    BY <2>1, <2>2, <2>3, <2>4
<1>2. Last(c) = x
  BY <1>1 DEF Last
<1>3. n > 0 => Last(t) = t[n] /\ t # <<>> /\ t[n] \in Messages
  BY LastOf
<1>0. n > 0 => /\ t[n].calls = {} \/ t[n].kind = "response"
               /\ done \cap t[n].calls \subseteq x.returns
               /\ t[n].kind = "response" => Answered(x) = t[n].calls
               /\ Answered(x) # {} => t[n].calls = Answered(x)
  BY <1>3, InMessages DEF Follows
<1> HIDE DEF c
<1>4. ASSUME NEW i \in 1 .. n + 1, c[i].kind = "response", i < n + 1
      PROVE  Answered(c[i + 1]) = c[i].calls
  <2>1. CASE i = n
    BY <1>0, <1>1, <1>4, <2>1
  <2>2. CASE i < n
    <3>1. i \in 1 .. n /\ i + 1 \in 1 .. n
      BY <1>1, <2>2
    <3>2. QED
      BY <1>1, <1>4, <2>2, <3>1 DEF Answers
  <2>3. QED
    BY <1>1, <1>4, <2>1, <2>2
<1>5. ASSUME NEW i \in 1 .. n + 1, Answered(c[i]) # {}
      PROVE  i > 1 /\ c[i - 1].calls = Answered(c[i])
  <2>1. CASE i = n + 1
    <3>1. n > 0 /\ Answered(x) = t[n].calls
      <4>1. Answered(x) # {}
        BY <1>1, <1>5, <2>1
      <4>2. n > 0
        <5>1. n = 0 => t = <<>>
          OBVIOUS
        <5>2. QED
          BY <1>1, <4>1, <5>1 DEF Follows
      <4>3. QED
        BY <1>0, <4>1, <4>2
    <3>2. i - 1 = n /\ n \in 1 .. n
      BY <1>1, <2>1, <3>1
    <3>3. QED
      BY <1>1, <1>3, <2>1, <3>1, <3>2
  <2>2. CASE i \in 1 .. n
    <3>1. i > 1 /\ t[i - 1].calls = Answered(t[i])
      BY <1>1, <1>5, <2>2 DEF Answers
    <3>2. i - 1 \in 1 .. n
      BY <1>1, <2>2, <3>1
    <3>3. QED
      BY <1>1, <2>2, <3>1, <3>2
  <2>3. QED
    BY <1>1, <1>5, <2>1, <2>2
<1>6. Answers(c)
  BY <1>1, <1>4, <1>5 DEF Answers
<1>7. Evidence(c, done)
  <2>1. ASSUME NEW i \in 1 .. n + 1, i < n + 1
        PROVE  done \cap c[i].calls \subseteq c[i + 1].returns
    <3>1. CASE i = n
      BY <1>0, <1>1, <2>1, <3>1
    <3>2. CASE i < n
      <4>1. i \in 1 .. n /\ i + 1 \in 1 .. n
        BY <1>1, <2>1, <3>2
      <4>2. QED
        BY <1>1, <3>2, <4>1 DEF Evidence
    <3>3. QED
      BY <1>1, <2>1, <3>1, <3>2
  <2>2. QED
    BY <1>1, <2>1 DEF Evidence
<1>8. CallsIn(c) = CallsIn(t) \cup x.calls
  <2>1. \A y : y \in CallsIn(c) <=> \E i \in 1 .. n + 1 : y \in c[i].calls
    BY <1>1, CallsOf
  <2>2. \A y : y \in CallsIn(t) <=> \E i \in 1 .. n : y \in t[i].calls
    BY CallsOf
  <2>3. 1 .. n + 1 = (1 .. n) \cup {n + 1}
    BY <1>1
  <2>4. \A y : y \in CallsIn(c) <=> y \in CallsIn(t) \/ y \in x.calls
    BY <1>1, <2>1, <2>2, <2>3
  <2>5. QED
    BY <2>4
<1>9. QED
  BY <1>1, <1>2, <1>6, <1>7, <1>8 DEF c, Grows

\* The messages of the request that is being made or has been made.
Base == IF pc = "ready" THEN convo ELSE last

\* The types, and the calls numbered so far.
TranscriptTyped ==
    /\ merges \in BOOLEAN
    /\ pc \in {"ready", "waiting", "tools"} /\ stage \in Stages
    /\ idOf \in Seq(Ids)
    /\ ran \subseteq 1 .. Len(idOf)
    /\ Base \in Seq(Messages) /\ CallsIn(Base) \subseteq 1 .. Len(idOf)

\* No tool that ran is forgotten but those of the response that was cut off.
Remembered ==
    ran \ CallsIn(Base) \subseteq IF stage \in Fresh THEN {} ELSE latest

\* A response that has come in makes new calls.
Incoming ==
    /\ pc = "waiting" => convo = last
    /\ pc = "tools" =>
          \E calls \in SUBSET (1 .. Len(idOf)) :
              /\ convo = Append(last, Response(calls))
              /\ calls \cap ran = {} /\ calls \cap CallsIn(last) = {}
              /\ stage \in Fresh => latest = calls

\* The inductive invariant.
TranscriptInv ==
    TranscriptTyped /\ Sent(Base) /\ Evidence(Base, ran) /\ Remembered /\ Incoming

\* A history that may be sent, with the calls of t and what ran of them.
GoesOn(c, t, done) ==
    /\ c \in Seq(Messages) /\ c # <<>> /\ Sent(c) /\ Evidence(c, done)
    /\ CallsIn(c) = CallsIn(t)

\* The messages that are put together are messages.
LEMMA PromptIs ==
    /\ Prompt \in Messages /\ Prompt.kind = "request"
    /\ Prompt.calls = {} /\ Answered(Prompt) = {}
BY DEF Prompt, Request, Messages, Answered

LEMMA ResponseIs ==
    ASSUME NEW calls \in SUBSET Nat, NEW r, r = Response(calls)
    PROVE  r \in Messages /\ r.kind = "response" /\ r.calls = calls /\ Answered(r) = {}
BY DEF Response, Messages, Answered

\* A prompt, merged or behind it, leaves a closed history accepted.
LEMMA ContinueKeeps ==
    ASSUME NEW t \in Seq(Messages), Answers(t), Closed(t), NEW done, Evidence(t, done)
    PROVE  GoesOn(Continue(t), t, done)
<1>1. CASE merges /\ t # <<>> /\ Last(t).kind = "request"
  <2> DEFINE n == Len(t)
             x == [t[n] EXCEPT !.prompt = TRUE]
             c == [t EXCEPT ![n].prompt = TRUE]
  <2>1. n \in 1 .. n /\ n \in Nat /\ Last(t) = t[n] /\ t[n] \in Messages
    BY <1>1, LastOf
  <2>2. /\ x \in Messages /\ x.kind = t[n].kind /\ x.calls = t[n].calls
        /\ x.returns = t[n].returns /\ Answered(x) = Answered(t[n])
    <3>1. t[n] \in [kind : {"request", "response"}, prompt : BOOLEAN, calls : SUBSET Nat,
                    returns : SUBSET Nat, retries : SUBSET Nat]
      BY <2>1 DEF Messages
    <3>2. /\ x.kind = t[n].kind /\ x.calls = t[n].calls
          /\ x.returns = t[n].returns /\ x.retries = t[n].retries
          /\ x \in [kind : {"request", "response"}, prompt : BOOLEAN, calls : SUBSET Nat,
                    returns : SUBSET Nat, retries : SUBSET Nat]
      BY <3>1
    <3> HIDE DEF x
    <3>3. QED
      BY <2>1, <3>2 DEF Messages, Answered
  <2>3. c = [t EXCEPT ![n] = x] /\ Continue(t) = c
    BY <1>1 DEF Continue
  <2>4. /\ c \in Seq(Messages) /\ Len(c) = n /\ c[n] = x
        /\ \A i \in 1 .. n : i # n => c[i] = t[i]
    <3> HIDE DEF x, c
    <3>1. QED
      BY <2>1, <2>2, <2>3
  <2> HIDE DEF x, c
  <2>5. \A i \in 1 .. n : /\ c[i].kind = t[i].kind /\ c[i].calls = t[i].calls
                          /\ c[i].returns = t[i].returns /\ Answered(c[i]) = Answered(t[i])
    BY <2>1, <2>2, <2>4
  <2>6. Answers(c)
    <3>1. ASSUME NEW i \in 1 .. n, c[i].kind = "response", i < n
          PROVE  Answered(c[i + 1]) = c[i].calls
      <4>1. i + 1 \in 1 .. n
        BY <2>1, <3>1
      <4>2. Answered(t[i + 1]) = t[i].calls
        BY <2>5, <3>1 DEF Answers
      <4>3. QED
        BY <2>5, <4>1, <4>2
    <3>2. ASSUME NEW i \in 1 .. n, Answered(c[i]) # {}
          PROVE  i > 1 /\ c[i - 1].calls = Answered(c[i])
      <4>1. i > 1 /\ t[i - 1].calls = Answered(t[i])
        BY <2>5, <3>2 DEF Answers
      <4>2. i - 1 \in 1 .. n
        BY <2>1, <4>1
      <4>3. QED
        BY <2>5, <4>1, <4>2
    <3>3. QED
      BY <2>4, <3>1, <3>2 DEF Answers
  <2>7. Evidence(c, done)
    <3>1. ASSUME NEW i \in 1 .. n, i < n
          PROVE  done \cap c[i].calls \subseteq c[i + 1].returns
      <4>1. i + 1 \in 1 .. n
        BY <2>1, <3>1
      <4>2. QED
        BY <2>5, <3>1, <4>1 DEF Evidence
    <3>2. QED
      BY <2>4, <3>1 DEF Evidence
  <2>8. CallsIn(c) = CallsIn(t)
    <3>1. \A y : y \in CallsIn(c) <=> \E i \in 1 .. n : y \in c[i].calls
      BY <2>4, CallsOf
    <3>2. \A y : y \in CallsIn(t) <=> \E i \in 1 .. n : y \in t[i].calls
      BY CallsOf
    <3>3. \A y : y \in CallsIn(c) <=> y \in CallsIn(t)
      BY <2>5, <3>1, <3>2
    <3>4. QED
      BY <3>3
  <2>9. c # <<>> /\ Last(c).kind = "request"
    <3>1. c # <<>>
      BY <2>1, <2>4
    <3>2. Last(c) = c[n]
      BY <2>4, <3>1, LastOf
    <3>3. QED
      BY <1>1, <2>1, <2>2, <2>4, <3>1, <3>2
  <2>10. QED
    BY <2>3, <2>4, <2>6, <2>7, <2>8, <2>9 DEF GoesOn, Sent
<1>2. CASE ~ (merges /\ t # <<>> /\ Last(t).kind = "request")
  <2>1. Continue(t) = Append(t, Prompt)
    BY <1>2 DEF Continue
  <2>2. Follows(Prompt, t, done)
    BY PromptIs DEF Closed, Follows
  <2>3. Grows(Append(t, Prompt), t, Prompt, done)
    BY <2>2, OneMessageMore
  <2>4. QED
    BY <2>1, <2>3, PromptIs DEF GoesOn, Grows, Sent
<1>3. QED
  BY <1>1, <1>2

\* What a conversation is that goes on from m when done has run in m.
Resumes(c, m, done) ==
    /\ c \in Seq(Messages) /\ Sent(c) /\ Evidence(c, done)
    /\ CallsIn(c) \subseteq CallsIn(m) /\ done \cap CallsIn(m) \subseteq CallsIn(c)

\* Trimming and going on, together.
LEMMA TrimmedGoesOn ==
    ASSUME NEW m \in Seq(Messages), Sent(m), NEW done, Evidence(m, done)
    PROVE  Resumes(Continue(Trim(m)), m, done)
<1>1. PICK t : t = Trim(m)
  OBVIOUS
<1>2. TrimmedTo(t, m, done)
  BY <1>1, TrimKeeps, Zenon
<1>3. GoesOn(Continue(t), t, done)
  BY <1>2, ContinueKeeps DEF TrimmedTo
<1>4. PICK c : c = Continue(t)
  OBVIOUS
<1>5. Resumes(c, m, done)
  BY <1>2, <1>3, <1>4 DEF TrimmedTo, GoesOn, Resumes
<1>6. QED
  BY <1>1, <1>4, <1>5

\* What is to be shown of a request that is ready to be sent.
LEMMA BeginsReady ==
    ASSUME merges' \in BOOLEAN, pc' = "ready", stage' \in Stages, idOf' \in Seq(Ids),
           ran' \subseteq 1 .. Len(idOf'),
           convo' \in Seq(Messages), CallsIn(convo') \subseteq 1 .. Len(idOf'),
           Sent(convo'), Evidence(convo', ran'),
           ran' \ CallsIn(convo') \subseteq IF stage' \in Fresh THEN {} ELSE latest'
    PROVE  TranscriptInv'
BY DEF TranscriptInv, TranscriptTyped, Base, Remembered, Incoming

\* A fresh conversation.
LEMMA BeginsFresh ==
    ASSUME TranscriptInv, NEW s \in Fresh, Begin(s), merges' = merges
    PROVE  TranscriptInv'
<1>1. /\ pc' = "ready" /\ stage' = s /\ convo' = Continue(<<>>)
      /\ idOf' = <<>> /\ ran' = {} /\ latest' = {}
  BY DEF Begin
<1>2. GoesOn(Continue(<<>>), <<>>, {})
  BY EmptyHistory, ContinueKeeps
<1>3. convo' \in Seq(Messages) /\ CallsIn(convo') = {} /\ Sent(convo') /\ Evidence(convo', ran')
  BY <1>1, <1>2, EmptyHistory DEF GoesOn
<1>4. merges' \in BOOLEAN /\ stage' \in Stages /\ idOf' \in Seq(Ids)
  BY <1>1 DEF TranscriptInv, TranscriptTyped, Stages
<1>5. ran' \subseteq 1 .. Len(idOf') /\ ran' \ CallsIn(convo') = {}
  BY <1>1
<1>6. QED
  BY <1>1, <1>3, <1>4, <1>5, BeginsReady

\* An ask or the relay goes on from the last request.
LEMMA Resumed ==
    ASSUME TranscriptInv, pc \in {"waiting", "tools"},
           merges' = merges, pc' = "ready", stage' \in Stages \ Fresh,
           convo' = Continue(Trim(last)),
           idOf' \in Seq(Ids), Len(idOf) <= Len(idOf'),
           NEW done \in SUBSET (IF pc = "tools" /\ stage \in Fresh THEN Last(convo).calls ELSE {}),
           ran' = ran \cup done,
           done \subseteq latest',
           stage \notin Fresh => latest' = latest
    PROVE  TranscriptInv'
<1>1. /\ last \in Seq(Messages) /\ Sent(last) /\ Evidence(last, ran)
      /\ CallsIn(last) \subseteq 1 .. Len(idOf) /\ ran \subseteq 1 .. Len(idOf)
      /\ ran \ CallsIn(last) \subseteq IF stage \in Fresh THEN {} ELSE latest
  BY DEF TranscriptInv, TranscriptTyped, Base, Remembered
<1>2. done \cap CallsIn(last) = {} /\ done \subseteq 1 .. Len(idOf)
  <2>1. CASE done = {}
    BY <2>1
  <2>2. CASE pc = "tools" /\ done \subseteq Last(convo).calls
    <3>1. PICK calls \in SUBSET (1 .. Len(idOf)) :
             convo = Append(last, Response(calls)) /\ calls \cap CallsIn(last) = {}
      BY <2>2 DEF TranscriptInv, Incoming
    <3>2. Last(convo) = Response(calls)
      BY <1>1, <3>1, LastAppended
    <3>3. Last(convo).calls = calls
      BY <3>2 DEF Response
    <3>4. QED
      BY <2>2, <3>1, <3>3
  <2>3. QED
    BY <2>1, <2>2
<1>3. Evidence(last, ran')
  <2>1. ASSUME NEW i \in 1 .. Len(last) PROVE ran' \cap last[i].calls = ran \cap last[i].calls
    <3>1. last[i].calls \subseteq CallsIn(last)
      BY <1>1, CallsOf
    <3>2. QED
      BY <1>2, <3>1
  <2>2. QED
    BY <1>1, <2>1 DEF Evidence
<1>4. PICK c : c = Continue(Trim(last))
  OBVIOUS
<1>5. Resumes(c, last, ran')
  BY <1>1, <1>3, <1>4, TrimmedGoesOn
<1>6. /\ c \in Seq(Messages) /\ Sent(c) /\ Evidence(c, ran')
      /\ CallsIn(c) \subseteq CallsIn(last) /\ ran' \cap CallsIn(last) \subseteq CallsIn(c)
  BY <1>5 DEF Resumes
<1>7. 1 .. Len(idOf) \subseteq 1 .. Len(idOf')
  <2>1. Len(idOf) \in Nat /\ Len(idOf') \in Nat
    BY DEF TranscriptInv, TranscriptTyped
  <2>2. QED
    BY <2>1
<1>8. ran' \subseteq 1 .. Len(idOf') /\ CallsIn(c) \subseteq 1 .. Len(idOf')
  BY <1>1, <1>2, <1>6, <1>7
<1>9. ran' \ CallsIn(c) \subseteq latest'
  BY <1>1, <1>6
<1>10. convo' = c /\ stage' \notin Fresh /\ stage' \in Stages /\ merges' \in BOOLEAN
  BY <1>4 DEF TranscriptInv, TranscriptTyped
<1>11. QED
  BY <1>6, <1>8, <1>9, <1>10, BeginsReady

\* It holds at the start, every step preserves it, and so it always holds.
LEMMA TranscriptStarts == TranscriptInit => TranscriptInv
<1> SUFFICES ASSUME TranscriptInit PROVE TranscriptInv
  OBVIOUS
<1>1. Follows(Prompt, <<>>, {})
  BY PromptIs DEF Follows
<1>2. Grows(Append(<<>>, Prompt), <<>>, Prompt, {})
  BY <1>1, EmptyHistory, OneMessageMore
<1>3. convo = Append(<<>>, Prompt)
  BY DEF TranscriptInit
<1>4. /\ convo \in Seq(Messages) /\ Sent(convo) /\ Evidence(convo, {})
      /\ CallsIn(convo) = {}
  BY <1>2, <1>3, PromptIs, EmptyHistory DEF Grows, Sent
<1>5. /\ Base = convo /\ merges \in BOOLEAN /\ pc = "ready" /\ stage \in Stages
      /\ stage \in Fresh /\ idOf \in Seq(Ids) /\ ran = {}
  BY DEF TranscriptInit, Base, Stages, Fresh
<1>6. TranscriptTyped /\ Remembered
  BY <1>4, <1>5 DEF TranscriptTyped, Remembered
<1>7. Incoming
  BY <1>5 DEF Incoming
<1>8. QED
  BY <1>4, <1>5, <1>6, <1>7 DEF TranscriptInv

LEMMA TranscriptStep == TranscriptInv /\ [TranscriptNext]_transcriptVars => TranscriptInv'
<1> SUFFICES ASSUME TranscriptInv, [TranscriptNext]_transcriptVars PROVE TranscriptInv'
  OBVIOUS
<1>1. /\ merges \in BOOLEAN /\ pc \in {"ready", "waiting", "tools"} /\ stage \in Stages
      /\ idOf \in Seq(Ids) /\ Len(idOf) \in Nat /\ ran \subseteq 1 .. Len(idOf)
      /\ Base \in Seq(Messages) /\ CallsIn(Base) \subseteq 1 .. Len(idOf)
      /\ Sent(Base) /\ Evidence(Base, ran)
      /\ ran \ CallsIn(Base) \subseteq IF stage \in Fresh THEN {} ELSE latest
  BY DEF TranscriptInv, TranscriptTyped, Remembered
<1>2. CASE SendRequest
  <2>1. Base' = Base /\ pc' = "waiting" /\ convo' = last'
        /\ UNCHANGED <<merges, stage, callVars, ghostVars>>
    BY <1>2 DEF SendRequest, Base
  <2>2. QED
    BY <1>1, <2>1 DEF TranscriptInv, TranscriptTyped, Remembered, Incoming, callVars, ghostVars
<1>3. CASE AnswerWithCalls
  <2>1. /\ pc = "waiting" /\ pc' = "tools" /\ Base' = Base /\ last' = last
        /\ UNCHANGED <<merges, stage, ran>>
    BY <1>3 DEF AnswerWithCalls, Base
  <2>2. convo = last /\ Base = last
    BY <2>1 DEF TranscriptInv, Incoming, Base
  <2>3. PICK n \in Nat, ids \in Seq(Ids) :
           /\ Len(ids) = n /\ idOf' = idOf \o ids
           /\ convo' = Append(convo, Response(Len(idOf) + 1 .. Len(idOf) + n))
           /\ stage \in Fresh => latest' = Len(idOf) + 1 .. Len(idOf) + n
           /\ stage \notin Fresh => latest' = latest
    <3>1. MaxCalls \in Nat
      BY TranscriptAssumption
    <3>2. PICK n \in 1 .. (MaxCalls - Len(idOf)) :
           \E ids \in [1 .. n -> Ids] :
             /\ idOf' = idOf \o ids
             /\ convo' = Append(convo, Response(Len(idOf) + 1 .. Len(idOf) + n))
             /\ latest' = IF stage \in Fresh THEN Len(idOf) + 1 .. Len(idOf) + n ELSE latest
      BY <1>3 DEF AnswerWithCalls
    <3>3. n \in Nat
      BY <1>1, <3>1
    <3>4. \A ids \in [1 .. n -> Ids] : ids \in Seq(Ids) /\ Len(ids) = n
      BY <3>3
    <3>5. QED
      BY <3>2, <3>3, <3>4
  <2>4. idOf' \in Seq(Ids) /\ Len(idOf') = Len(idOf) + n
    BY <1>1, <2>3, Concatenated
  <2> DEFINE calls == Len(idOf) + 1 .. Len(idOf) + n
  <2>5. /\ calls \subseteq 1 .. Len(idOf') /\ 1 .. Len(idOf) \subseteq 1 .. Len(idOf')
        /\ calls \cap (1 .. Len(idOf)) = {}
    BY <1>1, <2>3, <2>4
  <2>6. convo' = Append(last', Response(calls)) /\ (stage' \in Fresh => latest' = calls)
        /\ (stage' \notin Fresh => latest' = latest)
    BY <2>1, <2>2, <2>3
  <2> HIDE DEF calls
  <2>7. calls \cap ran' = {} /\ calls \cap CallsIn(last') = {}
    BY <1>1, <2>1, <2>2, <2>5
  <2>8. Incoming'
    BY <2>1, <2>5, <2>6, <2>7 DEF Incoming
  <2>9. TranscriptTyped'
    BY <1>1, <2>1, <2>4, <2>5 DEF TranscriptTyped
  <2>10. Remembered'
    BY <1>1, <2>1, <2>6 DEF Remembered
  <2>11. QED
    BY <1>1, <2>1, <2>8, <2>9, <2>10 DEF TranscriptInv
<1>4. CASE RunTools
  <2>1. /\ pc = "tools" /\ pc' = "ready" /\ Base = last /\ Base' = convo'
        /\ UNCHANGED <<merges, stage, idOf, latest>>
    BY <1>4 DEF RunTools, Base, callVars
  <2>2. PICK calls \in SUBSET (1 .. Len(idOf)) :
           /\ convo = Append(last, Response(calls))
           /\ calls \cap ran = {} /\ calls \cap CallsIn(last) = {}
    BY <2>1 DEF TranscriptInv, Incoming
  <2>3. PICK r : r = Response(calls)
    OBVIOUS
  <2>4. /\ r \in Messages /\ r.kind = "response" /\ r.calls = calls /\ Answered(r) = {}
        /\ calls \subseteq Nat
    <3>1. calls \in SUBSET Nat
      BY <1>1
    <3>2. QED
      BY <2>3, <3>1, ResponseIs, Zenon
  <2>5. Last(convo) = r /\ convo # <<>>
    BY <1>1, <2>1, <2>2, <2>3, LastAppended
  <2>6. PICK done \in SUBSET calls :
           /\ convo' = Append(convo, Request(FALSE, done, calls \ done))
           /\ ran' = ran \cup done
    <3>1. PICK done \in SUBSET (IF stage \in Fresh THEN calls \ typed ELSE {}) :
             /\ convo' = Append(convo, Request(FALSE, done, calls \ done))
             /\ ran' = ran \cup done
      BY <1>4, <2>4, <2>5 DEF RunTools
    <3>2. done \in SUBSET calls
      OBVIOUS
    <3>3. QED
      BY <3>1, <3>2
  <2>7. Answers(last) /\ last \in Seq(Messages)
    BY <1>1, <2>1 DEF Sent
  <2>8. Evidence(last, ran')
    <3>1. ASSUME NEW i \in 1 .. Len(last) PROVE ran' \cap last[i].calls = ran \cap last[i].calls
      <4>1. last[i].calls \subseteq CallsIn(last)
        BY <2>7, CallsOf
      <4>2. QED
        BY <2>2, <2>6, <4>1
    <3>2. QED
      BY <1>1, <2>1, <3>1 DEF Evidence
  <2>9. Follows(r, last, ran')
    <3>1. last # <<>> => Last(last).kind # "response"
      BY <1>1, <2>1 DEF Sent
    <3>2. QED
      BY <2>4, <3>1 DEF Follows
  <2>10. Grows(convo, last, r, ran')
    BY <2>2, <2>3, <2>7, <2>8, <2>9, OneMessageMore
  <2>11. PICK q : q = Request(FALSE, done, calls \ done)
    OBVIOUS
  <2>12. /\ q \in Messages /\ q.kind = "request" /\ q.calls = {} /\ q.returns = done
         /\ Answered(q) = calls
    <3>1. done \in SUBSET Nat /\ calls \ done \in SUBSET Nat /\ done \cup (calls \ done) = calls
      BY <2>4
    <3>2. /\ q \in Messages /\ q.kind = "request" /\ q.calls = {}
          /\ q.returns = done /\ Answered(q) = done \cup (calls \ done)
      BY <2>11, <3>1 DEF Request, Messages, Answered
    <3>3. QED
      BY <3>1, <3>2
  <2>13. Follows(q, convo, ran')
    BY <2>2, <2>4, <2>5, <2>6, <2>12 DEF Follows
  <2>14. Grows(convo', convo, q, ran')
    BY <2>6, <2>10, <2>11, <2>13, OneMessageMore DEF Grows
  <2>15. /\ convo' \in Seq(Messages) /\ Sent(convo') /\ Evidence(convo', ran')
         /\ CallsIn(convo') = CallsIn(last) \cup calls
    BY <2>4, <2>10, <2>12, <2>14 DEF Grows, Sent
  <2>16. ran' \subseteq 1 .. Len(idOf') /\ CallsIn(convo') \subseteq 1 .. Len(idOf')
    BY <1>1, <2>1, <2>2, <2>6, <2>15
  <2>17. ran' \ CallsIn(convo') \subseteq IF stage' \in Fresh THEN {} ELSE latest'
    BY <1>1, <2>1, <2>6, <2>15
  <2>18. merges' \in BOOLEAN /\ stage' \in Stages /\ idOf' \in Seq(Ids)
    BY <1>1, <2>1
  <2>19. QED
    BY <2>1, <2>15, <2>16, <2>17, <2>18, BeginsReady
<1>5. CASE AnswerUntyped
  <2>1. /\ pc = "waiting" /\ pc' = "ready" /\ UNCHANGED <<merges, stage, idOf, ran>>
        /\ convo' = convo \o <<Response({}), Request(FALSE, {}, {})>>
        /\ stage \notin Fresh => latest' = latest
    BY <1>5 DEF AnswerUntyped, callVars
  <2>2. Base = convo
    BY <2>1 DEF TranscriptInv, Incoming, Base
  <2>3. PICK r, q, c : r = Response({}) /\ q = Request(FALSE, {}, {}) /\ c = Append(convo, r)
    OBVIOUS
  <2>4. /\ r \in Messages /\ r.kind = "response" /\ r.calls = {} /\ Answered(r) = {}
        /\ q \in Messages /\ q.kind = "request" /\ q.calls = {} /\ Answered(q) = {}
    <3>1. {} \in SUBSET Nat /\ {} \cup {} = {}
      OBVIOUS
    <3>2. r \in Messages /\ r.kind = "response" /\ r.calls = {} /\ Answered(r) = {}
      BY <2>3, <3>1, ResponseIs, Zenon
    <3>3. q \in Messages /\ q.kind = "request" /\ q.calls = {} /\ Answered(q) = {} \cup {}
      BY <2>3, <3>1 DEF Request, Messages, Answered
    <3>4. QED
      BY <3>1, <3>2, <3>3
  <2>5. Follows(r, convo, ran)
    <3>1. convo # <<>> => Last(convo).kind # "response"
      BY <1>1, <2>2 DEF Sent
    <3>2. QED
      BY <2>4, <3>1 DEF Follows
  <2>6. Grows(c, convo, r, ran)
    BY <1>1, <2>2, <2>3, <2>5, OneMessageMore DEF Sent
  <2>7. Follows(q, c, ran)
    BY <2>4, <2>6 DEF Follows, Grows
  <2>8. Grows(Append(c, q), c, q, ran)
    BY <2>6, <2>7, OneMessageMore DEF Grows
  <2>9. convo' = Append(c, q)
    <3>1. convo \in Seq(Messages) /\ convo' = convo \o <<r, q>>
      BY <1>1, <2>1, <2>2, <2>3
    <3>2. r \in Messages /\ q \in Messages
      BY <2>4
    <3>3. convo \o <<r, q>> = Append(Append(convo, r), q)
      BY <3>1, <3>2, AppendedTwice
    <3>4. QED
      BY <2>3, <3>1, <3>3
  <2>10. /\ convo' \in Seq(Messages) /\ Sent(convo') /\ Evidence(convo', ran')
         /\ CallsIn(convo') = CallsIn(Base)
    BY <2>1, <2>2, <2>4, <2>6, <2>8, <2>9 DEF Grows, Sent
  <2>11. QED
    BY <1>1, <2>1, <2>10, BeginsReady
<1>6. ASSUME NEW s \in Stages, Begin(s), merges' = merges, last' = last,
             pc \in {"waiting", "tools"},
             s \notin Fresh => stage \notin Fresh \/ pc = "waiting"
      PROVE  TranscriptInv'
  <2>1. CASE s \in Fresh
    BY <1>6, <2>1, BeginsFresh
  <2>2. CASE s \notin Fresh
    <3>1. /\ pc' = "ready" /\ stage' = s /\ convo' = Continue(Trim(last))
          /\ UNCHANGED <<idOf, ran, latest>>
      BY <1>6, <2>2 DEF Begin, callVars, ghostVars
    <3>2. idOf' \in Seq(Ids) /\ Len(idOf) <= Len(idOf') /\ stage' \in Stages \ Fresh
      BY <1>1, <2>2, <3>1
    <3>3. ran' = ran \cup {} /\ {} \subseteq latest'
      BY <3>1
    <3>4. {} \in SUBSET (IF pc = "tools" /\ stage \in Fresh THEN Last(convo).calls ELSE {})
      OBVIOUS
    <3>5. QED
      BY <1>6, <3>1, <3>2, <3>3, <3>4, Resumed
  <2>3. QED
    BY <2>1, <2>2
<1>7. CASE AnswerFinal
  <2>1. pc = "waiting" /\ merges' = merges /\ last' = last
    BY <1>7 DEF AnswerFinal
  <2>2. CASE stage # "work"
    <3>1. Begin(Following("done"))
      BY <1>7, <2>2 DEF AnswerFinal
    <3>2. Following("done") \in Stages
      BY <1>1, <2>2 DEF Following, Stages, Fresh
    <3>3. QED
      BY <1>6, <2>1, <3>1, <3>2
  <2>3. CASE stage = "work"
    <3>1. /\ stage' = "review" /\ pc' = "ready" /\ convo' = Continue(Trim(last))
          /\ \E i \in Ids : idOf' = Append(idOf, i)
          /\ ran' = ran
      BY <1>7, <2>3 DEF AnswerFinal
    <3>2. idOf' \in Seq(Ids) /\ Len(idOf) <= Len(idOf')
      BY <1>1, <3>1
    <3>3. stage' \in Stages \ Fresh /\ stage \in Fresh
      BY <2>3, <3>1 DEF Stages, Fresh
    <3>4. ran' = ran \cup {} /\ {} \subseteq latest'
      BY <3>1
    <3>5. {} \in SUBSET (IF pc = "tools" /\ stage \in Fresh THEN Last(convo).calls ELSE {})
      OBVIOUS
    <3>6. QED
      BY <2>1, <3>1, <3>2, <3>3, <3>4, <3>5, Resumed
  <2>4. QED
    BY <2>2, <2>3
<1>8. ASSUME NEW status \in {"timeout", "error"},
             NEW done \in SUBSET (IF pc = "tools" /\ stage \in Fresh
                                  THEN Last(convo).calls \ typed ELSE {}),
             CutOff(status, done)
      PROVE  TranscriptInv'
  <2>1. pc \in {"waiting", "tools"} /\ merges' = merges /\ last' = last
    BY <1>8 DEF CutOff
  <2>2. Following(status) \in Stages
    BY <1>1 DEF Following, Stages, Fresh
  <2>3. CASE Following(status) \in Fresh
    <3>1. Begin(Following(status))
      BY <1>8, <2>3 DEF CutOff
    <3>2. QED
      BY <1>6, <2>1, <2>2, <2>3, <3>1
  <2>4. CASE Following(status) \notin Fresh
    <3>1. /\ stage' = Following(status) /\ pc' = "ready" /\ convo' = Continue(Trim(last))
          /\ ran' = ran \cup done /\ UNCHANGED <<idOf, latest>>
      BY <1>8, <2>4 DEF CutOff, callVars
    <3>2. done \in SUBSET (IF pc = "tools" /\ stage \in Fresh THEN Last(convo).calls ELSE {})
      OBVIOUS
    <3>3. done \subseteq latest'
      <4>1. CASE done = {}
        BY <4>1
      <4>2. CASE pc = "tools" /\ stage \in Fresh
        <5>1. PICK calls : convo = Append(last, Response(calls)) /\ latest = calls
          BY <4>2 DEF TranscriptInv, Incoming
        <5>2. last \in Seq(Messages)
          BY <1>1, <4>2 DEF Base
        <5>3. Last(convo).calls = calls
          BY <5>1, <5>2, LastAppended DEF Response
        <5>4. QED
          BY <3>1, <3>2, <4>2, <5>1, <5>3
      <4>3. QED
        BY <4>1, <4>2
    <3>4. idOf' \in Seq(Ids) /\ Len(idOf) <= Len(idOf') /\ stage' \in Stages \ Fresh
      BY <1>1, <2>2, <2>4, <3>1
    <3>5. QED
      BY <2>1, <3>1, <3>2, <3>3, <3>4, Resumed
  <2>5. QED
    BY <2>3, <2>4
<1>9. CASE Retry
  <2>1. /\ pc \in {"waiting", "tools"} /\ Begin(stage) /\ merges' = merges /\ last' = last
    BY <1>9 DEF Retry
  <2>2. QED
    BY <1>1, <1>6, <2>1
<1>10. CASE UNCHANGED transcriptVars
  BY <1>10 DEF transcriptVars, callVars, ghostVars, TranscriptInv, TranscriptTyped, Base,
     Remembered, Incoming
<1>11. QED
  BY <1>2, <1>3, <1>4, <1>5, <1>7, <1>8, <1>9, <1>10 DEF TranscriptNext

LEMMA TranscriptHolds == TranscriptSpec => []TranscriptInv
BY TranscriptStarts, TranscriptStep, PTL DEF TranscriptSpec

(***************************************************************************)
(* However a conversation was cut and gone on from, what is sent is a      *)
(* history in which exactly the calls made are answered (trim_history).    *)
(***************************************************************************)
THEOREM HistoriesAreAccepted == TranscriptSpec => []EveryCallIsAnswered
<1>1. TranscriptInv => EveryCallIsAnswered
  <2> SUFFICES ASSUME TranscriptInv, pc \in {"ready", "waiting"}, NEW i \in DOMAIN convo
               PROVE  /\ convo[i].kind = "response" =>
                            i < Len(convo) /\ Answered(convo[i + 1]) = convo[i].calls
                      /\ Answered(convo[i]) # {} => i > 1 /\ convo[i - 1].calls = Answered(convo[i])
    BY DEF EveryCallIsAnswered
  <2>1. Base = convo /\ convo \in Seq(Messages) /\ Sent(convo)
    BY DEF TranscriptInv, TranscriptTyped, Incoming, Base
  <2>2. i \in 1 .. Len(convo) /\ Len(convo) \in Nat /\ convo # <<>>
    BY <2>1
  <2>3. Last(convo) = convo[Len(convo)] /\ Last(convo).kind = "request"
    BY <2>1, <2>2, LastOf DEF Sent
  <2>4. convo[i].kind = "response" => i < Len(convo)
    BY <2>2, <2>3
  <2>5. QED
    BY <2>1, <2>2, <2>4 DEF Sent, Answers
<1>2. QED
  BY <1>1, TranscriptHolds, PTL

(***************************************************************************)
(* The relay has every tool of the WORK it rides on, but for those of its  *)
(* very last response when it was cut off (review.py, trim_history).       *)
(***************************************************************************)
THEOREM RelayHasTheEvidence == TranscriptSpec => []RelayKeepsEvidence
<1>1. TranscriptInv => RelayKeepsEvidence
  <2> SUFFICES ASSUME TranscriptInv, stage = "review"
               PROVE  ran \ CallsIn(convo) \subseteq latest
    BY DEF RelayKeepsEvidence
  <2>1. ran \ CallsIn(Base) \subseteq latest
    BY DEF TranscriptInv, Remembered, Fresh
  <2>2. CallsIn(Base) \subseteq CallsIn(convo)
    <3>1. CASE pc \in {"ready", "waiting"}
      BY <3>1 DEF TranscriptInv, Incoming, Base
    <3>2. CASE pc = "tools"
      <4>1. PICK r : convo = Append(last, r)
        BY <3>2 DEF TranscriptInv, Incoming
      <4>2. last \in Seq(Messages) /\ Base = last
        BY <3>2 DEF TranscriptInv, TranscriptTyped, Base
      <4>3. DOMAIN last \subseteq DOMAIN convo /\ \A i \in DOMAIN last : convo[i] = last[i]
        BY <4>1, <4>2
      <4>4. QED
        BY <4>2, <4>3 DEF CallsIn
    <3>3. QED
      BY <3>1, <3>2 DEF TranscriptInv, TranscriptTyped
  <2>3. QED
    BY <2>1, <2>2
<1>2. QED
  BY <1>1, TranscriptHolds, PTL

-----------------------------------------------------------------------------
(* Recursion over numbers, and induction over them.                        *)

(***************************************************************************)
(* Induction over a set of numbers, from the well-foundedness of < .       *)
(***************************************************************************)
LEMMA NumberByNumber ==
    ASSUME NEW N \in Nat, NEW S, 0 \in S, \A k \in 1 .. N : k - 1 \in S => k \in S
    PROVE  \A k \in 0 .. N : k \in S
<1> DEFINE missing == (0 .. N) \ S
<1>1. CASE missing # {}
  <2>1. missing \in SUBSET Nat
    OBVIOUS
  <2>2. PICK x \in missing : \A y \in missing : ~ (<<y, x>> \in OpToRel(<, Nat))
    <3> HIDE DEF missing
    <3>1. QED
      BY <1>1, <2>1, NatLessThanWellFounded, WFMin
  <2>3. OpToRel(<, Nat) = {ss \in Nat \X Nat : ss[1] < ss[2]}
    BY Zenon DEF OpToRel
  <2>4. \A y \in missing : ~ (y < x)
    BY <2>1, <2>2, <2>3
  <2>5. x \in 1 .. N /\ x - 1 \in 0 .. N /\ x - 1 < x
    OBVIOUS
  <2>6. QED
    BY <2>4, <2>5
<1>2. QED
  BY <1>1

\* f goes from b through the steps of G.
Goes(f, b, G, n) == f[0] = b /\ \A k \in 1 .. n : f[k] = G[k][f[k - 1]]

\* What is built step by step exists.
LEMMA RunExists ==
    ASSUME NEW N \in Nat, NEW A, NEW b \in A, NEW G \in [1 .. N -> [A -> A]]
    PROVE  \E f \in [0 .. N -> A] : Goes(f, b, G, N)
<1> DEFINE S == {n \in 0 .. N : \E f \in [0 .. n -> A] : Goes(f, b, G, n)}
<1>1. 0 \in S
  <2> DEFINE f == [k \in 0 .. 0 |-> b]
  <2>1. f \in [0 .. 0 -> A] /\ f[0] = b
    OBVIOUS
  <2>2. Goes(f, b, G, 0)
    BY <2>1 DEF Goes
  <2>3. QED
    BY <2>1, <2>2
<1>2. ASSUME NEW n \in 1 .. N, n - 1 \in S PROVE n \in S
  <2>1. PICK f \in [0 .. n - 1 -> A] : Goes(f, b, G, n - 1)
    BY <1>2
  <2>2. PICK y \in A : y = G[n][f[n - 1]]
    <3>1. f[n - 1] \in A /\ G[n] \in [A -> A]
      OBVIOUS
    <3>2. QED
      BY <3>1
  <2> DEFINE g == [k \in 0 .. n |-> IF k = n THEN y ELSE f[k]]
  <2>3. g \in [0 .. n -> A] /\ (\A k \in 0 .. n - 1 : g[k] = f[k]) /\ g[n] = y
    BY <2>1, <2>2
  <2>4. Goes(g, b, G, n)
    <3> HIDE DEF g
    <3>1. g[0] = b
      BY <2>1, <2>3 DEF Goes
    <3>2. ASSUME NEW k \in 1 .. n PROVE g[k] = G[k][g[k - 1]]
      <4>1. CASE k = n
        BY <2>2, <2>3, <4>1
      <4>2. CASE k # n
        BY <2>1, <2>3, <4>2 DEF Goes
      <4>3. QED
        BY <4>1, <4>2
    <3>3. QED
      BY <3>1, <3>2 DEF Goes
  <2>5. QED
    BY <2>3, <2>4
<1>3. N \in S
  <2>1. N \in 0 .. N
    OBVIOUS
  <2> HIDE DEF S
  <2>2. QED
    BY <1>1, <1>2, <2>1, NumberByNumber
<1>4. QED
  BY <1>3

\* Whatever goes the same way is the same.
LEMMA RunIsUnique ==
    ASSUME NEW N \in Nat, NEW f, NEW g, g[0] = f[0],
           \A k \in 1 .. N : g[k - 1] = f[k - 1] => g[k] = f[k]
    PROVE  g[N] = f[N]
<1> DEFINE S == {k \in 0 .. N : g[k] = f[k]}
<1>1. 0 \in S /\ \A k \in 1 .. N : k - 1 \in S => k \in S
  OBVIOUS
<1>2. N \in S
  <2> HIDE DEF S
  <2>1. QED
    BY <1>1, NumberByNumber
<1>3. QED
  BY <1>2

\* The types of what is extracted.
Entry == [call : Nat, result : Nat]
Acc == [entries : Seq(Entry), open : [Ids -> Nat]]

\* A call added to the entries leaves them entries.
LEMMA AddCallTypes ==
    ASSUME idOf \in Seq(Ids), NEW a \in Acc, NEW c \in 1 .. Len(idOf)
    PROVE  AddCall(a, c) \in Acc
BY DEF Acc, AddCall, Entry

\* A field of an element may change.
LEMMA ResultSet ==
    ASSUME NEW Element, NEW s \in Seq(Element), NEW t, NEW c,
           \A i \in 1 .. Len(s) : [s[i] EXCEPT !.result = c] \in Element
    PROVE  [s EXCEPT ![t].result = c] \in Seq(Element)
<1> DEFINE r == [s EXCEPT ![t].result = c]
<1>1. Len(s) \in Nat /\ DOMAIN s = 1 .. Len(s) /\ \A i \in 1 .. Len(s) : s[i] \in Element
  OBVIOUS
<1>2. DOMAIN r = DOMAIN s
  OBVIOUS
<1>3. ASSUME NEW i \in DOMAIN s PROVE r[i] = IF i = t THEN [s[i] EXCEPT !.result = c] ELSE s[i]
  OBVIOUS
<1>4. ASSUME NEW i \in DOMAIN s PROVE r[i] \in Element
  BY <1>1, <1>3
<1>5. r = [i \in DOMAIN s |-> r[i]]
  BY <1>2
<1>6. r \in [1 .. Len(s) -> Element]
  <2> HIDE DEF r
  <2>1. QED
    BY <1>1, <1>2, <1>4, <1>5
<1>7. QED
  <2> HIDE DEF r
  <2>1. r \in Seq(Element)
    BY <1>1, <1>6
  <2>2. QED
    BY <2>1 DEF r

\* So does a return.
LEMMA AddReturnTypes ==
    ASSUME idOf \in Seq(Ids), NEW a \in Acc, NEW c \in 1 .. Len(idOf)
    PROVE  AddReturn(a, c) \in Acc
<1>1. PICK t : t = Target(a, c)
  OBVIOUS
<1>2. [a.entries EXCEPT ![t].result = c] \in Seq(Entry)
  <2>1. PICK s : s = a.entries
    OBVIOUS
  <2>2. s \in Seq(Entry)
    BY <2>1 DEF Acc
  <2>3. \A e \in Entry : [e EXCEPT !.result = c] \in Entry
    BY DEF Entry
  <2>4. \A i \in 1 .. Len(s) : [s[i] EXCEPT !.result = c] \in Entry
    BY <2>2, <2>3
  <2>5. [s EXCEPT ![t].result = c] \in Seq(Entry)
    BY <2>2, <2>4, ResultSet
  <2>6. QED
    BY <2>1, <2>5
<1>3. [a.open EXCEPT ![idOf[c]] = 0] \in [Ids -> Nat]
  BY DEF Acc
<1>4. QED
  BY <1>1, <1>2, <1>3 DEF Acc, AddReturn

\* The calls of a message are added one by one, in their order.
LEMMA CallsInOrder ==
    ASSUME idOf \in Seq(Ids), NEW a \in Acc, NEW calls
    PROVE  /\ InOrder(AddCall, a, calls) \in Acc
           /\ \E f \in [0 .. Len(idOf) -> Acc] :
              /\ f[0] = a
              /\ \A c \in 1 .. Len(idOf) :
                    f[c] = IF c \in calls THEN AddCall(f[c - 1], c) ELSE f[c - 1]
              /\ InOrder(AddCall, a, calls) = f[Len(idOf)]
<1>1. PICK N \in Nat : N = Len(idOf)
  OBVIOUS
<1> DEFINE G == [c \in 1 .. N |-> [x \in Acc |-> IF c \in calls THEN AddCall(x, c) ELSE x]]
<1>2. G \in [1 .. N -> [Acc -> Acc]]
  BY <1>1, AddCallTypes
<1>3. PICK f \in [0 .. N -> Acc] : Goes(f, a, G, N)
  <2> HIDE DEF G
  <2>1. QED
    BY <1>2, RunExists
<1>4. f[0] = a /\ \A c \in 1 .. N : f[c] = IF c \in calls THEN AddCall(f[c - 1], c) ELSE f[c - 1]
  <2>1. ASSUME NEW c \in 1 .. N
        PROVE  f[c] = IF c \in calls THEN AddCall(f[c - 1], c) ELSE f[c - 1]
    <3>1. f[c] = G[c][f[c - 1]]
      BY <1>3 DEF Goes
    <3>2. f[c - 1] \in Acc
      OBVIOUS
    <3>3. QED
      BY <3>1, <3>2
  <2>2. QED
    BY <1>3, <2>1 DEF Goes
<1> DEFINE Is(g) == g = [c \in 0 .. N |-> IF c = 0 THEN a
                                         ELSE IF c \in calls THEN AddCall(g[c - 1], c)
                                         ELSE g[c - 1]]
           upTo == CHOOSE g : Is(g)
<1>5. Is(f)
  BY <1>4
<1>6. Is(upTo)
  BY <1>5
<1>7. upTo[N] = f[N]
  <2>1. PICK g : g = upTo
    OBVIOUS
  <2>2. Is(g)
    BY <1>6, <2>1
  <2>3. g[0] = f[0] /\ \A c \in 1 .. N : g[c - 1] = f[c - 1] => g[c] = f[c]
    BY <1>4, <2>2
  <2>4. QED
    BY <2>1, <2>3, RunIsUnique
<1>8. InOrder(AddCall, a, calls) = upTo[N]
  BY <1>1 DEF InOrder
<1>9. f[N] \in Acc
  BY <1>3
<1>10. QED
  BY <1>1, <1>4, <1>7, <1>8, <1>9

-----------------------------------------------------------------------------
(* What the hand-off extracts from a conversation.                         *)

\* The entries tell the calls C in order, and R of them with their result;
\* the entries of the calls P are open.
Told(a, C, R, P) ==
    /\ a \in Acc
    /\ \A j, k \in 1 .. Len(a.entries) : j < k => a.entries[j].call < a.entries[k].call
    /\ \A k \in 1 .. Len(a.entries) :
          LET e == a.entries[k] IN
          e.call \in C /\ e.result = IF e.call \in R THEN e.call ELSE 0
    /\ \A c \in C : \E k \in 1 .. Len(a.entries) : a.entries[k].call = c
    /\ \A c \in P : \E k \in 1 .. Len(a.entries) :
                       a.entries[k].call = c /\ a.open[idOf[c]] = k

\* A new call, later than all that is told, is told and left open.
LEMMA CallTold ==
    ASSUME idOf \in Seq(Ids), NEW a, NEW C, NEW R \in SUBSET C, NEW P \in SUBSET C,
           Told(a, C, R, P), C \subseteq 1 .. Len(idOf),
           NEW c \in 1 .. Len(idOf), \A d \in C : d < c, \A d \in P : idOf[d] # idOf[c]
    PROVE  Told(AddCall(a, c), C \cup {c}, R, P \cup {c})
<1>0. PICK n \in Nat : n = Len(a.entries)
  BY DEF Told, Acc
<1>p. PICK b, s, t : b = AddCall(a, c) /\ s = a.entries /\ t = b.entries
  OBVIOUS
<1>1. /\ b = AddCall(a, c) /\ s = a.entries /\ n = Len(s) /\ t = b.entries
      /\ t = Append(s, [call |-> c, result |-> 0])
      /\ b.open = [a.open EXCEPT ![idOf[c]] = n + 1]
  BY <1>0, <1>p DEF AddCall
<1>2. b \in Acc
  BY <1>1, AddCallTypes DEF Told
<1>3. /\ Len(t) = n + 1 /\ t[n + 1].call = c /\ t[n + 1].result = 0
      /\ n + 1 \in 1 .. Len(t) /\ \A k \in 1 .. n : t[k] = s[k]
  BY <1>1 DEF Told, Acc
<1>4. \A k \in 1 .. n : s[k].call \in C /\ s[k].result = IF s[k].call \in R THEN s[k].call ELSE 0
  BY <1>1 DEF Told
<1>5. c \notin C /\ c \notin R
  OBVIOUS
<1>6. ASSUME NEW j \in 1 .. Len(t), NEW k \in 1 .. Len(t), j < k PROVE t[j].call < t[k].call
  <2>1. j \in 1 .. n
    BY <1>3, <1>6
  <2>2. CASE k = n + 1
    BY <1>3, <1>4, <2>1, <2>2
  <2>3. CASE k # n + 1
    BY <1>1, <1>3, <2>1, <2>3, <1>6 DEF Told
  <2>4. QED
    BY <2>2, <2>3
<1>7. ASSUME NEW k \in 1 .. Len(t)
      PROVE  /\ t[k].call \in C \cup {c}
             /\ t[k].result = IF t[k].call \in R THEN t[k].call ELSE 0
  <2>1. CASE k = n + 1
    BY <1>3, <1>5, <2>1
  <2>2. CASE k # n + 1
    BY <1>3, <1>4, <2>2
  <2>3. QED
    BY <2>1, <2>2
<1>8. ASSUME NEW d \in C \cup {c} PROVE \E k \in 1 .. Len(t) : t[k].call = d
  <2>1. CASE d = c
    BY <1>1, <1>3, <2>1
  <2>2. CASE d \in C
    <3>1. PICK k \in 1 .. n : s[k].call = d
      BY <1>1, <2>2 DEF Told
    <3>2. k \in 1 .. Len(t) /\ t[k].call = d
      BY <1>3, <3>1
    <3>3. QED
      BY <3>2
  <2>3. QED
    BY <2>1, <2>2
<1>9. ASSUME NEW d \in P \cup {c}
      PROVE  \E k \in 1 .. Len(t) : t[k].call = d /\ b.open[idOf[d]] = k
  <2>1. a.open \in [Ids -> Nat] /\ idOf[c] \in Ids
    BY DEF Told, Acc
  <2>2. CASE d = c
    <3>1. b.open[idOf[c]] = n + 1
      BY <1>1, <2>1
    <3>2. QED
      BY <1>1, <1>3, <2>2, <3>1
  <2>3. CASE d \in P
    <3>1. PICK k \in 1 .. n : s[k].call = d /\ a.open[idOf[d]] = k
      BY <1>1, <2>3 DEF Told
    <3>2. b.open[idOf[d]] = a.open[idOf[d]]
      <4>1. d \in 1 .. Len(idOf) /\ idOf[d] \in Ids /\ idOf[d] # idOf[c]
        BY <2>3
      <4>2. QED
        BY <1>1, <2>1, <4>1
    <3>3. k \in 1 .. Len(t) /\ t[k].call = d /\ b.open[idOf[d]] = k
      BY <1>3, <3>1, <3>2
    <3>4. QED
      BY <3>3
  <2>4. QED
    BY <2>2, <2>3
<1>10. Told(b, C \cup {c}, R, P \cup {c})
  <2>1. \A j, k \in 1 .. Len(b.entries) : j < k => b.entries[j].call < b.entries[k].call
    BY <1>1, <1>6
  <2>2. \A k \in 1 .. Len(b.entries) :
           LET e == b.entries[k] IN
           e.call \in C \cup {c} /\ e.result = IF e.call \in R THEN e.call ELSE 0
    BY <1>1, <1>7
  <2>3. \A d \in C \cup {c} : \E k \in 1 .. Len(b.entries) : b.entries[k].call = d
    BY <1>1, <1>8
  <2>4. \A d \in P \cup {c} : \E k \in 1 .. Len(b.entries) :
           b.entries[k].call = d /\ b.open[idOf[d]] = k
    BY <1>1, <1>9
  <2>5. QED
    BY <1>2, <2>1, <2>2, <2>3, <2>4 DEF Told
<1>11. QED
  BY <1>1, <1>10

\* The return of an open call goes to the entry of this very call.
LEMMA ReturnTold ==
    ASSUME idOf \in Seq(Ids), NEW a, NEW C, NEW R, NEW P \in SUBSET C,
           Told(a, C, R, P), C \subseteq 1 .. Len(idOf),
           NEW c \in P, \A d \in P \ {c} : idOf[d] # idOf[c]
    PROVE  Told(AddReturn(a, c), C, R \cup {c}, P \ {c})
<1>1. PICK k \in 1 .. Len(a.entries) : a.entries[k].call = c /\ a.open[idOf[c]] = k
  BY DEF Told
<1>2. Target(a, c) = k
  BY <1>1 DEF Target
<1>3. c \in 1 .. Len(idOf) /\ k # 0
  BY <1>1
<1>x. PICK n \in Nat : n = Len(a.entries)
  BY DEF Told, Acc
<1>p. PICK b, s, t : b = AddReturn(a, c) /\ s = a.entries /\ t = b.entries
  OBVIOUS
<1>4. /\ b = AddReturn(a, c) /\ s = a.entries /\ n = Len(s) /\ t = b.entries
      /\ t = [s EXCEPT ![k].result = c]
      /\ b.open = [a.open EXCEPT ![idOf[c]] = 0]
  BY <1>2, <1>3, <1>x, <1>p DEF AddReturn
<1>5. b \in Acc
  BY <1>3, <1>4, AddReturnTypes DEF Told
<1>6. s \in Seq(Entry) /\ a.open \in [Ids -> Nat]
  BY <1>4 DEF Told, Acc
<1>7. /\ Len(t) = n /\ t[k] = [s[k] EXCEPT !.result = c]
      /\ \A j \in 1 .. n : j # k => t[j] = s[j]
  BY <1>1, <1>4, <1>6
<1>8. t[k].call = c /\ t[k].result = c
  <2>1. s[k] \in Entry
    BY <1>x, <1>4, <1>6
  <2>2. QED
    BY <1>1, <1>4, <1>7, <2>1 DEF Entry
<1>9. \A j \in 1 .. n : t[j].call = s[j].call
  BY <1>1, <1>4, <1>7, <1>8
<1>10. ASSUME NEW i \in 1 .. n, NEW j \in 1 .. n, i < j PROVE t[i].call < t[j].call
  BY <1>4, <1>9, <1>10 DEF Told
<1>11. ASSUME NEW j \in 1 .. n
       PROVE  /\ t[j].call \in C
              /\ t[j].result = IF t[j].call \in R \cup {c} THEN t[j].call ELSE 0
  <2>1. s[j].call \in C /\ s[j].result = IF s[j].call \in R THEN s[j].call ELSE 0
    BY <1>4 DEF Told
  <2>2. CASE j = k
    BY <1>8, <2>2
  <2>3. CASE j # k
    <3>1. s[j].call # c
      <4>1. s[j].call \in Nat /\ s[k].call \in Nat
        <5>1. k \in 1 .. n /\ s[k] \in Entry
          BY <1>x, <1>4, <1>6
        <5>2. s[j] \in Entry
          BY <1>x, <1>4, <1>6
        <5>3. QED
          BY <5>1, <5>2 DEF Entry
      <4>2. j < k => s[j].call < s[k].call
        BY <1>1, <1>4 DEF Told
      <4>3. k < j => s[k].call < s[j].call
        BY <1>1, <1>4 DEF Told
      <4>4. QED
        BY <1>1, <1>4, <2>3, <4>1, <4>2, <4>3
    <3>2. QED
      BY <1>7, <2>1, <2>3, <3>1
  <2>4. QED
    BY <2>2, <2>3
<1>12. ASSUME NEW d \in C PROVE \E j \in 1 .. n : t[j].call = d
  BY <1>4, <1>9 DEF Told
<1>13. ASSUME NEW d \in P \ {c}
       PROVE  \E j \in 1 .. n : t[j].call = d /\ b.open[idOf[d]] = j
  <2>1. PICK j \in 1 .. n : s[j].call = d /\ a.open[idOf[d]] = j
    BY <1>4 DEF Told
  <2>2. d \in 1 .. Len(idOf) /\ idOf[d] \in Ids /\ idOf[d] # idOf[c]
    OBVIOUS
  <2>3. b.open[idOf[d]] = a.open[idOf[d]]
    BY <1>4, <1>6, <2>2
  <2>4. QED
    BY <1>9, <2>1, <2>3
<1>14. Told(b, C, R \cup {c}, P \ {c})
  BY <1>4, <1>5, <1>7, <1>10, <1>11, <1>12, <1>13 DEF Told
<1>15. QED
  BY <1>4, <1>14

\* The returns of a message are, too.
LEMMA ReturnsInOrder ==
    ASSUME idOf \in Seq(Ids), NEW a \in Acc, NEW returns
    PROVE  /\ InOrder(AddReturn, a, returns) \in Acc
           /\ \E f \in [0 .. Len(idOf) -> Acc] :
              /\ f[0] = a
              /\ \A c \in 1 .. Len(idOf) :
                    f[c] = IF c \in returns THEN AddReturn(f[c - 1], c) ELSE f[c - 1]
              /\ InOrder(AddReturn, a, returns) = f[Len(idOf)]
<1>1. PICK N \in Nat : N = Len(idOf)
  OBVIOUS
<1> DEFINE G == [c \in 1 .. N |-> [x \in Acc |-> IF c \in returns THEN AddReturn(x, c) ELSE x]]
<1>2. G \in [1 .. N -> [Acc -> Acc]]
  BY <1>1, AddReturnTypes
<1>3. PICK f \in [0 .. N -> Acc] : Goes(f, a, G, N)
  <2> HIDE DEF G
  <2>1. QED
    BY <1>2, RunExists
<1>4. /\ f[0] = a
      /\ \A c \in 1 .. N : f[c] = IF c \in returns THEN AddReturn(f[c - 1], c) ELSE f[c - 1]
  <2>1. ASSUME NEW c \in 1 .. N
        PROVE  f[c] = IF c \in returns THEN AddReturn(f[c - 1], c) ELSE f[c - 1]
    <3>1. f[c] = G[c][f[c - 1]]
      BY <1>3 DEF Goes
    <3>2. f[c - 1] \in Acc
      OBVIOUS
    <3>3. QED
      BY <3>1, <3>2
  <2>2. QED
    BY <1>3, <2>1 DEF Goes
<1> DEFINE Is(g) == g = [c \in 0 .. N |-> IF c = 0 THEN a
                                         ELSE IF c \in returns THEN AddReturn(g[c - 1], c)
                                         ELSE g[c - 1]]
           upTo == CHOOSE g : Is(g)
<1>5. Is(f)
  BY <1>4
<1>6. Is(upTo)
  BY <1>5
<1>7. upTo[N] = f[N]
  <2>1. PICK g : g = upTo
    OBVIOUS
  <2>2. Is(g)
    BY <1>6, <2>1
  <2>3. g[0] = f[0] /\ \A c \in 1 .. N : g[c - 1] = f[c - 1] => g[c] = f[c]
    BY <1>4, <2>2
  <2>4. QED
    BY <2>1, <2>3, RunIsUnique
<1>8. InOrder(AddReturn, a, returns) = upTo[N]
  BY <1>1 DEF InOrder
<1>9. f[N] \in Acc
  BY <1>3
<1>10. QED
  BY <1>1, <1>4, <1>7, <1>8, <1>9

\* All calls of a message.
LEMMA CallsTold ==
    ASSUME idOf \in Seq(Ids), NEW a, NEW C \in SUBSET (1 .. Len(idOf)), NEW R \in SUBSET C,
           NEW P \in SUBSET C, Told(a, C, R, P), NEW calls \in SUBSET (1 .. Len(idOf)),
           \A c \in C, d \in calls : c < d,
           \A c, d \in P \cup calls : c # d => idOf[c] # idOf[d]
    PROVE  Told(InOrder(AddCall, a, calls), C \cup calls, R, P \cup calls)
<1>1. PICK N \in Nat : N = Len(idOf)
  OBVIOUS
<1>p. a \in Acc
  BY DEF Told
<1>q. PICK f \in [0 .. Len(idOf) -> Acc] :
         /\ f[0] = a
         /\ \A c \in 1 .. Len(idOf) :
               f[c] = IF c \in calls THEN AddCall(f[c - 1], c) ELSE f[c - 1]
         /\ InOrder(AddCall, a, calls) = f[Len(idOf)]
  BY <1>p, CallsInOrder
<1>2. /\ f[0] = a
      /\ \A c \in 1 .. N : f[c] = IF c \in calls THEN AddCall(f[c - 1], c) ELSE f[c - 1]
      /\ InOrder(AddCall, a, calls) = f[N]
  BY <1>1, <1>q
<1> DEFINE T(k) == Told(f[k], C \cup (calls \cap (1 .. k)), R, P \cup (calls \cap (1 .. k)))
           S == {k \in 0 .. N : T(k)}
<1>3. 0 \in S
  <2>1. C \cup (calls \cap (1 .. 0)) = C /\ P \cup (calls \cap (1 .. 0)) = P
    OBVIOUS
  <2>2. T(0)
    BY <1>2, <2>1
  <2>3. QED
    BY <2>2
<1>4. ASSUME NEW k \in 1 .. N, k - 1 \in S PROVE k \in S
  <2>1. PICK x, D, Q : /\ x = f[k - 1] /\ D = C \cup (calls \cap (1 .. k - 1))
                       /\ Q = P \cup (calls \cap (1 .. k - 1))
    OBVIOUS
  <2>2. Told(x, D, R, Q) /\ D \in SUBSET (1 .. N) /\ R \in SUBSET D /\ Q \in SUBSET D
    BY <1>1, <1>4, <2>1
  <2>3. CASE k \in calls
    <3>1. calls \cap (1 .. k) = (calls \cap (1 .. k - 1)) \cup {k}
      BY <2>3
    <3>2. f[k] = AddCall(x, k)
      BY <1>2, <2>1, <2>3
    <3>3. (\A d \in D : d < k) /\ \A d \in Q : idOf[d] # idOf[k]
      BY <2>1, <2>3
    <3>4. Told(AddCall(x, k), D \cup {k}, R, Q \cup {k})
      BY <1>1, <2>2, <3>3, CallTold
    <3>5. D \cup {k} = C \cup (calls \cap (1 .. k)) /\ Q \cup {k} = P \cup (calls \cap (1 .. k))
      BY <2>1, <3>1
    <3>6. T(k)
      BY <3>2, <3>4, <3>5
    <3>7. QED
      BY <3>6
  <2>4. CASE k \notin calls
    <3>1. calls \cap (1 .. k) = calls \cap (1 .. k - 1)
      BY <2>4
    <3>2. f[k] = x
      BY <1>2, <2>1, <2>4
    <3>3. T(k)
      BY <2>1, <2>2, <3>1, <3>2
    <3>4. QED
      BY <3>3
  <2>5. QED
    BY <2>3, <2>4
<1>5. N \in S
  <2>1. N \in 0 .. N
    OBVIOUS
  <2> HIDE DEF S
  <2>2. QED
    BY <1>3, <1>4, <2>1, NumberByNumber
<1>6. calls \cap (1 .. N) = calls
  BY <1>1
<1>7. Told(f[N], C \cup calls, R, P \cup calls)
  BY <1>5, <1>6
<1>8. QED
  BY <1>2, <1>7

\* All returns of a message.
LEMMA ReturnsTold ==
    ASSUME idOf \in Seq(Ids), NEW a, NEW C \in SUBSET (1 .. Len(idOf)), NEW R,
           NEW P \in SUBSET C, Told(a, C, R, P), NEW returns \in SUBSET P,
           \A c, d \in P : c # d => idOf[c] # idOf[d]
    PROVE  Told(InOrder(AddReturn, a, returns), C, R \cup returns, P \ returns)
<1>1. PICK N \in Nat : N = Len(idOf)
  OBVIOUS
<1>p. a \in Acc
  BY DEF Told
<1>q. PICK f \in [0 .. Len(idOf) -> Acc] :
         /\ f[0] = a
         /\ \A c \in 1 .. Len(idOf) :
               f[c] = IF c \in returns THEN AddReturn(f[c - 1], c) ELSE f[c - 1]
         /\ InOrder(AddReturn, a, returns) = f[Len(idOf)]
  BY <1>p, ReturnsInOrder
<1>2. /\ f[0] = a
      /\ \A c \in 1 .. N : f[c] = IF c \in returns THEN AddReturn(f[c - 1], c) ELSE f[c - 1]
      /\ InOrder(AddReturn, a, returns) = f[N]
  BY <1>1, <1>q
<1> DEFINE T(k) == Told(f[k], C, R \cup (returns \cap (1 .. k)), P \ (returns \cap (1 .. k)))
           S == {k \in 0 .. N : T(k)}
<1>3. 0 \in S
  <2>1. R \cup (returns \cap (1 .. 0)) = R /\ P \ (returns \cap (1 .. 0)) = P
    OBVIOUS
  <2>2. T(0)
    BY <1>2, <2>1
  <2>3. QED
    BY <2>2
<1>4. ASSUME NEW k \in 1 .. N, k - 1 \in S PROVE k \in S
  <2>1. PICK x, D, Q : /\ x = f[k - 1] /\ D = R \cup (returns \cap (1 .. k - 1))
                       /\ Q = P \ (returns \cap (1 .. k - 1))
    OBVIOUS
  <2>2. Told(x, C, D, Q) /\ Q \in SUBSET C
    BY <1>1, <1>4, <2>1
  <2>3. CASE k \in returns
    <3>1. returns \cap (1 .. k) = (returns \cap (1 .. k - 1)) \cup {k}
      BY <2>3
    <3>2. f[k] = AddReturn(x, k)
      BY <1>2, <2>1, <2>3
    <3>3. k \in Q /\ \A d \in Q \ {k} : idOf[d] # idOf[k]
      BY <2>1, <2>3
    <3>4. Told(AddReturn(x, k), C, D \cup {k}, Q \ {k})
      BY <1>1, <2>2, <3>3, ReturnTold
    <3>5. /\ D \cup {k} = R \cup (returns \cap (1 .. k))
          /\ Q \ {k} = P \ (returns \cap (1 .. k))
      BY <2>1, <3>1
    <3>6. T(k)
      BY <3>2, <3>4, <3>5
    <3>7. QED
      BY <3>6
  <2>4. CASE k \notin returns
    <3>1. returns \cap (1 .. k) = returns \cap (1 .. k - 1)
      BY <2>4
    <3>2. f[k] = x
      BY <1>2, <2>1, <2>4
    <3>3. T(k)
      BY <2>1, <2>2, <3>1, <3>2
    <3>4. QED
      BY <3>3
  <2>5. QED
    BY <2>3, <2>4
<1>5. N \in S
  <2>1. N \in 0 .. N
    OBVIOUS
  <2> HIDE DEF S
  <2>2. QED
    BY <1>3, <1>4, <2>1, NumberByNumber
<1>6. returns \cap (1 .. N) = returns
  BY <1>1
<1>7. Told(f[N], C, R \cup returns, P \ returns)
  BY <1>5, <1>6
<1>8. QED
  BY <1>2, <1>7

\* Calls are numbered in order, those of a response have ids of their own,
\* and no final_result is returned.
Ordered(m) ==
    /\ \A i, j \in 1 .. Len(m) : i < j => \A c \in m[i].calls, d \in m[j].calls : c < d
    /\ \A i \in 1 .. Len(m) : \A c, d \in m[i].calls : c # d => idOf[c] # idOf[d]
    /\ \A i \in 1 .. Len(m) : m[i].returns \cap typed = {}

\* What the first k messages call and return.
CallsTo(m, k) == (UNION {m[i].calls : i \in 1 .. k}) \ typed
ReturnsTo(m, k) == UNION {m[i].returns : i \in 1 .. k}

\* A message leaves the entries entries.
LEMMA MessageTypes ==
    ASSUME idOf \in Seq(Ids), NEW a \in Acc, NEW m
    PROVE  AddMessage(a, m) \in Acc
<1>1. PICK calls, b : calls = m.calls \ typed /\ b = InOrder(AddCall, a, calls)
  OBVIOUS
<1>2. b \in Acc
  BY <1>1, CallsInOrder
<1>3. InOrder(AddReturn, b, m.returns) \in Acc
  BY <1>2, ReturnsInOrder
<1>4. QED
  BY <1>1, <1>3 DEF AddMessage

\* A conversation is extracted message by message.
LEMMA MessagesInOrder ==
    ASSUME idOf \in Seq(Ids), NEW m \in Seq(Messages)
    PROVE  \E f \in [0 .. Len(m) -> Acc] :
              /\ f[0] = NoEntries
              /\ \A k \in 1 .. Len(m) : f[k] = AddMessage(f[k - 1], m[k])
              /\ Extract(m) = f[Len(m)].entries
<1>1. PICK N \in Nat : N = Len(m)
  OBVIOUS
<1> DEFINE G == [k \in 1 .. N |-> [x \in Acc |-> AddMessage(x, m[k])]]
<1>2. G \in [1 .. N -> [Acc -> Acc]]
  BY MessageTypes
<1>3. NoEntries \in Acc
  BY DEF NoEntries, Acc
<1>4. PICK f \in [0 .. N -> Acc] : Goes(f, NoEntries, G, N)
  <2> HIDE DEF G
  <2>1. QED
    BY <1>2, <1>3, RunExists
<1>5. f[0] = NoEntries /\ \A k \in 1 .. N : f[k] = AddMessage(f[k - 1], m[k])
  <2>1. ASSUME NEW k \in 1 .. N PROVE f[k] = AddMessage(f[k - 1], m[k])
    <3>1. f[k] = G[k][f[k - 1]]
      BY <1>4 DEF Goes
    <3>2. f[k - 1] \in Acc
      OBVIOUS
    <3>3. QED
      BY <3>1, <3>2
  <2>2. QED
    BY <1>4, <2>1 DEF Goes
<1> DEFINE Is(g) == g = [k \in 0 .. N |-> IF k = 0 THEN NoEntries ELSE AddMessage(g[k - 1], m[k])]
           upTo == CHOOSE g : Is(g)
<1>6. Is(f)
  BY <1>5
<1>7. Is(upTo)
  BY <1>6
<1>8. upTo[N] = f[N]
  <2>1. PICK g : g = upTo
    OBVIOUS
  <2>2. Is(g)
    BY <1>7, <2>1
  <2>3. g[0] = f[0] /\ \A k \in 1 .. N : g[k - 1] = f[k - 1] => g[k] = f[k]
    BY <1>5, <2>2
  <2>4. QED
    BY <2>1, <2>3, RunIsUnique
<1>9. Extract(m) = upTo[N].entries
  BY <1>1 DEF Extract
<1>10. QED
  BY <1>1, <1>5, <1>8, <1>9

\* Fewer open calls are told as well.
LEMMA ToldLess ==
    ASSUME NEW a, NEW C, NEW R, NEW P, Told(a, C, R, P), NEW Q \in SUBSET P
    PROVE  Told(a, C, R, Q)
BY DEF Told

\* At first nothing is told.
LEMMA NothingTold == Told(NoEntries, {}, {}, {})
BY DEF Told, NoEntries, Acc

\* A message: its calls are told, then its returns.
LEMMA MessageTold ==
    ASSUME idOf \in Seq(Ids), NEW a, NEW C \in SUBSET (1 .. Len(idOf)), NEW R \in SUBSET C,
           NEW Q \in SUBSET C, Told(a, C, R, Q), NEW m,
           m.calls \subseteq 1 .. Len(idOf),
           \A c \in C, d \in m.calls \ typed : c < d,
           \A c, d \in Q \cup (m.calls \ typed) : c # d => idOf[c] # idOf[d],
           m.returns \subseteq Q \cup (m.calls \ typed)
    PROVE  Told(AddMessage(a, m), C \cup (m.calls \ typed), R \cup m.returns,
                (Q \cup (m.calls \ typed)) \ m.returns)
<1>1. PICK calls, b, D, P : /\ calls = m.calls \ typed /\ b = InOrder(AddCall, a, calls)
                            /\ D = C \cup calls /\ P = Q \cup calls
  OBVIOUS
<1>2. Told(b, D, R, P)
  BY <1>1, CallsTold
<1>3. D \in SUBSET (1 .. Len(idOf)) /\ P \in SUBSET D /\ m.returns \in SUBSET P
  BY <1>1
<1>4. Told(InOrder(AddReturn, b, m.returns), D, R \cup m.returns, P \ m.returns)
  BY <1>1, <1>2, <1>3, ReturnsTold
<1>5. QED
  BY <1>1, <1>4 DEF AddMessage

\* What a message returns are calls of the one before it.
LEMMA ReturnsAreCalls ==
    ASSUME NEW m \in Seq(Messages), Answers(m), Ordered(m), NEW k \in 1 .. Len(m)
    PROVE  /\ m[k].kind = "response" => m[k].returns = {}
           /\ m[k].returns # {} => k > 1 /\ m[k].returns \subseteq m[k - 1].calls \ typed
<1>1. m[k] \in Messages
  OBVIOUS
<1>2. m[k].kind = "response" => m[k].returns = {}
  BY <1>1, InMessages
<1>3. ASSUME m[k].returns # {} PROVE k > 1 /\ m[k].returns \subseteq m[k - 1].calls \ typed
  <2>1. Answered(m[k]) # {} /\ m[k].returns \subseteq Answered(m[k])
    BY <1>3 DEF Answered
  <2>2. k > 1 /\ m[k - 1].calls = Answered(m[k])
    BY <2>1 DEF Answers
  <2>3. m[k].returns \cap typed = {}
    BY DEF Ordered
  <2>4. QED
    BY <2>1, <2>2, <2>3
<1>4. QED
  BY <1>2, <1>3

\* An accepted conversation whose calls are numbered is told to its end.
LEMMA ConversationTold ==
    ASSUME idOf \in Seq(Ids), NEW m \in Seq(Messages), Answers(m), Ordered(m),
           CallsIn(m) \subseteq 1 .. Len(idOf)
    PROVE  \E a : /\ Extract(m) = a.entries
                  /\ Told(a, CallsTo(m, Len(m)), ReturnsTo(m, Len(m)), {})
<1>1. PICK N \in Nat : N = Len(m)
  OBVIOUS
<1>2. PICK f \in [0 .. Len(m) -> Acc] :
         /\ f[0] = NoEntries
         /\ \A k \in 1 .. Len(m) : f[k] = AddMessage(f[k - 1], m[k])
         /\ Extract(m) = f[Len(m)].entries
  BY MessagesInOrder
<1> DEFINE Open(k) == IF k = 0 THEN {} ELSE m[k].calls \ typed
           T(k) == Told(f[k], CallsTo(m, k), ReturnsTo(m, k), Open(k))
           S == {k \in 0 .. N : T(k)}
<1>3. 0 \in S
  <2>1. CallsTo(m, 0) = {} /\ ReturnsTo(m, 0) = {} /\ Open(0) = {}
    BY DEF CallsTo, ReturnsTo
  <2>2. T(0)
    BY <1>2, <2>1, NothingTold
  <2>3. QED
    BY <2>2
<1>4. ASSUME NEW k \in 1 .. N, k - 1 \in S PROVE k \in S
  <2>1. PICK x, C, R, P, Q :
           /\ x = f[k - 1] /\ C = CallsTo(m, k - 1) /\ R = ReturnsTo(m, k - 1)
           /\ P = Open(k - 1) /\ Q = IF m[k].kind = "response" THEN {} ELSE P
    OBVIOUS
  <2>2. Told(x, C, R, P)
    BY <1>4, <2>1
  <2>3. P \in SUBSET C
    <3>1. CASE k = 1
      BY <2>1, <3>1
    <3>2. CASE k > 1
      <4>1. k - 1 \in 1 .. k - 1 /\ P = m[k - 1].calls \ typed
        BY <2>1, <3>2
      <4>2. QED
        BY <2>1, <4>1 DEF CallsTo
    <3>3. QED
      BY <3>1, <3>2
  <2>4. Q \in SUBSET C /\ Q \in SUBSET P
    BY <2>1, <2>3
  <2>5. Told(x, C, R, Q)
    BY <2>2, <2>4, ToldLess
  <2>6. C \in SUBSET (1 .. Len(idOf)) /\ m[k].calls \subseteq 1 .. Len(idOf)
    <3>1. \A i \in 1 .. Len(m) : m[i].calls \subseteq CallsIn(m)
      BY CallsOf
    <3>2. QED
      BY <1>1, <2>1, <3>1 DEF CallsTo
  <2>7. R \in SUBSET C
    <3>1. ASSUME NEW i \in 1 .. k - 1 PROVE m[i].returns \subseteq C
      <4>1. CASE m[i].returns = {}
        BY <4>1
      <4>2. CASE m[i].returns # {}
        <5>1. i \in 1 .. Len(m)
          BY <1>1
        <5>2. i > 1 /\ m[i].returns \subseteq m[i - 1].calls \ typed
          BY <4>2, <5>1, ReturnsAreCalls
        <5>3. i - 1 \in 1 .. k - 1
          BY <5>2
        <5>4. QED
          BY <2>1, <5>2, <5>3 DEF CallsTo
      <4>3. QED
        BY <4>1, <4>2
    <3>2. QED
      BY <2>1, <3>1 DEF ReturnsTo
  <2>8. PICK y : y = m[k]
    OBVIOUS
  <2>9. y \in Messages /\ k \in 1 .. Len(m)
    BY <1>1, <2>8
  <2>10. \A c \in C, d \in y.calls \ typed : c < d
    <3>1. ASSUME NEW c \in C, NEW d \in y.calls \ typed PROVE c < d
      <4>1. PICK i \in 1 .. k - 1 : c \in m[i].calls
        BY <2>1 DEF CallsTo
      <4>2. i \in 1 .. Len(m) /\ k \in 1 .. Len(m) /\ i < k /\ d \in m[k].calls
        BY <1>1, <2>8
      <4>3. QED
        BY <4>1, <4>2 DEF Ordered
    <3>2. QED
      BY <3>1
  <2>11. \A c, d \in Q \cup (y.calls \ typed) : c # d => idOf[c] # idOf[d]
    <3>1. CASE y.kind = "response"
      BY <2>1, <2>8, <2>9, <3>1 DEF Ordered
    <3>2. CASE y.kind # "response"
      <4>1. y.calls = {}
        BY <2>9, <3>2, InMessages
      <4>2. CASE k = 1
        BY <2>1, <4>1, <4>2
      <4>3. CASE k > 1
        <5>1. k - 1 \in 1 .. Len(m) /\ Q \subseteq m[k - 1].calls
          BY <1>1, <2>1, <4>3
        <5>2. QED
          BY <4>1, <5>1 DEF Ordered
      <4>4. QED
        BY <4>2, <4>3
    <3>3. QED
      BY <3>1, <3>2
  <2>12. y.returns \subseteq Q
    <3>1. CASE y.returns = {}
      BY <3>1
    <3>2. CASE y.returns # {}
      <4>1. k > 1 /\ y.returns \subseteq m[k - 1].calls \ typed /\ y.kind # "response"
        BY <2>8, <2>9, <3>2, ReturnsAreCalls
      <4>2. QED
        BY <2>1, <2>8, <4>1
    <3>3. QED
      BY <3>1, <3>2
  <2>13. Told(AddMessage(x, y), C \cup (y.calls \ typed), R \cup y.returns,
              (Q \cup (y.calls \ typed)) \ y.returns)
    BY <2>4, <2>5, <2>6, <2>7, <2>8, <2>10, <2>11, <2>12, MessageTold
  <2>14. C \cup (y.calls \ typed) = CallsTo(m, k) /\ R \cup y.returns = ReturnsTo(m, k)
    <3>1. 1 .. k = (1 .. k - 1) \cup {k}
      OBVIOUS
    <3>2. QED
      BY <2>1, <2>8, <3>1 DEF CallsTo, ReturnsTo
  <2>15. Open(k) \in SUBSET ((Q \cup (y.calls \ typed)) \ y.returns)
    <3>1. y.calls = {} \/ y.returns = {}
      BY <2>9, InMessages
    <3>2. Open(k) = y.calls \ typed
      BY <2>8
    <3>3. QED
      BY <3>1, <3>2
  <2>16. f[k] = AddMessage(x, y)
    BY <1>1, <1>2, <2>1, <2>8
  <2>17. T(k)
    BY <2>13, <2>14, <2>15, <2>16, ToldLess
  <2>18. QED
    BY <2>17
<1>5. N \in S
  <2>1. N \in 0 .. N
    OBVIOUS
  <2> HIDE DEF S
  <2>2. QED
    BY <1>3, <1>4, <2>1, NumberByNumber
<1>6. Told(f[N], CallsTo(m, N), ReturnsTo(m, N), {})
  <2>1. T(N)
    BY <1>5
  <2>2. QED
    BY <2>1, ToldLess
<1>7. QED
  BY <1>1, <1>2, <1>6

-----------------------------------------------------------------------------
(* How calls are numbered, and the hand-off.                               *)

\* The elements of a concatenation.
LEMMA ConcatenatedElements ==
    ASSUME NEW S, NEW s \in Seq(S), NEW t \in Seq(S)
    PROVE  /\ Len(s \o t) = Len(s) + Len(t)
           /\ \A i \in 1 .. Len(s) : (s \o t)[i] = s[i]
           /\ \A i \in 1 .. Len(t) : (s \o t)[Len(s) + i] = t[i]
<1>1. PICK n \in Nat : n = Len(s)
  OBVIOUS
<1>2. PICK k \in Nat : k = Len(t)
  OBVIOUS
<1>3. Len(s \o t) = n + k
  BY <1>1, <1>2
<1>4. \A i \in 1 .. n : (s \o t)[i] = s[i]
  BY <1>1, <1>2
<1>5. ASSUME NEW i \in 1 .. k PROVE (s \o t)[n + i] = t[i]
  <2>1. n + i \in 1 .. n + k /\ ~ (n + i <= n) /\ (n + i) - n = i
    OBVIOUS
  <2>2. QED
    BY <1>1, <1>2, <2>1
<1>6. QED
  BY <1>1, <1>2, <1>3, <1>4, <1>5

\* A conversation keeps its order when only new calls are numbered.
LEMMA StillOrdered ==
    ASSUME NEW m \in Seq(Messages), Ordered(m), Answers(m), idOf \in Seq(Ids),
           CallsIn(m) \subseteq 1 .. Len(idOf),
           \A c \in 1 .. Len(idOf) : idOf'[c] = idOf[c] /\ (c \in typed' => c \in typed)
    PROVE  Ordered(m)'
<1>1. \A i \in 1 .. Len(m) : m[i].calls \subseteq 1 .. Len(idOf)
  BY CallsOf
<1>2. ASSUME NEW i \in 1 .. Len(m) PROVE m[i].returns \subseteq 1 .. Len(idOf)
  <2>1. CASE m[i].returns = {}
    BY <2>1
  <2>2. CASE m[i].returns # {}
    <3>1. i > 1 /\ m[i].returns \subseteq m[i - 1].calls
      BY <2>2, ReturnsAreCalls
    <3>2. i - 1 \in 1 .. Len(m)
      BY <3>1
    <3>3. QED
      BY <1>1, <3>1, <3>2
  <2>3. QED
    BY <2>1, <2>2
<1>3. \A i, j \in 1 .. Len(m) : i < j => \A c \in m[i].calls, d \in m[j].calls : c < d
  BY DEF Ordered
<1>4. ASSUME NEW i \in 1 .. Len(m), NEW c \in m[i].calls, NEW d \in m[i].calls, c # d
      PROVE  idOf'[c] # idOf'[d]
  <2>1. idOf[c] # idOf[d]
    BY <1>4 DEF Ordered
  <2>2. QED
    BY <1>1, <2>1
<1>5. ASSUME NEW i \in 1 .. Len(m) PROVE m[i].returns \cap typed' = {}
  BY <1>2 DEF Ordered
<1>6. QED
  BY <1>3, <1>4, <1>5 DEF Ordered

\* A beginning of it is ordered as well.
LEMMA PrefixOrdered ==
    ASSUME NEW m \in Seq(Messages), Ordered(m), NEW k \in 0 .. Len(m)
    PROVE  Ordered(SubSeq(m, 1, k))
<1>1. PICK t : t = SubSeq(m, 1, k)
  OBVIOUS
<1>2. Len(t) = k /\ \A i \in 1 .. k : i \in 1 .. Len(m) /\ t[i] = m[i]
  BY <1>1
<1>3. Ordered(t)
  BY <1>2 DEF Ordered
<1>4. QED
  BY <1>1, <1>3

\* A message with new calls, and no final_result returned, may follow.
LEMMA OrderedBehind ==
    ASSUME NEW t \in Seq(Messages), Ordered(t), NEW x \in Messages,
           \A i \in 1 .. Len(t) : \A c \in t[i].calls, d \in x.calls : c < d,
           \A c, d \in x.calls : c # d => idOf[c] # idOf[d],
           x.returns \cap typed = {}
    PROVE  Ordered(Append(t, x))
<1>1. PICK n \in Nat : n = Len(t)
  OBVIOUS
<1>2. PICK c : c = Append(t, x)
  OBVIOUS
<1>3. Len(c) = n + 1 /\ c[n + 1] = x /\ \A i \in 1 .. n : c[i] = t[i]
  BY <1>1, <1>2
<1>4. ASSUME NEW i \in 1 .. n + 1, NEW j \in 1 .. n + 1, i < j,
             NEW p \in c[i].calls, NEW q \in c[j].calls
      PROVE  p < q
  <2>1. i \in 1 .. n /\ c[i] = t[i]
    BY <1>3, <1>4
  <2>2. CASE j = n + 1
    BY <1>1, <1>3, <1>4, <2>1, <2>2
  <2>3. CASE j # n + 1
    <3>1. j \in 1 .. n /\ c[j] = t[j]
      BY <1>3, <2>3
    <3>2. QED
      BY <1>1, <1>4, <2>1, <3>1 DEF Ordered
  <2>4. QED
    BY <2>2, <2>3
<1>5. ASSUME NEW i \in 1 .. n + 1
      PROVE  /\ \A p, q \in c[i].calls : p # q => idOf[p] # idOf[q]
             /\ c[i].returns \cap typed = {}
  <2>1. CASE i = n + 1
    BY <1>3, <2>1
  <2>2. CASE i # n + 1
    <3>1. i \in 1 .. n /\ c[i] = t[i]
      BY <1>3, <2>2
    <3>2. QED
      BY <1>1, <3>1 DEF Ordered
  <2>3. QED
    BY <2>1, <2>2
<1>6. Ordered(c)
  BY <1>3, <1>4, <1>5 DEF Ordered
<1>7. QED
  BY <1>2, <1>6

\* A message that calls and returns nothing may always follow.
LEMMA OrderedBehindIdle ==
    ASSUME NEW t \in Seq(Messages), Ordered(t), NEW x \in Messages, x.calls = {}, x.returns = {}
    PROVE  Ordered(Append(t, x))
BY OrderedBehind

\* A prompt, merged or behind it, changes nothing.
LEMMA ContinueOrdered ==
    ASSUME NEW t \in Seq(Messages), Ordered(t)
    PROVE  Ordered(Continue(t))
<1>1. CASE merges /\ t # <<>> /\ Last(t).kind = "request"
  <2>1. PICK n \in Nat : n = Len(t)
    OBVIOUS
  <2>2. PICK c : c = [t EXCEPT ![n].prompt = TRUE]
    OBVIOUS
  <2>3. Continue(t) = c
    BY <1>1, <2>1, <2>2 DEF Continue
  <2>4. \A i \in 1 .. n : t[i] \in Messages
    BY <2>1
  <2>5. ASSUME NEW i \in 1 .. n
        PROVE  c[i].calls = t[i].calls /\ c[i].returns = t[i].returns
    <3>1. c[i] = IF i = n THEN [t[i] EXCEPT !.prompt = TRUE] ELSE t[i]
      <4>1. i \in DOMAIN t
        BY <2>1
      <4>2. QED
        BY <2>2, <4>1
    <3>2. t[i] \in [kind : {"request", "response"}, prompt : BOOLEAN, calls : SUBSET Nat,
                    returns : SUBSET Nat, retries : SUBSET Nat]
      BY <2>4 DEF Messages
    <3>3. QED
      BY <3>1, <3>2
  <2>6. Len(c) = n
    BY <2>1, <2>2
  <2>7. Ordered(c)
    BY <2>1, <2>5, <2>6 DEF Ordered
  <2>8. QED
    BY <2>3, <2>7
<1>2. CASE ~ (merges /\ t # <<>> /\ Last(t).kind = "request")
  <2>1. Continue(t) = Append(t, Prompt)
    BY <1>2 DEF Continue
  <2>2. Prompt.calls = {} /\ Prompt.returns = {} /\ Prompt \in Messages
    BY PromptIs DEF Prompt, Request
  <2>3. QED
    BY <2>1, <2>2, OrderedBehindIdle
<1>3. QED
  BY <1>1, <1>2

\* So a conversation that goes on from the last request is ordered.
LEMMA ResumedOrdered ==
    ASSUME NEW m \in Seq(Messages), Sent(m), Ordered(m)
    PROVE  Ordered(Continue(Trim(m)))
<1>1. PICK k \in 0 .. Len(m) : Trim(m) = SubSeq(m, 1, k)
  BY TrimLeavesOff
<1>2. PICK t : t = SubSeq(m, 1, k)
  OBVIOUS
<1>3. t \in Seq(Messages) /\ Ordered(t)
  BY <1>2, PrefixOrdered
<1>4. Ordered(Continue(t))
  BY <1>3, ContinueOrdered
<1>5. QED
  BY <1>1, <1>2, <1>4

\* The calls of a response that has come in are later than all before.
NewCalls(calls) ==
    /\ convo = Append(last, Response(calls))
    /\ \A i \in 1 .. Len(last) : \A c \in last[i].calls, d \in calls : c < d
    /\ \A c, d \in calls : c # d => idOf[c] # idOf[d]

\* What the hand-off needs beside TranscriptInv.
Numbered ==
    /\ Ordered(Base)
    /\ pc = "tools" => \E calls \in SUBSET (1 .. Len(idOf)) : NewCalls(calls)

\* It holds at the start.
LEMMA NumberedStarts == TranscriptInit => Numbered
<1> SUFFICES ASSUME TranscriptInit PROVE Numbered
  OBVIOUS
<1>1. pc = "ready" /\ Base = convo /\ convo = <<Prompt>>
  BY DEF TranscriptInit, Base
<1>2. Prompt.calls = {} /\ Prompt.returns = {}
  BY DEF Prompt, Request
<1>3. Len(convo) = 1 /\ \A i \in 1 .. 1 : convo[i] = Prompt
  BY <1>1
<1>4. Ordered(convo)
  BY <1>2, <1>3 DEF Ordered
<1>5. QED
  BY <1>1, <1>4 DEF Numbered

\* A conversation that begins, afresh or from the last request.
LEMMA NumberedReady ==
    ASSUME pc' = "ready", Ordered(convo)'
    PROVE  Numbered'
BY DEF Numbered, Base

\* A fresh conversation has no calls.
LEMMA NumberedFresh ==
    ASSUME NEW s \in Fresh, Begin(s)
    PROVE  Numbered'
<1>1. pc' = "ready" /\ convo' = Continue(<<>>)
  BY DEF Begin
<1>2. Continue(<<>>) = <<Prompt>>
  BY DEF Continue
<1>3. Prompt.calls = {} /\ Prompt.returns = {}
  BY DEF Prompt, Request
<1>4. Len(convo') = 1 /\ convo'[1] = Prompt
  BY <1>1, <1>2
<1>5. Ordered(convo)'
  BY <1>3, <1>4 DEF Ordered
<1>6. QED
  BY <1>1, <1>5, NumberedReady

\* One that goes on from the last request has no new ones.
LEMMA NumberedResumed ==
    ASSUME TranscriptInv, Numbered, pc \in {"waiting", "tools"},
           pc' = "ready", convo' = Continue(Trim(last)), convo' \in Seq(Messages),
           Answers(convo'), CallsIn(convo') \subseteq 1 .. Len(idOf),
           \A c \in 1 .. Len(idOf) : idOf'[c] = idOf[c] /\ (c \in typed' => c \in typed)
    PROVE  Numbered'
<1>1. idOf \in Seq(Ids) /\ last \in Seq(Messages) /\ Sent(last) /\ Ordered(last)
  BY DEF TranscriptInv, TranscriptTyped, Numbered, Base
<1>2. PICK m : m = convo'
  OBVIOUS
<1>3. Ordered(m)
  BY <1>1, <1>2, ResumedOrdered
<1>4. Ordered(m)'
  BY <1>1, <1>2, <1>3, StillOrdered
<1>5. Ordered(convo)'
  BY <1>2, <1>4 DEF Ordered
<1>6. QED
  BY <1>5, NumberedReady

\* Every step preserves it, beside TranscriptInv.
LEMMA NumberedStep ==
    TranscriptInv /\ TranscriptInv' /\ Numbered /\ [TranscriptNext]_transcriptVars => Numbered'
<1> SUFFICES ASSUME TranscriptInv, TranscriptInv', Numbered, [TranscriptNext]_transcriptVars
             PROVE  Numbered'
  OBVIOUS
<1>1. /\ idOf \in Seq(Ids) /\ Len(idOf) \in Nat
      /\ Base \in Seq(Messages) /\ CallsIn(Base) \subseteq 1 .. Len(idOf)
      /\ Sent(Base) /\ Answers(Base) /\ Ordered(Base)
  BY DEF TranscriptInv, TranscriptTyped, Sent, Numbered
<1>2. CASE SendRequest
  <2>1. Base' = Base /\ pc' = "waiting" /\ UNCHANGED <<idOf, typed>>
    BY <1>2 DEF SendRequest, Base, callVars
  <2>2. QED
    BY <1>1, <2>1 DEF Numbered, Ordered
<1>3. CASE AnswerWithCalls
  <2>1. pc = "waiting" /\ pc' = "tools" /\ Base' = Base /\ last' = last /\ Base = last
        /\ convo = last
    BY <1>3 DEF AnswerWithCalls, Base, TranscriptInv, Incoming
  <2>2. PICK n \in Nat, ids \in Seq(Ids) :
           /\ Len(ids) = n /\ idOf' = idOf \o ids
           /\ \A i, j \in 1 .. n : i # j => ids[i] # ids[j]
           /\ typed' \subseteq typed \cup {Len(idOf) + n} /\ n >= 1
           /\ convo' = Append(convo, Response(Len(idOf) + 1 .. Len(idOf) + n))
    <3>1. MaxCalls \in Nat
      BY TranscriptAssumption
    <3>2. PICK n \in 1 .. (MaxCalls - Len(idOf)) :
           \E ids \in {f \in [1 .. n -> Ids] : IsInjective(f)} :
             /\ idOf' = idOf \o ids
             /\ typed' \subseteq typed \cup {Len(idOf) + n}
             /\ convo' = Append(convo, Response(Len(idOf) + 1 .. Len(idOf) + n))
      BY <1>3 DEF AnswerWithCalls
    <3>3. n \in Nat /\ n >= 1
      BY <1>1, <3>1
    <3>4. PICK ids \in [1 .. n -> Ids] :
             /\ IsInjective(ids) /\ idOf' = idOf \o ids
             /\ typed' \subseteq typed \cup {Len(idOf) + n}
             /\ convo' = Append(convo, Response(Len(idOf) + 1 .. Len(idOf) + n))
      BY <3>2
    <3>5. ids \in Seq(Ids) /\ Len(ids) = n
      BY <3>3
    <3>6. \A i, j \in 1 .. n : i # j => ids[i] # ids[j]
      BY <3>4 DEF IsInjective
    <3>7. QED
      BY <3>3, <3>4, <3>5, <3>6
  <2>3. PICK N \in Nat : N = Len(idOf)
    BY <1>1
  <2>4. /\ Len(idOf') = N + n /\ \A c \in 1 .. N : idOf'[c] = idOf[c]
        /\ \A i \in 1 .. n : idOf'[N + i] = ids[i]
    <3>1. /\ Len(idOf \o ids) = Len(idOf) + Len(ids)
          /\ \A i \in 1 .. Len(idOf) : (idOf \o ids)[i] = idOf[i]
          /\ \A i \in 1 .. Len(ids) : (idOf \o ids)[Len(idOf) + i] = ids[i]
      BY <1>1, ConcatenatedElements
    <3>2. PICK s : s = idOf \o ids
      OBVIOUS
    <3>3. /\ Len(s) = N + n /\ \A c \in 1 .. N : s[c] = idOf[c]
          /\ \A i \in 1 .. n : s[N + i] = ids[i]
      BY <2>2, <2>3, <3>1, <3>2
    <3>4. idOf' = s
      BY <2>2, <3>2
    <3>5. QED
      BY <3>3, <3>4
  <2>5. \A c \in 1 .. N : c \in typed' => c \in typed
    BY <2>2, <2>3
  <2>6. PICK m : m = Base
    OBVIOUS
  <2>7. Ordered(m)'
    BY <1>1, <2>3, <2>4, <2>5, <2>6, StillOrdered
  <2>8. Ordered(Base)'
    BY <2>1, <2>6, <2>7 DEF Ordered
  <2>9. PICK calls : calls = N + 1 .. N + n
    OBVIOUS
  <2>10. ASSUME NEW i \in 1 .. Len(last), NEW c \in last[i].calls, NEW d \in calls
         PROVE  c < d
    <3>1. c \in 1 .. N
      BY <1>1, <2>1, <2>3, <2>10, CallsOf
    <3>2. QED
      BY <2>9, <3>1
  <2>11. ASSUME NEW c \in calls, NEW d \in calls, c # d PROVE idOf'[c] # idOf'[d]
    <3>1. c - N \in 1 .. n /\ d - N \in 1 .. n /\ c - N # d - N
          /\ N + (c - N) = c /\ N + (d - N) = d
      BY <2>9, <2>11
    <3>2. idOf'[c] = ids[c - N] /\ idOf'[d] = ids[d - N]
      BY <2>4, <3>1
    <3>3. QED
      BY <2>2, <3>1, <3>2
  <2>12. calls \in SUBSET (1 .. Len(idOf'))
    BY <2>4, <2>9
  <2>13. NewCalls(calls)'
    BY <2>1, <2>2, <2>3, <2>9, <2>10, <2>11 DEF NewCalls
  <2>14. QED
    BY <2>8, <2>12, <2>13 DEF Numbered
<1>4. CASE RunTools
  <2>1. /\ pc = "tools" /\ pc' = "ready" /\ Base = last /\ UNCHANGED <<idOf, typed>>
    BY <1>4 DEF RunTools, Base, callVars
  <2>2. PICK calls \in SUBSET (1 .. Len(idOf)) : NewCalls(calls)
    BY <2>1 DEF Numbered
  <2>3. PICK r : r = Response(calls)
    OBVIOUS
  <2>4. r \in Messages /\ r.calls = calls /\ r.returns = {}
    <3>1. calls \in SUBSET Nat
      BY <1>1
    <3>2. r \in Messages /\ r.calls = calls /\ r.kind = "response"
      BY <2>3, <3>1, ResponseIs, Zenon
    <3>3. QED
      BY <3>2, InMessages
  <2>5. convo = Append(last, r) /\ convo \in Seq(Messages) /\ Last(convo) = r
    BY <1>1, <2>1, <2>2, <2>3, <2>4, LastAppended DEF NewCalls
  <2>6. Ordered(Append(last, r))
    BY <1>1, <2>1, <2>2, <2>4, OrderedBehind DEF NewCalls
  <2>7. PICK done \in SUBSET (calls \ typed) :
           convo' = Append(convo, Request(FALSE, done, calls \ done))
    <3>1. PICK done \in SUBSET (IF stage \in Fresh THEN calls \ typed ELSE {}) :
             convo' = Append(convo, Request(FALSE, done, calls \ done))
      BY <1>4, <2>4, <2>5 DEF RunTools
    <3>2. done \in SUBSET (calls \ typed)
      OBVIOUS
    <3>3. QED
      BY <3>1, <3>2
  <2>8. PICK q : q = Request(FALSE, done, calls \ done)
    OBVIOUS
  <2>9. q \in Messages /\ q.calls = {} /\ q.returns = done
    <3>1. done \in SUBSET Nat /\ calls \ done \in SUBSET Nat
      BY <1>1
    <3>2. QED
      BY <2>8, <3>1 DEF Request, Messages, Answered
  <2>10. Ordered(Append(convo, q))
    <3>1. q.returns \cap typed = {}
      BY <2>9
    <3>2. QED
      BY <2>5, <2>6, <2>9, <3>1, OrderedBehind
  <2>11. PICK m : m = Append(convo, q)
    OBVIOUS
  <2>12. convo' = m /\ Ordered(m)
    BY <2>7, <2>8, <2>10, <2>11
  <2>13. Ordered(convo)'
    BY <2>1, <2>12 DEF Ordered
  <2>14. QED
    BY <2>1, <2>13, NumberedReady
<1>5. CASE AnswerUntyped
  <2>1. /\ pc = "waiting" /\ pc' = "ready" /\ UNCHANGED <<idOf, typed>>
        /\ convo' = convo \o <<Response({}), Request(FALSE, {}, {})>>
    BY <1>5 DEF AnswerUntyped, callVars
  <2>2. Base = convo
    BY <2>1 DEF TranscriptInv, Incoming, Base
  <2>3. PICK r, q, c : r = Response({}) /\ q = Request(FALSE, {}, {}) /\ c = Append(convo, r)
    OBVIOUS
  <2>4. /\ r \in Messages /\ r.calls = {} /\ r.returns = {}
        /\ q \in Messages /\ q.calls = {} /\ q.returns = {}
    BY <2>3 DEF Response, Request, Messages, Answered
  <2>5. c \in Seq(Messages) /\ Ordered(c)
    BY <1>1, <2>2, <2>3, <2>4, OrderedBehindIdle
  <2>6. Ordered(Append(c, q))
    BY <2>4, <2>5, OrderedBehindIdle
  <2>7. convo' = Append(c, q)
    <3>1. convo \in Seq(Messages) /\ convo' = convo \o <<r, q>>
      BY <1>1, <2>1, <2>2, <2>3
    <3>2. convo \o <<r, q>> = Append(Append(convo, r), q)
      BY <2>4, <3>1, AppendedTwice
    <3>3. QED
      BY <2>3, <3>1, <3>2
  <2>8. Ordered(convo)'
    BY <2>1, <2>6, <2>7 DEF Ordered
  <2>9. QED
    BY <2>1, <2>8, NumberedReady
<1>6. ASSUME pc \in {"waiting", "tools"}, pc' = "ready", convo' = Continue(Trim(last)),
             \A c \in 1 .. Len(idOf) : idOf'[c] = idOf[c] /\ (c \in typed' => c \in typed)
      PROVE  Numbered'
  <2>1. convo' \in Seq(Messages) /\ Answers(convo')
    BY <1>6 DEF TranscriptInv, TranscriptTyped, Base, Sent
  <2>2. Resumes(Continue(Trim(last)), last, {})
    <3>1. last \in Seq(Messages) /\ Sent(last) /\ Evidence(last, {})
      BY <1>1, <1>6 DEF Base, Evidence
    <3>2. QED
      BY <3>1, TrimmedGoesOn
  <2>3. CallsIn(convo') \subseteq 1 .. Len(idOf)
    BY <1>1, <1>6, <2>2 DEF Resumes, Base
  <2>4. QED
    BY <1>6, <2>1, <2>3, NumberedResumed
<1>7. ASSUME NEW s \in Stages, Begin(s), pc \in {"waiting", "tools"} PROVE Numbered'
  <2>1. CASE s \in Fresh
    BY <1>7, <2>1, NumberedFresh
  <2>2. CASE s \notin Fresh
    <3>1. pc' = "ready" /\ convo' = Continue(Trim(last)) /\ UNCHANGED <<idOf, typed>>
      BY <1>7, <2>2 DEF Begin, callVars
    <3>2. QED
      BY <1>6, <1>7, <3>1
  <2>3. QED
    BY <2>1, <2>2
<1>8. CASE AnswerFinal
  <2>1. pc = "waiting"
    BY <1>8 DEF AnswerFinal
  <2>2. CASE stage # "work"
    <3>1. Begin(Following("done")) /\ stage \in Stages
      BY <1>8, <2>2 DEF AnswerFinal, TranscriptInv, TranscriptTyped
    <3>2. Following("done") \in Stages
      BY <2>2, <3>1 DEF Following, Stages, Fresh
    <3>3. QED
      BY <1>7, <2>1, <3>1, <3>2
  <2>3. CASE stage = "work"
    <3>1. /\ pc' = "ready" /\ convo' = Continue(Trim(last))
          /\ \E i \in Ids : idOf' = Append(idOf, i)
          /\ typed' = typed \cup {Len(idOf) + 1}
      BY <1>8, <2>3 DEF AnswerFinal
    <3>2. \A c \in 1 .. Len(idOf) : idOf'[c] = idOf[c]
      BY <1>1, <3>1
    <3>3. \A c \in 1 .. Len(idOf) : c \in typed' => c \in typed
      BY <1>1, <3>1
    <3>4. QED
      BY <1>6, <2>1, <3>1, <3>2, <3>3
  <2>4. QED
    BY <2>2, <2>3
<1>9. ASSUME NEW status \in {"timeout", "error"}, NEW done, CutOff(status, done)
      PROVE  Numbered'
  <2>1. pc \in {"waiting", "tools"}
    BY <1>9 DEF CutOff
  <2>2. CASE Following(status) \in Fresh
    <3>1. Begin(Following(status))
      BY <1>9, <2>2 DEF CutOff
    <3>2. QED
      BY <2>2, <3>1, NumberedFresh
  <2>3. CASE Following(status) \notin Fresh
    <3>1. pc' = "ready" /\ convo' = Continue(Trim(last)) /\ UNCHANGED <<idOf, typed>>
      BY <1>9, <2>3 DEF CutOff, callVars
    <3>2. QED
      BY <1>6, <2>1, <3>1
  <2>4. QED
    BY <2>2, <2>3
<1>10. CASE Retry
  <2>1. pc \in {"waiting", "tools"} /\ Begin(stage) /\ stage \in Stages
    BY <1>10 DEF Retry, TranscriptInv, TranscriptTyped
  <2>2. QED
    BY <1>7, <2>1
<1>11. CASE UNCHANGED transcriptVars
  BY <1>11 DEF transcriptVars, callVars, Numbered, Base, Ordered, NewCalls
<1>12. QED
  BY <1>2, <1>3, <1>4, <1>5, <1>8, <1>9, <1>10, <1>11 DEF TranscriptNext

\* The larger and the smaller of two numbers.
LEMMA OfTwo ==
    ASSUME NEW x \in Int, NEW y \in Int
    PROVE  /\ Max({x, y}) = IF x >= y THEN x ELSE y
           /\ Min({x, y}) = IF x <= y THEN x ELSE y
<1>1. PICK S : S = {x, y}
  OBVIOUS
<1>2. Max(S) = IF x >= y THEN x ELSE y
  <2>1. PICK z : z = Max(S)
    OBVIOUS
  <2>2. \E u \in S : \A v \in S : u >= v
    BY <1>1
  <2>3. Max(S) = CHOOSE u \in S : \A v \in S : u >= v
    BY DEF Max
  <2>4. z \in S /\ \A v \in S : z >= v
    BY <2>1, <2>2, <2>3, Zenon
  <2>5. QED
    BY <1>1, <2>1, <2>4
<1>3. Min(S) = IF x <= y THEN x ELSE y
  <2>1. PICK z : z = Min(S)
    OBVIOUS
  <2>2. \E u \in S : \A v \in S : u =< v
    BY <1>1
  <2>3. Min(S) = CHOOSE u \in S : \A v \in S : u =< v
    BY DEF Min
  <2>4. z \in S /\ \A v \in S : z =< v
    BY <2>1, <2>2, <2>3, Zenon
  <2>5. QED
    BY <1>1, <2>1, <2>4
<1>4. QED
  BY <1>1, <1>2, <1>3

\* There are as many calls as entries that tell them.
LEMMA AsManyAsTold ==
    ASSUME NEW a, NEW C, NEW R, Told(a, C, R, {})
    PROVE  Len(a.entries) \in Nat /\ Cardinality(C) = Len(a.entries)
<1>1. PICK s : s = a.entries
  OBVIOUS
<1>2. s \in Seq(Entry)
  BY <1>1 DEF Told, Acc
<1>3. PICK n \in Nat : n = Len(s)
  BY <1>2
<1> DEFINE f == [k \in 1 .. n |-> s[k].call]
<1>4. /\ \A j, k \in 1 .. n : j < k => s[j].call < s[k].call
      /\ \A k \in 1 .. n : s[k].call \in C
      /\ \A c \in C : \E k \in 1 .. n : s[k].call = c
  BY <1>1, <1>3 DEF Told
<1>5. ASSUME NEW k \in 1 .. n PROVE s[k].call \in Nat
  <2>1. s[k] \in Entry
    BY <1>2, <1>3
  <2>2. QED
    BY <2>1 DEF Entry
<1>6. \A j, k \in 1 .. n : s[j].call = s[k].call => j = k
  <2>1. ASSUME NEW j \in 1 .. n, NEW k \in 1 .. n, s[j].call = s[k].call, j # k PROVE FALSE
    <3>1. s[j].call < s[k].call \/ s[k].call < s[j].call
      BY <1>4, <2>1
    <3>2. QED
      BY <1>5, <2>1, <3>1
  <2>2. QED
    BY <2>1
<1>7. f \in Bijection(1 .. n, C)
  BY <1>4, <1>6 DEF Bijection, Injection, Surjection, IsInjective
<1>8. IsFiniteSet(1 .. n) /\ Cardinality(1 .. n) = n
  BY FS_Interval
<1>9. Cardinality(C) = Cardinality(1 .. n)
  <2>1. ExistsBijection(1 .. n, C)
    BY <1>7 DEF ExistsBijection
  <2>2. QED
    BY <1>8, <2>1, FS_Bijection
<1>10. QED
  BY <1>1, <1>3, <1>8, <1>9

\* p is the end of s, from its element b on.
EndFrom(p, s, b) ==
    Len(p) = Len(s) - b + 1 /\ \A i \in 1 .. Len(s) - b + 1 : p[i] = s[b + i - 1]

\* SubSeq is the end of its sequence.
LEMMA EndOf ==
    ASSUME NEW Element, NEW s \in Seq(Element), NEW b \in 1 .. Len(s) + 1
    PROVE  SubSeq(s, b, Len(s)) \in Seq(Element) /\ EndFrom(SubSeq(s, b, Len(s)), s, b)
<1>1. PICK n \in Nat : n = Len(s)
  OBVIOUS
<1>2. SubSeq(s, b, n) \in Seq(Element)
  BY <1>1
<1>3. Len(SubSeq(s, b, n)) = n - b + 1
  BY <1>1
<1>4. \A i \in 1 .. n - b + 1 : SubSeq(s, b, n)[i] = s[b + i - 1]
  BY <1>1
<1>5. PICK p : p = SubSeq(s, b, n)
  OBVIOUS
<1>6. p \in Seq(Element) /\ EndFrom(p, s, b)
  BY <1>1, <1>2, <1>3, <1>4, <1>5 DEF EndFrom
<1>7. QED
  BY <1>1, <1>5, <1>6

\* Where the last N of n entries begin.
LEMMA WhereLastBegin ==
    ASSUME NEW n \in Nat, NEW N \in Nat
    PROVE  /\ Max({1, n - N + 1}) \in 1 .. n + 1
           /\ n - Max({1, n - N + 1}) + 1 = Min({N, n})
<1>1. PICK x \in Int : x = n - N + 1
  OBVIOUS
<1>2. Max({1, x}) = IF 1 >= x THEN 1 ELSE x
  BY OfTwo
<1>3. Min({N, n}) = IF N <= n THEN N ELSE n
  BY OfTwo
<1>4. PICK b, l : b = Max({1, x}) /\ l = Min({N, n})
  OBVIOUS
<1>5. b = (IF 1 >= x THEN 1 ELSE x) /\ l = IF N <= n THEN N ELSE n
  BY <1>2, <1>3, <1>4
<1>6. b \in 1 .. n + 1 /\ n - b + 1 = l
  BY <1>1, <1>5
<1>7. QED
  BY <1>1, <1>4, <1>6

\* The last N entries of a sequence.
LEMMA LastEntries ==
    ASSUME NEW Element, NEW s \in Seq(Element), NEW N \in Nat
    PROVE  LET p == SubSeq(s, Max({1, Len(s) - N + 1}), Len(s)) IN
           /\ p \in Seq(Element) /\ Len(p) = Min({N, Len(s)})
           /\ \E b \in 1 .. Len(s) + 1 : EndFrom(p, s, b)
<1>1. Len(s) \in Nat
  OBVIOUS
<1>2. PICK b : b = Max({1, Len(s) - N + 1})
  OBVIOUS
<1>3. b \in 1 .. Len(s) + 1 /\ Len(s) - b + 1 = Min({N, Len(s)})
  BY <1>1, <1>2, WhereLastBegin
<1>4. PICK p : p = SubSeq(s, b, Len(s))
  OBVIOUS
<1>5. p \in Seq(Element) /\ EndFrom(p, s, b)
  BY <1>3, <1>4, EndOf
<1>6. Len(p) = Min({N, Len(s)})
  BY <1>3, <1>5 DEF EndFrom
<1>7. QED
  BY <1>2, <1>3, <1>4, <1>5, <1>6

\* p tells the latest of the calls C, and R of them with their result.
TellsLatest(p, C, R) ==
    /\ \A i \in DOMAIN p :
          /\ p[i].call \in C
          /\ p[i].result = IF p[i].call \in R THEN p[i].call ELSE 0
    /\ \A c \in C, i \in DOMAIN p :
          (\A j \in DOMAIN p : p[j].call # c) => c < p[i].call

\* The end of a conversation that is told.
LEMMA EndTold ==
    ASSUME NEW a, NEW C, NEW R, Told(a, C, R, {}), NEW p \in Seq(Entry),
           NEW b \in 1 .. Len(a.entries) + 1, EndFrom(p, a.entries, b)
    PROVE  TellsLatest(p, C, R)
<1>1. PICK s : s = a.entries
  OBVIOUS
<1>2. PICK n \in Nat : n = Len(s)
  BY <1>1 DEF Told, Acc
<1>3. PICK l : l = n - b + 1
  OBVIOUS
<1>4. b \in 1 .. n + 1 /\ l \in Nat
  BY <1>1, <1>2, <1>3
<1>5. DOMAIN p = 1 .. l /\ \A i \in 1 .. l : p[i] = s[b + i - 1]
  <2>1. Len(p) = l /\ \A i \in 1 .. l : p[i] = s[b + i - 1]
    BY <1>1, <1>2, <1>3 DEF EndFrom
  <2>2. DOMAIN p = 1 .. Len(p)
    OBVIOUS
  <2>3. QED
    BY <2>1, <2>2
<1>6. /\ \A j, k \in 1 .. n : j < k => s[j].call < s[k].call
      /\ \A k \in 1 .. n : s[k].call \in C /\ s[k].result = IF s[k].call \in R THEN s[k].call ELSE 0
      /\ \A c \in C : \E k \in 1 .. n : s[k].call = c
  BY <1>1, <1>2 DEF Told
<1>7. \A i \in 1 .. l : b + i - 1 \in 1 .. n /\ b <= b + i - 1
  BY <1>3, <1>4
<1>8. \A k \in b .. n : k - b + 1 \in 1 .. l /\ b + (k - b + 1) - 1 = k
  BY <1>3, <1>4
<1>9. ASSUME NEW c \in C, NEW i \in 1 .. l, \A j \in 1 .. l : p[j].call # c
      PROVE  c < p[i].call
  <2>1. PICK k \in 1 .. n : s[k].call = c
    BY <1>6
  <2>2. k \notin b .. n
    <3>1. ASSUME k \in b .. n PROVE FALSE
      <4>1. PICK j \in 1 .. l : b + j - 1 = k
        BY <1>8, <3>1
      <4>2. p[j].call = c
        BY <1>5, <2>1, <4>1
      <4>3. QED
        BY <1>9, <4>2
    <3>2. QED
      BY <3>1
  <2>3. PICK j \in 1 .. n : j = b + i - 1 /\ k < j
    BY <1>4, <1>7, <2>2
  <2>4. s[j].call = p[i].call
    BY <1>5, <2>3
  <2>5. QED
    BY <1>6, <2>1, <2>3, <2>4
<1>10. ASSUME NEW i \in 1 .. l
       PROVE  /\ p[i].call \in C
              /\ p[i].result = IF p[i].call \in R THEN p[i].call ELSE 0
  <2>1. PICK j \in 1 .. n : p[i] = s[j]
    BY <1>5, <1>7
  <2>2. QED
    BY <1>6, <2>1
<1>11. QED
  BY <1>5, <1>9, <1>10 DEF TellsLatest

(***************************************************************************)
(* The hand-off tells the latest calls that the conversation of the cut    *)
(* off PLAN kept, each with its own result, although ids repeat from       *)
(* response to response (state.py, extract_last_tools).                    *)
(***************************************************************************)
THEOREM HandoffsAreTrue == TranscriptSpec => []HandoffIsTrue
<1>1. TranscriptInv /\ Numbered => HandoffIsTrue
  <2> SUFFICES ASSUME TranscriptInv, Numbered, pc # "ready" PROVE HandoffIsTrue
    BY DEF HandoffIsTrue
  <2>1. /\ last = Base /\ last \in Seq(Messages) /\ Answers(last) /\ Ordered(last)
        /\ idOf \in Seq(Ids) /\ CallsIn(last) \subseteq 1 .. Len(idOf)
    BY DEF TranscriptInv, TranscriptTyped, Sent, Numbered, Base
  <2>2. PICK a : /\ Extract(last) = a.entries
                 /\ Told(a, CallsTo(last, Len(last)), ReturnsTo(last, Len(last)), {})
    BY <2>1, ConversationTold
  <2>3. PICK C, R : /\ C = CallsIn(last) \ typed
                    /\ R = UNION {last[i].returns : i \in DOMAIN last}
    OBVIOUS
  <2>4. DOMAIN last = 1 .. Len(last)
    BY <2>1
  <2>5. C = CallsTo(last, Len(last)) /\ R = ReturnsTo(last, Len(last))
    BY <2>3, <2>4 DEF CallsIn, CallsTo, ReturnsTo
  <2>6. PICK p : p = PlanHandoff
    OBVIOUS
  <2>7. /\ p \in Seq(Entry) /\ Len(p) = Min({LastToolsN, Len(a.entries)})
        /\ \E b \in 1 .. Len(a.entries) + 1 : EndFrom(p, a.entries, b)
    <3>1. a.entries \in Seq(Entry) /\ LastToolsN \in Nat
      BY <2>2, TranscriptAssumption DEF Told, Acc
    <3>2. p = SubSeq(a.entries, Max({1, Len(a.entries) - LastToolsN + 1}), Len(a.entries))
      BY <2>2, <2>6 DEF PlanHandoff, LastTools
    <3>3. QED
      BY <3>1, <3>2, LastEntries
  <2>8. Told(a, C, R, {})
    BY <2>2, <2>5
  <2>9. Len(p) = Min({LastToolsN, Cardinality(C)})
    BY <2>7, <2>8, AsManyAsTold
  <2>10. PICK b \in 1 .. Len(a.entries) + 1 : EndFrom(p, a.entries, b)
    BY <2>7
  <2>11. TellsLatest(p, C, R)
    <3>1. p \in Seq(Entry)
      BY <2>7
    <3>2. QED
      BY <2>8, <2>10, <3>1, EndTold
  <2>12. PICK told : told = {p[i].call : i \in DOMAIN p}
    OBVIOUS
  <2>13. /\ told \subseteq C
         /\ \A c \in C \ told, d \in told : c < d
         /\ \A i \in DOMAIN p : p[i].result = IF p[i].call \in R THEN p[i].call ELSE 0
    BY <2>11, <2>12 DEF TellsLatest
  <2>14. QED
    BY <2>3, <2>6, <2>9, <2>12, <2>13 DEF HandoffIsTrue
<1>2. TranscriptSpec => []Numbered
  <2>1. TranscriptSpec => []TranscriptInv
    BY TranscriptHolds
  <2>2. QED
    BY <2>1, NumberedStarts, NumberedStep, PTL DEF TranscriptSpec
<1>3. QED
  BY <1>1, <1>2, TranscriptHolds, PTL

=============================================================================
