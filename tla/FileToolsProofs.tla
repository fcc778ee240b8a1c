-------------------------- MODULE FileToolsProofs ---------------------------
(***************************************************************************)
(* Theorems about FileTools for any number of calls and fragments and any  *)
(* degree of parallelism: the budget of a repair, and the file as long as  *)
(* calls are made one by one and none times out.                           *)
(***************************************************************************)
EXTENDS FileTools, TLAPS

Issued == 1 .. issued

\* A call that has been made and not been reported is in the last response.
CallsAreOrdered ==
    /\ \A c \in Issued :
          /\ calls[c].kind \in {"write", "edit"} /\ calls[c].fragment \in Fragments
          /\ calls[c].place # "none"
          /\ report[c] = "none" <=> calls[c].place # "done"
    /\ \A c, d \in Issued :
          c <= d \/ report[d] = "none" => calls[c].round <= calls[d].round
    /\ \A c \in Calls \ Issued :
          report[c] = "none" /\ thread[c] = "none" /\ calls[c].place = "none"

OkEdit(c) == calls[c].kind = "edit" /\ report[c] = "ok"
ActiveEdit(c) == calls[c].kind = "edit" /\ calls[c].place \in {"reading", "writing"}

\* An edit that has passed the check is of the response of those that count.
EditsOfOneResponse ==
    repairing =>
        \A c \in Issued : OkEdit(c) =>
            /\ mutations >= 1
            /\ \A d \in Issued :
                   OkEdit(d) \/ ActiveEdit(d) => calls[c].round = calls[d].round

-----------------------------------------------------------------------------
\* What is written, and on what: a new file, or one more replacement.
Due(c) ==
    /\ payload[c] = IF calls[c].kind = "write"
                    THEN Whole(c, {})
                    ELSE Whole(told.base, told.edits \cup {calls[c].fragment})
    /\ IF calls[c].kind = "write" THEN told = Absent ELSE told.state = "whole"

Pending(c) == thread[c] \in {"queued", "open"}

\* Where the only call under way has got to.
InProgress(c) ==
    \/ /\ calls[c].place \in {"start", "reading"}
       /\ file = told /\ ~ Pending(c)
    \/ /\ calls[c].place = "mkdir" /\ calls[c].kind = "write"
       /\ file = told /\ ~ Pending(c) /\ told = Absent
    \/ /\ calls[c].place = "writing"
       /\ Due(c)
       /\ \/ thread[c] = "queued" /\ file = told
          \/ thread[c] = "open"
          \/ thread[c] = "landed" /\ file = payload[c]

OneByOne ==
    Undisturbed =>
        /\ told.state # "torn" /\ mixed = {}
        /\ \A c \in Calls : Pending(c) => c \in Issued /\ report[c] = "none"
        /\ \A c \in Issued : report[c] = "none" => InProgress(c)
        /\ AllReported => file = told

-----------------------------------------------------------------------------
(* The steps.                                                              *)

EventLoopStep(c) ==
    \/ WriteStarts(c) \/ DirectoryMade(c) \/ EditStarts(c) \/ TextRead(c)
    \/ WriteEnds(c) \/ TimeOut(c)

ThreadStep(c) == ThreadOpens(c) \/ ThreadLands(c)

Call == [kind : {"none", "write", "edit"}, fragment : Fragments \cup {0}, round : Nat,
         place : {"none", "start", "mkdir", "reading", "writing", "done"}]

LEMMA IssuedTyped ==
    ASSUME TypeOK
    PROVE  /\ NCalls \in Nat /\ issued \in Nat /\ issued <= NCalls
           /\ Issued \subseteq Calls
           /\ calls \in [Calls -> Call]
           /\ \A c \in Calls : calls[c].round \in Nat
<1>1. calls \in [Calls -> Call]
  BY DEF TypeOK, Call
<1>2. \A c \in Calls : calls[c].round \in Nat
  BY <1>1 DEF Call
<1>3. QED
  BY <1>1, <1>2, FileToolsAssumption DEF TypeOK, Issued, Calls

LEMMA StepCases ==
    ASSUME [Next]_vars
    PROVE  \/ Respond
           \/ \E c \in Calls : EventLoopStep(c) \/ ThreadStep(c)
           \/ UNCHANGED vars
BY DEF Next, Finished, EventLoopStep, ThreadStep

\* What a step of the event loop does to the calls.
LEMMA EventLoopKeeps ==
    ASSUME TypeOK, NEW c \in Calls, EventLoopStep(c)
    PROVE  /\ c \in Issued /\ issued' = issued /\ repairing' = repairing /\ file' = file
           /\ \E place \in {"mkdir", "reading", "writing", "done"} :
                  calls' = [calls EXCEPT ![c].place = place]
           /\ \A d \in Calls :
                  /\ calls'[d].kind = calls[d].kind
                  /\ calls'[d].fragment = calls[d].fragment
                  /\ calls'[d].round = calls[d].round
                  /\ d # c => calls'[d].place = calls[d].place
                  /\ d # c => report'[d] = report[d]
                  /\ d # c => thread'[d] = thread[d]
                  /\ d # c => payload'[d] = payload[d]
<1>1. c \in Issued /\ issued' = issued /\ repairing' = repairing /\ file' = file
  BY DEF EventLoopStep, WriteStarts, DirectoryMade, EditStarts, TextRead, WriteEnds,
         TimeOut, At, Issued, Calls, TypeOK
<1>2. \E place \in {"mkdir", "reading", "writing", "done"} :
          calls' = [calls EXCEPT ![c].place = place]
  BY DEF EventLoopStep, WriteStarts, DirectoryMade, EditStarts, TextRead, WriteEnds,
         TimeOut, Reject, Await, Submit, Report, MoveTo
<1>3. /\ \/ report' = report
         \/ \E what : report' = [report EXCEPT ![c] = what]
      /\ \/ thread' = thread
         \/ \E what : thread' = [thread EXCEPT ![c] = what]
      /\ \/ payload' = payload
         \/ \E what : payload' = [payload EXCEPT ![c] = what]
  <2>1. CASE WriteStarts(c) \/ EditStarts(c)
    BY <2>1 DEF WriteStarts, EditStarts, Reject, Await, Report, threadVars
  <2>2. CASE DirectoryMade(c) \/ TextRead(c)
    BY <2>2 DEF DirectoryMade, TextRead, Reject, Submit, Report, threadVars
  <2>3. CASE WriteEnds(c) \/ TimeOut(c)
    BY <2>3 DEF WriteEnds, TimeOut, Report, threadVars
  <2>4. QED
    BY <2>1, <2>2, <2>3 DEF EventLoopStep
<1>4. \A d \in Calls :
          /\ calls'[d].kind = calls[d].kind
          /\ calls'[d].fragment = calls[d].fragment
          /\ calls'[d].round = calls[d].round
          /\ d # c => calls'[d].place = calls[d].place
  <2>1. calls \in [Calls -> Call]
    BY IssuedTyped
  <2>2. QED
    BY <1>2, <2>1 DEF Call
<1>5. \A d \in Calls : d # c =>
          report'[d] = report[d] /\ thread'[d] = thread[d] /\ payload'[d] = payload[d]
  BY <1>3 DEF TypeOK
<1>6. QED
  BY <1>1, <1>2, <1>4, <1>5

(***************************************************************************)
(* The next response is later than all calls made before.                  *)
(***************************************************************************)
LEMMA RoundIsLast ==
    ASSUME TypeOK, CallsAreOrdered
    PROVE  Round \in Nat /\ \A c \in Issued : calls[c].round <= Round
<1>1. Rounds \subseteq Nat
  BY IssuedTyped DEF Rounds, Issued
<1>2. \E n \in Rounds : \A m \in Rounds : m <= n
  <2>1. CASE issued = 0
    BY <2>1 DEF Rounds
  <2>2. CASE issued # 0
    <3>1. issued \in Issued /\ \A c \in Issued : c <= issued
      BY <2>2 DEF TypeOK, Issued
    <3>2. calls[issued].round \in Rounds
      BY <3>1 DEF Rounds, Issued
    <3>3. \A m \in Rounds : m <= calls[issued].round
      BY <1>1, <3>1, <3>2 DEF Rounds, CallsAreOrdered, Issued
    <3>4. QED
      BY <3>2, <3>3
  <2>3. QED
    BY <2>1, <2>2
<1>3. Round \in Rounds /\ \A m \in Rounds : m <= Round
  BY <1>2 DEF Round
<1>4. QED
  BY <1>1, <1>3 DEF Rounds, Issued

\* What a response does: calls at the start, of one round that is new.
LEMMA RespondAdds ==
    ASSUME TypeOK, CallsAreOrdered, Respond
    PROVE  /\ AllReported
           /\ issued' \in Nat /\ issued < issued' /\ issued' <= NCalls
           /\ calls' \in [Calls -> Call]
           /\ \A c \in Calls : c \notin issued + 1 .. issued' => calls'[c] = calls[c]
           /\ \E round \in Nat :
                 /\ \A c \in Issued : calls[c].round < round
                 /\ \A c \in issued + 1 .. issued' :
                       /\ calls'[c].kind \in {"write", "edit"}
                       /\ calls'[c].fragment \in Fragments
                       /\ calls'[c].place = "start" /\ calls'[c].round = round
<1>1. PICK k \in 1 .. MaxParallel :
          /\ issued + k <= NCalls
          /\ issued' = issued + k
          /\ \E kind \in [1 .. k -> {"write", "edit"}], f \in [1 .. k -> Fragments] :
              calls' = [c \in Calls |->
                  IF c \in issued + 1 .. issued + k
                  THEN [kind |-> kind[c - issued], fragment |-> f[c - issued],
                        round |-> Round + 1, place |-> "start"]
                  ELSE calls[c]]
  BY DEF Respond
<1>2. PICK kind \in [1 .. k -> {"write", "edit"}], f \in [1 .. k -> Fragments] :
          calls' = [c \in Calls |->
              IF c \in issued + 1 .. issued + k
              THEN [kind |-> kind[c - issued], fragment |-> f[c - issued],
                    round |-> Round + 1, place |-> "start"]
              ELSE calls[c]]
  BY <1>1
<1>3. issued \in Nat /\ k \in Nat /\ k > 0 /\ NCalls \in Nat
  BY <1>1, FileToolsAssumption, IssuedTyped
<1>4. Round \in Nat /\ \A c \in Issued : calls[c].round \in Nat /\ calls[c].round < Round + 1
  <2>1. Round \in Nat /\ \A c \in Issued : calls[c].round <= Round
    BY RoundIsLast
  <2>2. \A c \in Issued : calls[c].round \in Nat
    BY IssuedTyped
  <2>3. QED
    BY <2>1, <2>2
<1>5. \A c \in issued + 1 .. issued + k : c - issued \in 1 .. k /\ c \in Calls
  BY <1>1, <1>3 DEF Calls
<1>6. \A c \in issued + 1 .. issued + k :
          \E type \in {"write", "edit"}, fragment \in Fragments :
              calls'[c] = [kind |-> type, fragment |-> fragment,
                           round |-> Round + 1, place |-> "start"]
  BY <1>2, <1>5
<1>7. \A c \in Calls : c \notin issued + 1 .. issued + k => calls'[c] = calls[c]
  BY <1>2
<1>8a. ASSUME NEW c \in issued + 1 .. issued + k
      PROVE  /\ calls'[c] \in Call
             /\ calls'[c].kind \in {"write", "edit"}
             /\ calls'[c].fragment \in Fragments
             /\ calls'[c].place = "start" /\ calls'[c].round = Round + 1
  <2>1. PICK type \in {"write", "edit"}, fragment \in Fragments :
            calls'[c] = [kind |-> type, fragment |-> fragment,
                         round |-> Round + 1, place |-> "start"]
    BY <1>6
  <2>2. Round + 1 \in Nat
    BY <1>4
  <2>3. calls'[c] \in Call
    BY <2>1, <2>2 DEF Call
  <2>4. QED
    BY <2>1, <2>3
<1>8. calls' \in [Calls -> Call]
  <2>1. calls \in [Calls -> Call]
    BY IssuedTyped
  <2>2. \A c \in issued + 1 .. issued + k : calls'[c] \in Call
    BY <1>8a
  <2>3. \A c \in Calls : calls'[c] \in Call
    BY <1>7, <2>1, <2>2
  <2>4. QED
    BY <1>2, <2>3
<1>9. \A c \in issued + 1 .. issued' :
          /\ calls'[c].kind \in {"write", "edit"}
          /\ calls'[c].fragment \in Fragments
          /\ calls'[c].place = "start" /\ calls'[c].round = Round + 1
  BY <1>1, <1>8a
<1>10. issued' \in Nat /\ issued < issued' /\ issued' <= NCalls
  BY <1>1, <1>3
<1>11. Round + 1 \in Nat /\ \A c \in Issued : calls[c].round < Round + 1
  BY <1>4
<1>12. AllReported /\ \A c \in Calls : c \notin issued + 1 .. issued' => calls'[c] = calls[c]
  BY <1>1, <1>7 DEF Respond
<1>13. QED
  BY <1>8, <1>9, <1>10, <1>11, <1>12

-----------------------------------------------------------------------------
(* Type correctness.                                                       *)

LEMMA TypeInit == Init => TypeOK
BY FileToolsAssumption DEF Init, TypeOK, Files, Whole, Absent, NoCall, Calls

LEMMA TypeStep == TypeOK /\ CallsAreOrdered /\ [Next]_vars => TypeOK'
<1> SUFFICES ASSUME TypeOK, CallsAreOrdered, [Next]_vars PROVE TypeOK'
  OBVIOUS
<1>1. CASE Respond
  <2>1. issued' \in 0 .. NCalls
    BY <1>1, RespondAdds, FileToolsAssumption
  <2>2. QED
    BY <1>1, <2>1, RespondAdds DEF Respond, TypeOK, threadVars, Call
<1>2. ASSUME NEW c \in Calls, EventLoopStep(c) PROVE TypeOK'
  <2>1. calls' \in [Calls -> Call]
    <3>1. calls \in [Calls -> Call]
      BY IssuedTyped
    <3>2. PICK place \in {"mkdir", "reading", "writing", "done"} :
              calls' = [calls EXCEPT ![c].place = place]
      BY <1>2, EventLoopKeeps
    <3>3. QED
      BY <3>1, <3>2 DEF Call
  <2>2. Whole(c, {}) \in Files /\ Torn \in Files /\ Absent \in Files
    BY FileToolsAssumption DEF Files, Whole, Torn, Absent, Calls
  <2>3. /\ report' \in [Calls -> {"none", "ok", "failed", "timeout"}]
        /\ thread' \in [Calls -> {"none", "queued", "open", "landed"}]
        /\ mixed' = mixed
    BY <1>2 DEF EventLoopStep, WriteStarts, DirectoryMade, EditStarts, TextRead,
           WriteEnds, TimeOut, Reject, Await, Submit, Report, threadVars, TypeOK
  <2>4. c \in Issued
    BY <1>2, EventLoopKeeps
  <2>5. calls[c].fragment \in Fragments
    BY <2>4 DEF CallsAreOrdered
  <2>6. payload' \in [Calls -> Files]
    <3>1. CASE DirectoryMade(c)
      BY <2>2, <3>1 DEF DirectoryMade, Submit, TypeOK
    <3>2. CASE TextRead(c)
      <4>1. Whole(file.base, file.edits \cup {calls[c].fragment}) \in Files
        BY <2>5 DEF TypeOK, Files, Whole
      <4>2. QED
        BY <2>2, <3>2, <4>1 DEF TextRead, Reject, Submit, threadVars, TypeOK
    <3>3. CASE WriteStarts(c) \/ EditStarts(c) \/ WriteEnds(c) \/ TimeOut(c)
      BY <3>3 DEF WriteStarts, EditStarts, WriteEnds, TimeOut, Reject, Await,
             threadVars, TypeOK
    <3>4. QED
      BY <1>2, <3>1, <3>2, <3>3 DEF EventLoopStep
  <2>7. told' \in Files /\ mutations' \in Nat
    <3>1. CASE WriteEnds(c)
      <4>1. [told EXCEPT !.edits = @ \cup {calls[c].fragment}] \in Files
        BY <2>5 DEF TypeOK, Files
      <4>2. QED
        BY <2>2, <3>1, <4>1 DEF WriteEnds, Tell, TypeOK
    <3>2. CASE told' = told /\ mutations' = mutations
      BY <3>2 DEF TypeOK
    <3>3. QED
      BY <1>2, <3>1, <3>2 DEF EventLoopStep, WriteStarts, DirectoryMade, EditStarts,
             TextRead, TimeOut
  <2>8. QED
    BY <1>2, <2>1, <2>3, <2>6, <2>7, EventLoopKeeps DEF TypeOK, Call
<1>3. ASSUME NEW c \in Calls, ThreadStep(c) PROVE TypeOK'
  <2>1. Torn \in Files
    BY FileToolsAssumption DEF Files, Torn
  <2>2. QED
    BY <1>3, <2>1 DEF ThreadStep, ThreadOpens, ThreadLands, TypeOK, callVars
<1>4. CASE UNCHANGED vars
  BY <1>4 DEF vars, callVars, threadVars, TypeOK
<1>5. QED
  BY StepCases, <1>1, <1>2, <1>3, <1>4

-----------------------------------------------------------------------------
(* The order of the calls.                                                 *)

\* A step of the event loop is of a call that has not been reported; the
\* last step of a call reports it.
LEMMA EventLoopReports ==
    ASSUME TypeOK, CallsAreOrdered, NEW c \in Calls, EventLoopStep(c)
    PROVE  /\ c \in Issued /\ report[c] = "none"
           /\ report'[c] = "none" <=> calls'[c].place # "done"
<1>1. c \in Issued /\ calls[c].place \notin {"none", "done"}
  BY EventLoopKeeps DEF EventLoopStep, WriteStarts, DirectoryMade, EditStarts, TextRead,
         WriteEnds, TimeOut, At, CallsAreOrdered
<1>2. report[c] = "none"
  BY <1>1 DEF CallsAreOrdered
<1>3. calls \in [Calls -> Call]
  BY IssuedTyped
<1>4. \/ /\ report' = report
         /\ \E place \in {"mkdir", "reading", "writing"} :
                calls' = [calls EXCEPT ![c].place = place]
      \/ /\ \E what \in {"ok", "failed", "timeout"} :
                report' = [report EXCEPT ![c] = what]
         /\ calls' = [calls EXCEPT ![c].place = "done"]
  BY DEF EventLoopStep, WriteStarts, DirectoryMade, EditStarts, TextRead, WriteEnds,
         TimeOut, Reject, Await, Submit, Report, MoveTo
<1>5. QED
  BY <1>1, <1>2, <1>3, <1>4 DEF TypeOK, Call

LEMMA OrderedInit == Init => CallsAreOrdered
BY DEF Init, CallsAreOrdered, Issued, NoCall

LEMMA OrderedStep == TypeOK /\ CallsAreOrdered /\ [Next]_vars => CallsAreOrdered'
<1> SUFFICES ASSUME TypeOK, CallsAreOrdered, [Next]_vars PROVE CallsAreOrdered'
  OBVIOUS
<1>1. CASE Respond
  <2>1. report' = report /\ thread' = thread
    BY <1>1 DEF Respond, threadVars
  <2>2. PICK round \in Nat :
            /\ \A c \in Issued : calls[c].round < round
            /\ \A c \in issued + 1 .. issued' :
                  /\ calls'[c].kind \in {"write", "edit"}
                  /\ calls'[c].fragment \in Fragments
                  /\ calls'[c].place = "start" /\ calls'[c].round = round
    BY <1>1, RespondAdds
  <2>3. /\ AllReported
        /\ issued' \in Nat /\ issued < issued' /\ issued' <= NCalls
        /\ \A c \in Calls : c \notin issued + 1 .. issued' => calls'[c] = calls[c]
    BY <1>1, RespondAdds
  <2>4. /\ Issued' = Issued \cup (issued + 1 .. issued')
        /\ \A c \in Issued, d \in issued + 1 .. issued' : c < d
        /\ Issued' \subseteq Calls
    BY <2>3, IssuedTyped DEF Issued, Calls
  <2>5. /\ \A c \in Issued : calls'[c] = calls[c]
        /\ \A c \in Calls \ Issued' : calls'[c] = calls[c]
    BY <2>3, <2>4
  <2>6. \A c \in issued + 1 .. issued' : report[c] = "none"
    BY <2>4 DEF CallsAreOrdered
  <2>7. \A c \in Issued' :
            /\ calls'[c].kind \in {"write", "edit"} /\ calls'[c].fragment \in Fragments
            /\ calls'[c].place # "none"
            /\ report'[c] = "none" <=> calls'[c].place # "done"
    BY <2>1, <2>2, <2>4, <2>5, <2>6 DEF CallsAreOrdered
  <2>8. \A c, d \in Issued' :
            c <= d \/ report'[d] = "none" => calls'[c].round <= calls'[d].round
    <3>1. \A d \in Issued : report[d] # "none"
      BY <2>3 DEF AllReported, Issued
    <3>2. \A c \in Issued : calls'[c].round \in Nat /\ calls'[c].round < round
      BY <2>2, <2>5, IssuedTyped
    <3>3. \A c \in Issued, d \in issued + 1 .. issued' : ~ d <= c
      BY <2>3, IssuedTyped DEF Issued
    <3>4. QED
      BY <2>1, <2>2, <2>4, <2>5, <3>1, <3>2, <3>3 DEF CallsAreOrdered
  <2>9. \A c \in Calls \ Issued' :
            report'[c] = "none" /\ thread'[c] = "none" /\ calls'[c].place = "none"
    BY <2>1, <2>4, <2>5 DEF CallsAreOrdered
  <2>10. QED
    BY <2>7, <2>8, <2>9 DEF CallsAreOrdered
<1>2. ASSUME NEW c \in Calls, EventLoopStep(c) PROVE CallsAreOrdered'
  <2>1. /\ c \in Issued /\ report[c] = "none"
        /\ report'[c] = "none" <=> calls'[c].place # "done"
    BY <1>2, EventLoopReports
  <2>2. /\ Issued' = Issued
        /\ \A d \in Calls :
               /\ calls'[d].kind = calls[d].kind
               /\ calls'[d].fragment = calls[d].fragment
               /\ calls'[d].round = calls[d].round
               /\ d # c => calls'[d].place = calls[d].place
               /\ d # c => report'[d] = report[d]
               /\ d # c => thread'[d] = thread[d]
    BY <1>2, EventLoopKeeps DEF Issued
  <2>3. calls'[c].place # "none"
    <3>1. PICK place \in {"mkdir", "reading", "writing", "done"} :
              calls' = [calls EXCEPT ![c].place = place]
      BY <1>2, EventLoopKeeps
    <3>2. QED
      BY <3>1, IssuedTyped DEF Call
  <2>4. Issued \subseteq Calls
    BY IssuedTyped
  <2>5. QED
    BY <2>1, <2>2, <2>3, <2>4 DEF CallsAreOrdered
<1>3. ASSUME NEW c \in Calls, ThreadStep(c) PROVE CallsAreOrdered'
  <2>1. UNCHANGED <<issued, calls, report>>
    BY <1>3 DEF ThreadStep, ThreadOpens, ThreadLands, callVars
  <2>2. thread[c] # "none" /\ \A d \in Calls : d # c => thread'[d] = thread[d]
    BY <1>3 DEF ThreadStep, ThreadOpens, ThreadLands, TypeOK
  <2>3. QED
    BY <2>1, <2>2 DEF CallsAreOrdered, Issued
<1>4. CASE UNCHANGED vars
  BY <1>4 DEF vars, callVars, threadVars, CallsAreOrdered, Issued
<1>5. QED
  BY StepCases, <1>1, <1>2, <1>3, <1>4

-----------------------------------------------------------------------------
(* The budget of a repair.                                                 *)

LEMMA EditsStep ==
    TypeOK /\ CallsAreOrdered /\ EditsOfOneResponse /\ [Next]_vars => EditsOfOneResponse'
<1> SUFFICES ASSUME TypeOK, CallsAreOrdered, EditsOfOneResponse, [Next]_vars,
                    repairing'
             PROVE  EditsOfOneResponse'
  BY DEF EditsOfOneResponse
<1>1. ASSUME repairing, mutations' = mutations,
             \A d \in Issued' : OkEdit(d)' => d \in Issued /\ OkEdit(d),
             \A d \in Issued' : ActiveEdit(d)' => d \in Issued /\ ActiveEdit(d),
             \A d \in Issued : calls'[d].round = calls[d].round
      PROVE  EditsOfOneResponse'
  BY <1>1 DEF EditsOfOneResponse
<1>2. CASE Respond
  <2>1. /\ repairing' = repairing /\ mutations' = mutations /\ report' = report
    BY <1>2 DEF Respond, threadVars
  <2>2. /\ issued' \in Nat /\ issued < issued' /\ issued' <= NCalls
        /\ \A c \in Calls : c \notin issued + 1 .. issued' => calls'[c] = calls[c]
        /\ \A c \in issued + 1 .. issued' : calls'[c].place = "start"
    BY <1>2, RespondAdds
  <2>3. /\ Issued' = Issued \cup (issued + 1 .. issued')
        /\ Issued' \subseteq Calls
        /\ \A c \in Issued : c \notin issued + 1 .. issued'
    BY <2>2, IssuedTyped DEF Issued, Calls
  <2>4. \A c \in issued + 1 .. issued' : c \notin Issued => report[c] = "none"
    BY <2>3 DEF CallsAreOrdered
  <2>5. QED
    BY <1>1, <2>1, <2>2, <2>3, <2>4 DEF OkEdit, ActiveEdit
<1>3. ASSUME NEW c \in Calls, EventLoopStep(c) PROVE EditsOfOneResponse'
  <2>1. /\ c \in Issued /\ report[c] = "none"
        /\ report'[c] = "none" <=> calls'[c].place # "done"
    BY <1>3, EventLoopReports
  <2>2. /\ Issued' = Issued /\ Issued \subseteq Calls /\ repairing' = repairing
        /\ \A d \in Calls :
               /\ calls'[d].kind = calls[d].kind
               /\ calls'[d].round = calls[d].round
               /\ d # c => calls'[d].place = calls[d].place
               /\ d # c => report'[d] = report[d]
    BY <1>3, EventLoopKeeps, IssuedTyped DEF Issued
  <2>3. \A d \in Issued : d # c => /\ OkEdit(d)' <=> OkEdit(d)
                                   /\ ActiveEdit(d)' <=> ActiveEdit(d)
    BY <2>2 DEF OkEdit, ActiveEdit
  <2>4. CASE ~ OkEdit(c)' /\ (ActiveEdit(c)' => ActiveEdit(c)) /\ mutations' = mutations
    BY <1>1, <2>2, <2>3, <2>4
  <2>5. CASE WriteStarts(c) \/ DirectoryMade(c)
    <3>1. calls[c].kind = "write" /\ mutations' = mutations
      BY <2>5 DEF WriteStarts, DirectoryMade, At
    <3>2. QED
      BY <2>2, <2>4, <3>1 DEF OkEdit, ActiveEdit
  <2>6. CASE EditStarts(c)
    <3>1. CASE mutations >= 1
      <4>1. report'[c] = "failed" /\ mutations' = mutations
        BY <2>2, <2>6, <3>1 DEF EditStarts, Reject, Report, TypeOK
      <4>2. calls'[c].place = "done"
        BY <2>1, <4>1
      <4>3. QED
        BY <2>4, <4>1, <4>2 DEF OkEdit, ActiveEdit
    <3>2. CASE ~ mutations >= 1
      <4>1. \A d \in Issued : ~ OkEdit(d)
        BY <2>2, <3>2 DEF EditsOfOneResponse
      <4>2. report'[c] \in {"none", "failed"}
        BY <2>1, <2>6 DEF EditStarts, Reject, Report, Await, TypeOK
      <4>3. \A d \in Issued : ~ OkEdit(d)'
        BY <2>3, <4>1, <4>2 DEF OkEdit
      <4>4. QED
        BY <2>2, <4>3 DEF EditsOfOneResponse
    <3>3. QED
      BY <3>1, <3>2
  <2>7. CASE TextRead(c)
    <3>1. ActiveEdit(c) /\ mutations' = mutations
      BY <2>7 DEF TextRead, At, ActiveEdit
    <3>2. report'[c] \in {"none", "failed"}
      BY <2>1, <2>7 DEF TextRead, Reject, Report, Submit, TypeOK
    <3>3. QED
      BY <2>4, <3>1, <3>2 DEF OkEdit
  <2>8. CASE TimeOut(c)
    <3>1. report'[c] = "timeout" /\ mutations' = mutations
      BY <2>8 DEF TimeOut, Report, TypeOK
    <3>2. calls'[c].place = "done"
      BY <2>1, <3>1
    <3>3. QED
      BY <2>4, <3>1, <3>2 DEF OkEdit, ActiveEdit
  <2>9. CASE WriteEnds(c)
    <3>1. CASE calls[c].kind = "write"
      <4>1. mutations' = mutations
        BY <2>9, <3>1 DEF WriteEnds
      <4>2. QED
        BY <2>2, <2>4, <3>1, <4>1 DEF OkEdit, ActiveEdit
    <3>2. CASE calls[c].kind = "edit"
      <4>1. mutations \in Nat /\ mutations' = mutations + 1
        BY <2>2, <2>9, <3>2 DEF WriteEnds, TypeOK
      <4>2. ActiveEdit(c) /\ report'[c] = "ok"
        BY <2>9, <3>2 DEF WriteEnds, Report, ActiveEdit, TypeOK
      <4>3. calls'[c].place = "done"
        BY <2>1, <4>2
      <4>4. \A d \in Issued : OkEdit(d) => calls[d].round = calls[c].round
        BY <2>1, <2>2, <4>2 DEF EditsOfOneResponse
      <4>5. \A d \in Issued : ActiveEdit(d) => calls[d].round = calls[c].round
        <5>1. \A d \in Issued : ActiveEdit(d) => report[d] = "none"
          BY DEF CallsAreOrdered, ActiveEdit
        <5>2. \A d \in Issued : calls[d].round \in Nat
          BY <2>2, IssuedTyped
        <5>3. QED
          BY <2>1, <5>1, <5>2 DEF CallsAreOrdered
      <4>6. \A d \in Issued : OkEdit(d)' \/ ActiveEdit(d)' => calls[d].round = calls[c].round
        BY <2>3, <4>4, <4>5
      <4>7. mutations' >= 1
        BY <4>1
      <4>8. QED
        BY <2>2, <4>6, <4>7 DEF EditsOfOneResponse
    <3>3. QED
      BY <2>1, <3>1, <3>2 DEF CallsAreOrdered
  <2>10. QED
    BY <1>3, <2>5, <2>6, <2>7, <2>8, <2>9 DEF EventLoopStep
<1>4. ASSUME NEW c \in Calls, ThreadStep(c) PROVE EditsOfOneResponse'
  <2>1. UNCHANGED <<repairing, issued, calls, report, mutations>>
    BY <1>4 DEF ThreadStep, ThreadOpens, ThreadLands, callVars
  <2>2. QED
    BY <2>1 DEF EditsOfOneResponse, OkEdit, ActiveEdit, Issued
<1>5. CASE UNCHANGED vars
  BY <1>5 DEF vars, callVars, EditsOfOneResponse, OkEdit, ActiveEdit, Issued
<1>6. QED
  BY StepCases, <1>2, <1>3, <1>4, <1>5

-----------------------------------------------------------------------------
(* The file, as long as the calls are made one by one and none times out.  *)

\* Then nobody else is under way, and what has been so stays so.
LEMMA Alone ==
    ASSUME TypeOK, CallsAreOrdered, OneByOne, Undisturbed,
           NEW c \in Issued, report[c] = "none"
    PROVE  /\ InProgress(c) /\ ~ AllReported
           /\ \A d \in Calls : d # c => ~ Pending(d)
           /\ \A d \in Issued : d # c => report[d] # "none"
<1>1. \A d \in Issued : calls[d].round \in Nat
  BY IssuedTyped
<1>2. \A d \in Issued : d # c => report[d] # "none"
  BY <1>1 DEF CallsAreOrdered, Undisturbed, Issued
<1>3. QED
  BY <1>2 DEF OneByOne, AllReported, Issued

LEMMA UndisturbedBefore ==
    ASSUME TypeOK, CallsAreOrdered, [Next]_vars, Undisturbed'
    PROVE  Undisturbed
<1>1. CASE Respond
  <2>1. /\ issued' \in Nat /\ issued < issued' /\ report' = report
        /\ \A c \in Calls : c \notin issued + 1 .. issued' => calls'[c] = calls[c]
    BY <1>1, RespondAdds DEF Respond
  <2>2. Issued \subseteq Issued' /\ \A c \in Issued : calls'[c] = calls[c]
    BY <2>1, IssuedTyped DEF Issued
  <2>3. QED
    BY <2>1, <2>2 DEF Undisturbed, Issued
<1>2. ASSUME NEW c \in Calls, EventLoopStep(c) PROVE Undisturbed
  <2>1. c \in Issued /\ report[c] = "none"
    BY <1>2, EventLoopReports
  <2>2. /\ issued' = issued
        /\ \A d \in Calls :
               /\ calls'[d].round = calls[d].round
               /\ d # c => report'[d] = report[d]
    BY <1>2, EventLoopKeeps
  <2>3. QED
    BY <2>1, <2>2, IssuedTyped DEF Undisturbed, Issued
<1>3. ASSUME NEW c \in Calls, ThreadStep(c) PROVE Undisturbed
  BY <1>3 DEF ThreadStep, ThreadOpens, ThreadLands, callVars, Undisturbed
<1>4. CASE UNCHANGED vars
  BY <1>4 DEF vars, callVars, Undisturbed
<1>5. QED
  BY StepCases, <1>1, <1>2, <1>3, <1>4

\* A step of the only call under way.
LEMMA AloneOnLoop ==
    ASSUME TypeOK, CallsAreOrdered, OneByOne, Undisturbed, Undisturbed',
           NEW c \in Calls, EventLoopStep(c)
    PROVE  /\ told'.state # "torn" /\ mixed' = mixed
           /\ IF report'[c] = "none"
              THEN InProgress(c)'
              ELSE file' = told' /\ ~ Pending(c)'
<1>1. c \in Issued /\ report[c] = "none"
  BY EventLoopReports
<1>2. InProgress(c) /\ told.state # "torn"
  BY <1>1, Alone DEF OneByOne
<1>3. /\ calls \in [Calls -> Call] /\ calls[c].kind \in {"write", "edit"}
      /\ calls'[c].kind = calls[c].kind /\ calls'[c].fragment = calls[c].fragment
      /\ file' = file
  BY <1>1, IssuedTyped, EventLoopKeeps DEF CallsAreOrdered
<1>4. CASE WriteStarts(c)
  <2>1. /\ calls[c].place = "start" /\ calls[c].kind = "write"
        /\ told' = told /\ UNCHANGED threadVars
        /\ IF file # Absent THEN report'[c] = "failed"
                            ELSE calls'[c].place = "mkdir"
        /\ report'[c] = "none" => file = Absent
    BY <1>1, <1>3, <1>4 DEF WriteStarts, At, Reject, Await, Report, MoveTo, TypeOK, Call
  <2>2. file = told /\ ~ Pending(c)
    BY <1>2, <2>1 DEF InProgress
  <2>3. QED
    BY <1>2, <1>3, <2>1, <2>2 DEF InProgress, Pending, threadVars
<1>5. CASE DirectoryMade(c)
  <2>1. /\ calls[c].place = "mkdir" /\ calls[c].kind = "write"
        /\ told' = told /\ mixed' = mixed /\ report' = report
        /\ thread'[c] = "queued" /\ payload'[c] = Whole(c, {})
        /\ calls'[c].place = "writing"
    BY <1>3, <1>5 DEF DirectoryMade, At, Submit, MoveTo, TypeOK, Call
  <2>2. file = told /\ told = Absent
    BY <1>2, <2>1 DEF InProgress
  <2>3. InProgress(c)'
    BY <1>3, <2>1, <2>2 DEF InProgress, Due
  <2>4. QED
    BY <1>1, <1>2, <2>1, <2>3
<1>6. CASE EditStarts(c)
  <2>1. /\ calls[c].place = "start"
        /\ told' = told /\ UNCHANGED threadVars
        /\ report'[c] # "none" \/ calls'[c].place = "reading"
    BY <1>3, <1>6 DEF EditStarts, At, Reject, Await, Report, MoveTo, TypeOK, Call
  <2>2. file = told /\ ~ Pending(c)
    BY <1>2, <2>1 DEF InProgress
  <2>3. QED
    BY <1>2, <1>3, <2>1, <2>2 DEF InProgress, Pending, threadVars
<1>7. CASE TextRead(c)
  <2> DEFINE f == calls[c].fragment
  <2>1. calls[c].place = "reading" /\ calls[c].kind = "edit" /\ told' = told
    BY <1>7 DEF TextRead, At
  <2>2. file = told /\ ~ Pending(c)
    BY <1>2, <2>1 DEF InProgress
  <2>3. CASE Reject(c)
    <3>1. report'[c] = "failed" /\ UNCHANGED threadVars
      BY <2>3 DEF Reject, Report, TypeOK
    <3>2. QED
      BY <1>2, <1>3, <2>1, <2>2, <3>1 DEF Pending, threadVars
  <2>4. CASE file.state = "whole" /\ Submit(c, Whole(file.base, file.edits \cup {f}))
    <3>1. /\ mixed' = mixed /\ report' = report
          /\ thread'[c] = "queued" /\ calls'[c].place = "writing"
          /\ payload'[c] = Whole(told.base, told.edits \cup {f})
      BY <1>3, <2>2, <2>4 DEF Submit, MoveTo, TypeOK, Call
    <3>2. InProgress(c)'
      BY <1>3, <2>1, <2>2, <2>4, <3>1 DEF InProgress, Due
    <3>3. QED
      BY <1>1, <1>2, <2>1, <3>1, <3>2
  <2>5. QED
    BY <1>2, <1>7, <2>2, <2>3, <2>4 DEF TextRead
<1>8. CASE WriteEnds(c)
  <2>1. /\ calls[c].place = "writing" /\ thread[c] = "landed"
        /\ report'[c] = "ok" /\ UNCHANGED threadVars /\ Tell(c)
    BY <1>8 DEF WriteEnds, Report, TypeOK
  <2>2. Due(c) /\ file = payload[c]
    BY <1>2, <2>1 DEF InProgress
  <2>3. told' = payload[c] /\ told'.state = "whole"
    <3>1. CASE calls[c].kind = "write"
      BY <2>1, <2>2, <3>1 DEF Tell, Due, Whole
    <3>2. CASE calls[c].kind = "edit"
      <4>1. told \in Files /\ told.state = "whole"
        BY <2>2, <3>2 DEF TypeOK, Due
      <4>2. [told EXCEPT !.edits = @ \cup {calls[c].fragment}]
                = Whole(told.base, told.edits \cup {calls[c].fragment})
        BY <4>1 DEF Files, Whole
      <4>3. QED
        BY <2>1, <2>2, <3>2, <4>2 DEF Tell, Due, Whole
    <3>3. QED
      BY <1>3, <3>1, <3>2
  <2>4. QED
    BY <1>3, <2>1, <2>2, <2>3 DEF Pending, threadVars
<1>9. CASE TimeOut(c)
  <2>1. report'[c] = "timeout" /\ c \in 1 .. issued'
    BY <1>1, <1>9 DEF TimeOut, Report, TypeOK, Issued
  <2>2. QED
    BY <2>1 DEF Undisturbed
<1>10. QED
  BY <1>4, <1>5, <1>6, <1>7, <1>8, <1>9 DEF EventLoopStep

\* A step of the only call's thread.
LEMMA AloneInThread ==
    ASSUME TypeOK, CallsAreOrdered, OneByOne, Undisturbed,
           NEW c \in Calls, ThreadStep(c)
    PROVE  /\ c \in Issued /\ report[c] = "none"
           /\ mixed' = mixed /\ InProgress(c)'
<1>1. Pending(c)
  BY DEF ThreadStep, ThreadOpens, ThreadLands, Pending
<1>2. c \in Issued /\ report[c] = "none"
  BY <1>1 DEF OneByOne
<1>3. InProgress(c) /\ \A d \in Calls : d # c => ~ Pending(d)
  BY <1>2, Alone
<1>4. /\ calls[c].place = "writing" /\ Due(c)
      /\ thread[c] = "queued" => file = told
  BY <1>1, <1>3 DEF InProgress, Pending
<1>5. mixed = {}
  BY DEF OneByOne
<1>6. CASE ThreadOpens(c)
  <2>1. thread'[c] = "open" /\ UNCHANGED <<calls, payload, mixed, told>>
    BY <1>6 DEF ThreadOpens, callVars, TypeOK
  <2>2. QED
    BY <1>2, <1>4, <2>1 DEF InProgress, Due
<1>7. CASE ThreadLands(c)
  <2>1. /\ thread'[c] = "landed" /\ file' = payload[c]
        /\ UNCHANGED <<calls, payload, told>>
    BY <1>5, <1>7 DEF ThreadLands, callVars, TypeOK
  <2>2. mixed' = mixed
    BY <1>3, <1>7 DEF ThreadLands, Pending
  <2>3. QED
    BY <1>2, <1>4, <2>1, <2>2 DEF InProgress, Due
<1>8. QED
  BY <1>6, <1>7 DEF ThreadStep

LEMMA OneByOneStep ==
    TypeOK /\ CallsAreOrdered /\ OneByOne /\ [Next]_vars => OneByOne'
<1> SUFFICES ASSUME TypeOK, CallsAreOrdered, OneByOne, [Next]_vars, Undisturbed'
             PROVE  OneByOne'
  BY DEF OneByOne
<1>1. Undisturbed
  BY UndisturbedBefore
<1>2. CASE Respond
  <2>1. UNCHANGED <<file, report, thread, mixed, told>> /\ AllReported
    BY <1>2 DEF Respond, threadVars
  <2>2. /\ issued' \in Nat /\ issued < issued' /\ issued' <= NCalls
        /\ \A c \in issued + 1 .. issued' : calls'[c].place = "start"
    BY <1>2, RespondAdds
  <2>3. Issued' = Issued \cup (issued + 1 .. issued') /\ Issued' \subseteq Calls
    BY <2>2, IssuedTyped DEF Issued, Calls
  <2>4. file = told /\ \A c \in Calls : ~ Pending(c)
    BY <1>1, <2>1 DEF OneByOne, AllReported, Issued
  <2>5. \A c \in Issued' : report'[c] = "none" => InProgress(c)'
    <3>1. \A c \in Issued : report[c] # "none"
      BY <2>1 DEF AllReported, Issued
    <3>2. QED
      BY <2>1, <2>2, <2>3, <2>4, <3>1 DEF InProgress, Pending
  <2>6. QED
    BY <1>1, <2>1, <2>4, <2>5 DEF OneByOne, Pending
<1>3. ASSUME NEW c \in Calls, EventLoopStep(c) PROVE OneByOne'
  <2>1. c \in Issued /\ report[c] = "none"
    BY <1>3, EventLoopReports
  <2>2. /\ \A d \in Calls : d # c => ~ Pending(d)
        /\ \A d \in Issued : d # c => report[d] # "none"
    BY <1>1, <2>1, Alone
  <2>3. /\ Issued' = Issued /\ Issued \subseteq Calls
        /\ \A d \in Calls : d # c => report'[d] = report[d] /\ thread'[d] = thread[d]
    BY <1>3, EventLoopKeeps, IssuedTyped DEF Issued
  <2>4. /\ told'.state # "torn" /\ mixed' = mixed
        /\ IF report'[c] = "none"
           THEN InProgress(c)'
           ELSE file' = told' /\ ~ Pending(c)'
    BY <1>1, <1>3, AloneOnLoop
  <2>5. \A d \in Calls : Pending(d)' => d = c /\ report'[d] = "none"
    BY <2>2, <2>3, <2>4 DEF Pending
  <2>6. \A d \in Issued' : report'[d] = "none" => d = c
    BY <2>2, <2>3
  <2>7. AllReported' => report'[c] # "none"
    BY <2>1, <2>3 DEF AllReported, Issued
  <2>8. mixed = {}
    BY <1>1 DEF OneByOne
  <2>9. QED
    BY <2>1, <2>3, <2>4, <2>5, <2>6, <2>7, <2>8 DEF OneByOne
<1>4. ASSUME NEW c \in Calls, ThreadStep(c) PROVE OneByOne'
  <2>1. /\ c \in Issued /\ report[c] = "none"
        /\ mixed' = mixed /\ InProgress(c)'
    BY <1>1, <1>4, AloneInThread
  <2>2. /\ \A d \in Calls : d # c => ~ Pending(d)
        /\ \A d \in Issued : d # c => report[d] # "none"
    BY <1>1, <2>1, Alone
  <2>3. UNCHANGED <<issued, report, told>> /\ Issued' = Issued
    BY <1>4 DEF ThreadStep, ThreadOpens, ThreadLands, callVars, Issued
  <2>4. \A d \in Calls : d # c => thread'[d] = thread[d]
    BY <1>4 DEF ThreadStep, ThreadOpens, ThreadLands, TypeOK
  <2>5. \A d \in Calls : Pending(d)' => d = c
    BY <2>2, <2>4 DEF Pending
  <2>6. ~ AllReported'
    BY <2>1, <2>3 DEF AllReported, Issued
  <2>7. told.state # "torn" /\ mixed = {}
    BY <1>1 DEF OneByOne
  <2>8. QED
    BY <2>1, <2>2, <2>3, <2>5, <2>6, <2>7 DEF OneByOne
<1>5. CASE UNCHANGED vars
  <2>1. UNCHANGED <<file, told, mixed, issued, calls, report, thread, payload>>
    BY <1>5 DEF vars, callVars, threadVars
  <2>2. QED
    BY <1>1, <2>1 DEF OneByOne, InProgress, Due, Pending, AllReported, Issued
<1>6. QED
  BY StepCases, <1>2, <1>3, <1>4, <1>5

-----------------------------------------------------------------------------
(* The theorems.                                                           *)

IInv == TypeOK /\ CallsAreOrdered /\ EditsOfOneResponse /\ OneByOne

LEMMA Invariance == Spec => []IInv
<1>1. Init => EditsOfOneResponse /\ OneByOne
  <2> SUFFICES ASSUME Init PROVE EditsOfOneResponse /\ OneByOne
    OBVIOUS
  <2>1. Issued = {}
    BY DEF Init, Issued
  <2>2. told.state # "torn"
    BY DEF Init, Absent, Whole
  <2>3. QED
    BY <2>1, <2>2 DEF Init, EditsOfOneResponse, OneByOne, Pending
<1>2. Init => IInv
  BY <1>1, TypeInit, OrderedInit DEF IInv
<1>3. IInv /\ [Next]_vars => IInv'
  BY TypeStep, OrderedStep, EditsStep, OneByOneStep DEF IInv
<1>4. QED
  BY <1>2, <1>3, PTL DEF Spec

(***************************************************************************)
(* Every reachable state of the file tools has these types.                *)
(***************************************************************************)
THEOREM TypeCorrect == Spec => []TypeOK
<1>1. IInv => TypeOK
  BY DEF IInv
<1>2. QED
  BY <1>1, Invariance, PTL

(***************************************************************************)
(* As long as every response makes one call and none times out, the file   *)
(* is between two responses what the reports say, however long the run.    *)
(***************************************************************************)
THEOREM ReportsAddUp == Spec => []FileIsAsReported
<1>1. IInv => FileIsAsReported
  BY DEF IInv, OneByOne, FileIsAsReported
<1>2. QED
  BY <1>1, Invariance, PTL

(***************************************************************************)
(* Until then no write begins on a file that is there.                     *)
(***************************************************************************)
THEOREM LoneWritesCreate == Spec => LoneWriteNeverOverwrites
<1>1. IInv /\ [Next]_vars => [Undisturbed => \A c \in Calls : ~ Overwrites(c)]_vars
  <2> SUFFICES ASSUME IInv, Undisturbed, NEW c \in Calls, Overwrites(c) PROVE FALSE
    OBVIOUS
  <2>1. Pending(c) /\ thread[c] = "queued" /\ calls[c].kind = "write" /\ file # Absent
    BY DEF Overwrites, Pending
  <2>2. InProgress(c)
    BY <2>1 DEF IInv, OneByOne
  <2>3. told = Absent /\ file = told
    BY <2>1, <2>2 DEF InProgress, Due
  <2>4. QED
    BY <2>1, <2>3
<1>2. QED
  BY <1>1, Invariance, PTL DEF Spec, LoneWriteNeverOverwrites

(***************************************************************************)
(* The edits a repair reports are all of one response.                     *)
(***************************************************************************)
THEOREM RepairEditsOnce == Spec => []MutationsInOneResponse
<1>1. IInv => MutationsInOneResponse
  BY DEF IInv, EditsOfOneResponse, OkEdit, MutationsInOneResponse, Issued
<1>2. QED
  BY <1>1, Invariance, PTL

=============================================================================
