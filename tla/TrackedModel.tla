---------------------------- MODULE TrackedModel ----------------------------
(***************************************************************************)
(* TrackedModel (model.py) in detail: the preflight that discovers which   *)
(* output cap the endpoint accepts, a request with its two open attempts,  *)
(* the halving of a rejected cap, the stream that may still fail on any    *)
(* chunk, the streak of terminal failures, and the usage record that is    *)
(* logged late and tagged with the phase that is current by then.          *)
(* Token counts are in units of 1024; the endpoint is the environment.     *)
(***************************************************************************)
EXTENDS Integers, Sequences, FiniteSets

CONSTANTS
    PhaseIds,       \* phases the runner tags requests with
    ConfigMax,      \* [budget].max_tokens
    ServerCaps,     \* output caps the endpoint may have
    FailLimit,      \* [budget].endpoint_fail_limit
    FailBound,      \* bound on the streak, for a finite state space
    None

MinMax == 2                             \* MIN_MAX_TOKENS

ASSUME TrackedModelAssumption ==
    /\ ConfigMax \in Nat
    /\ ServerCaps \subseteq Nat \ {0}
    /\ FailLimit \in Nat
    /\ FailBound \in Nat
    /\ None \notin Int \cup PhaseIds

VARIABLES
    serverCap,      \* environment: the endpoint rejects larger max_tokens
    needsCap,       \* environment: it rejects requests without max_tokens
    place,          \* what the model is doing
    probe,          \* preflight: next position in the ladder, 0 = no-cap
    noCapOk,        \* preflight: the no-cap probe was accepted
    eff,            \* effective_max_tokens: None, 0 = send none, or a cap
    sent,           \* max_tokens of the request in flight, 0 = absent
    streamed,       \* request_stream (TRUE) or request (FALSE)
    fails,          \* _endpoint_fails
    phase,          \* current_phase, None before the first phase
    running,        \* is a phase run (or one-shot ask) in progress?
    pending,        \* _pending_stream: phase that opened it, or None
    before,         \* history: the streak when the request began
    storm           \* history: requests in a row that died of a terminal status

envVars == <<serverCap, needsCap>>
probeVars == <<probe, noCapOk>>
requestVars == <<sent, streamed>>
runVars == <<phase, running>>
history == <<before, storm>>
vars == <<envVars, place, probeVars, eff, requestVars, fails, runVars,
          pending, history>>

Opening == {"open1", "open2"}
Reading == {"opened", "streaming"}      \* before and after the first chunk

\* _cap_ladder: the configured cap (when there is one), then the fixed
\* steps, without repeats.
FixedStep(cap) == IF cap = ConfigMax THEN << >> ELSE <<cap>>
Ladder ==
    (IF ConfigMax = 0 THEN << >> ELSE <<ConfigMax>>)
    \o FixedStep(8) \o FixedStep(4) \o FixedStep(MinMax)

Init ==
    /\ serverCap \in ServerCaps
    /\ needsCap \in BOOLEAN
    /\ place = "probe"
    /\ probe = 0
    /\ noCapOk = FALSE
    /\ eff = None
    /\ sent = 0
    /\ streamed = TRUE
    /\ fails = 0
    /\ phase = None
    /\ running = FALSE
    /\ pending = None
    /\ before = 0
    /\ storm = 0

\* Does the endpoint take this max_tokens (0 = none sent)?
Fits(cap) == IF cap = 0 THEN ~ needsCap ELSE cap <= serverCap

-----------------------------------------------------------------------------
(* preflight: one probe per step.                                          *)

EndPreflight(cap) ==
    /\ place' = "idle"
    /\ eff' = cap
    /\ UNCHANGED probeVars

\* Mutant: without an accepted cap, no-cap is assumed to work.
ConcludedNoCap == 0

\* No accepted cap: fall back to no-cap if that worked.
Concluded == IF noCapOk THEN 0 ELSE None

ProbeNoCap ==
    /\ place = "probe" /\ probe = 0
    /\ UNCHANGED <<envVars, requestVars, fails, runVars, pending, history>>
    /\ \/ /\ Fits(0)                    \* accepted
          /\ noCapOk' = TRUE /\ probe' = 1
          /\ UNCHANGED <<place, eff>>
       \/ /\ probe' = 1                 \* HTTP error: try the ladder
          /\ UNCHANGED <<place, eff, noCapOk>>
       \/ EndPreflight(eff)             \* unreachable: give up

ProbeCap ==
    /\ place = "probe" /\ probe \in DOMAIN Ladder
    /\ UNCHANGED <<envVars, requestVars, fails, runVars, pending, history>>
    /\ LET cap == Ladder[probe] IN
       \/ /\ Fits(cap)
          /\ EndPreflight(cap)
       \/ /\ ~ Fits(cap)                \* _MaxTokensRejected: next lower
          /\ IF probe = Len(Ladder)
                THEN EndPreflight(Concluded)
                ELSE /\ probe' = probe + 1
                     /\ UNCHANGED <<place, eff, noCapOk>>
       \/ EndPreflight(Concluded)       \* any other failure ends the ladder

-----------------------------------------------------------------------------
(* The runner around the model: phases tag requests, and every way out of  *)
(* a phase run or ask logs the pending usage.                              *)

StartRun(p) ==
    /\ place = "idle" /\ ~ running
    /\ running' = TRUE
    /\ phase' = p
    /\ UNCHANGED <<envVars, place, probeVars, eff, requestVars, fails, pending,
                   history>>

\* log_pending_usage: logs and clears, tagged with current_phase.
LogPending == pending' = None

\* A request given up by its caller is no terminal failure.
AbandonRequest ==
    /\ place' = "idle"
    /\ storm' = IF place = "idle" THEN storm ELSE 0
    /\ UNCHANGED before

\* Mutant: one way out of a phase run forgets the pending usage.
EndRunUnlogged ==
    /\ running
    /\ running' = FALSE
    /\ AbandonRequest
    /\ UNCHANGED <<envVars, probeVars, eff, requestVars, fails, phase, pending>>

\* The run ends by itself, or its time cap abandons the request in flight.
EndRun ==
    /\ running
    /\ running' = FALSE
    /\ AbandonRequest
    /\ LogPending
    /\ UNCHANGED <<envVars, probeVars, eff, requestVars, fails, phase>>

-----------------------------------------------------------------------------
(* A request.                                                              *)

\* _capped_settings
RequestCap == IF eff = None THEN ConfigMax ELSE eff

\* Either way of sending one logs the usage of the one before.
StartRequest ==
    /\ running /\ place = "idle"
    /\ place' = "open1"
    /\ LogPending
    /\ sent' = RequestCap
    /\ before' = fails
    /\ UNCHANGED <<envVars, probeVars, eff, fails, runVars, storm>>

\* request_stream
StartStream == StartRequest /\ streamed' = TRUE

\* request
StartWhole == StartRequest /\ streamed' = FALSE

\* request_stream: note_endpoint_success, and the stream becomes the pending
\* usage.  It opens before the endpoint has judged the request, which is
\* sent with the first chunk.
StreamOpens ==
    /\ place \in Opening /\ streamed
    /\ fails' = 0
    /\ place' = "opened"
    /\ pending' = phase
    /\ UNCHANGED <<envVars, probeVars, eff, requestVars, runVars, history>>

\* request: a whole response is logged at once.
WholeAnswer ==
    /\ place \in Opening /\ ~ streamed
    /\ Fits(sent)
    /\ fails' = 0
    /\ place' = "idle"
    /\ storm' = 0
    /\ LogPending
    /\ UNCHANGED <<envVars, probeVars, eff, requestVars, runVars, before>>

\* One retry after a second; the second failure ends the request.
RetryOrFail ==
    /\ place' = IF place = "open1" THEN "open2" ELSE "idle"
    /\ storm' = IF place = "open1" THEN storm ELSE 0

\* Mutant: halving without the floor.
CapRejectedNoFloor ==
    /\ place \in Opening
    /\ sent > MinMax /\ ~ Fits(sent)
    /\ sent' = sent \div 2 /\ eff' = sent \div 2
    /\ RetryOrFail
    /\ UNCHANGED <<envVars, probeVars, streamed, fails, runVars, pending, before>>

\* _try_reduce_max_tokens: halve a rejected cap, not below the floor.
CapRejectedReduce ==
    /\ place \in Opening
    /\ sent > MinMax /\ ~ Fits(sent)
    /\ LET new == IF sent \div 2 > MinMax THEN sent \div 2 ELSE MinMax
       IN  sent' = new /\ eff' = new
    /\ RetryOrFail
    /\ UNCHANGED <<envVars, probeVars, streamed, fails, runVars, pending, before>>

\* A rejection that cannot be reduced, a timeout, a connection error, any
\* other non-terminal status.
OpenFails ==
    /\ place \in Opening
    /\ RetryOrFail
    /\ UNCHANGED <<envVars, probeVars, eff, requestVars, fails, runVars, pending,
                   before>>

\* The context limit is never retried (BudgetExceeded).
ContextExceeded ==
    /\ place \in Opening
    /\ place' = "idle"
    /\ storm' = 0
    /\ UNCHANGED <<envVars, probeVars, eff, requestVars, fails, runVars, pending,
                   before>>

\* Mutant: a terminal status is counted on every open attempt.
OpenTerminalRetried ==
    /\ place \in Opening
    /\ fails < FailBound /\ storm < FailBound
    /\ fails' = fails + 1
    /\ RetryOrFail
    /\ UNCHANGED <<envVars, probeVars, eff, requestVars, runVars, pending, before>>

\* A terminal status is counted once and never retried.
OpenTerminal ==
    /\ place \in Opening
    /\ fails < FailBound /\ storm < FailBound
    /\ place' = "idle"
    /\ fails' = fails + 1
    /\ storm' = storm + 1
    /\ UNCHANGED <<envVars, probeVars, eff, requestVars, runVars, pending, before>>

\* _WallCappedStream.__anext__: a chunk arrives and the stream goes on.
Chunk ==
    /\ place = "opened"
    /\ Fits(sent)
    /\ place' = "streaming"
    /\ storm' = 0
    /\ UNCHANGED <<envVars, probeVars, eff, requestVars, fails, runVars, pending,
                   before>>

\* Mutant: the request wall covers the first chunk only.
StreamEndsFirst ==
    /\ place = "opened"
    /\ place' = "idle"
    /\ storm' = 0
    /\ UNCHANGED <<envVars, probeVars, eff, requestVars, fails, runVars, pending,
                   before>>

\* The stream ends, or the request wall, a broken connection or a status
\* that is not terminal (a rejected cap is one) ends it.
StreamEnds ==
    /\ place \in Reading
    /\ place' = "idle"
    /\ storm' = 0
    /\ UNCHANGED <<envVars, probeVars, eff, requestVars, fails, runVars, pending,
                   before>>

\* Mutant: on_error does not end the stream, so it may count again.
StreamTerminalGoesOn ==
    /\ place \in Reading
    /\ fails < FailBound /\ storm < FailBound
    /\ place' = "streaming"
    /\ fails' = fails + 1
    /\ storm' = storm + 1
    /\ UNCHANGED <<envVars, probeVars, eff, requestVars, runVars, pending,
                   before>>

\* A terminal status surfaces while the stream is read, typically on its
\* first chunk: on_error counts it.
StreamTerminal ==
    /\ place \in Reading
    /\ fails < FailBound /\ storm < FailBound
    /\ place' = "idle"
    /\ fails' = fails + 1
    /\ storm' = storm + 1
    /\ UNCHANGED <<envVars, probeVars, eff, requestVars, runVars, pending,
                   before>>

Next ==
    \/ ProbeNoCap
    \/ ProbeCap
    \/ \E p \in PhaseIds : StartRun(p)
    \/ EndRun
    \/ StartStream
    \/ StartWhole
    \/ StreamOpens
    \/ WholeAnswer
    \/ CapRejectedReduce
    \/ OpenFails
    \/ ContextExceeded
    \/ OpenTerminal
    \/ Chunk
    \/ StreamEnds
    \/ StreamTerminal

Spec == Init /\ [][Next]_vars

(***************************************************************************)
(* Fairness: every probe and every open attempt runs under asyncio.timeout *)
(* and every stream under the request wall, so each of them can fail for   *)
(* good; nothing is assumed of the endpoint or of the runner.              *)
(***************************************************************************)
Fairness ==
    /\ WF_vars(ProbeNoCap)
    /\ WF_vars(ProbeCap)
    /\ WF_vars(OpenFails)
    /\ WF_vars(StreamEnds)

FairSpec == Spec /\ Fairness

-----------------------------------------------------------------------------
(* Properties.                                                             *)

TypeOK ==
    /\ serverCap \in ServerCaps
    /\ needsCap \in BOOLEAN
    /\ place \in {"probe", "idle"} \cup Opening \cup Reading
    /\ probe \in 0 .. Len(Ladder)
    /\ noCapOk \in BOOLEAN
    /\ eff \in Nat \cup {None}
    /\ sent \in Nat
    /\ streamed \in BOOLEAN
    /\ fails \in 0 .. FailBound
    /\ phase \in PhaseIds \cup {None}
    /\ running \in BOOLEAN
    /\ pending \in PhaseIds \cup {None}
    /\ before \in 0 .. FailBound
    /\ storm \in 0 .. FailBound

(***************************************************************************)
(* Usage is logged late and tagged with current_phase at that moment: the  *)
(* tag is always the phase that sent the request, whichever way a run and  *)
(* its last request ended (log_pending_usage in every exit of _run_phase). *)
(***************************************************************************)
UsageAttributed == pending # None => pending = phase

(***************************************************************************)
(* "One request counts at most once": two open attempts, an error that     *)
(* surfaces on a chunk and a retry add up to one count, or to a reset.     *)
(***************************************************************************)
CountsOncePerRequest ==
    place # "probe" => fails <= before + 1

(***************************************************************************)
(* After the preflight the cap only moves by a rejection, and only down,   *)
(* never below the floor and never from a cap back to "send none".         *)
(***************************************************************************)
CapOnlyShrinks ==
    [][place # "probe" /\ eff' # eff =>
          /\ eff' >= MinMax
          /\ eff' < (IF eff = None THEN ConfigMax ELSE eff)]_vars

(***************************************************************************)
(* The preflight settles on a shape the endpoint takes: no-cap only if it  *)
(* was accepted, otherwise the first step of the ladder that fits.         *)
(***************************************************************************)
PreflightPicksAccepted ==
    [][place = "probe" /\ eff' # eff =>
          \/ eff' = 0 /\ Fits(0)
          \/ \E i \in DOMAIN Ladder :
                /\ eff' = Ladder[i] /\ Fits(Ladder[i])
                /\ \A j \in 1 .. i - 1 : ~ Fits(Ladder[j])]_vars

(***************************************************************************)
(* No request outlives its time caps: the preflight, the two open attempts *)
(* and a stream that never stops all come back to the runner.              *)
(***************************************************************************)
EveryRequestEnds == place # "idle" ~> place = "idle"

\* What Pipeline relies on is what TrackedModel does.
E == INSTANCE Endpoint
        WITH request <- IF place \in Reading THEN "streaming" ELSE "idle"

(***************************************************************************)
(* Refinement: preflight, retries, reductions and usage logging are        *)
(* invisible; what is left is one outcome per request and the streak.      *)
(***************************************************************************)
ImplementsEndpoint == E!EndpointSpec

-----------------------------------------------------------------------------
(* What the repository's comments say of the program and the code does not *)
(* do.  The runs that check these look for the counterexample.             *)

(***************************************************************************)
(* endpoint_stalled: "True once >= endpoint_fail_limit consecutive         *)
(* terminal endpoint failures were observed".  A failure on the first      *)
(* chunk follows the reset made when the stream opened.                    *)
(***************************************************************************)
StormDetected == place = "idle" /\ storm >= FailLimit => fails >= FailLimit

=============================================================================
