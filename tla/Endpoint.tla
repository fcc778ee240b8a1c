------------------------------ MODULE Endpoint ------------------------------
(***************************************************************************)
(* What the runner may rely on about the model endpoint, one LLM request   *)
(* at a time.  A request is either refused before its stream opens, or     *)
(* opens and is then consumed.  The model keeps the STREAK of consecutive  *)
(* terminal refusals (402 / 429 / 5xx): opening a stream resets it, a      *)
(* terminal status - at open or surfacing while the stream is read - adds  *)
(* one.  TrackedModel (model.py) implements this module; Pipeline          *)
(* (runner.py) is written on top of it.                                    *)
(***************************************************************************)
EXTENDS Naturals

CONSTANT FailLimit      \* [budget].endpoint_fail_limit

ASSUME FailLimitAssumption == FailLimit \in Nat

VARIABLES
    fails,              \* TrackedModel._endpoint_fails
    request             \* is a stream open and being read?

endpointVars == <<fails, request>>

EndpointTypeOK ==
    /\ fails \in Nat
    /\ request \in {"idle", "streaming"}

EndpointInit ==
    /\ fails = 0
    /\ request = "idle"

\* TrackedModel.endpoint_stalled
Stalled == fails >= FailLimit

\* request_stream: the stream opened, so the streak is broken.
OpenStream ==
    /\ request = "idle"
    /\ request' = "streaming"
    /\ fails' = 0

\* request: a response that is not streamed breaks the streak as well.
AnswerWhole ==
    /\ request = "idle"
    /\ fails' = 0
    /\ UNCHANGED request

\* _open_stream: a terminal status is counted once and never retried.
RefuseTerminal ==
    /\ request = "idle"
    /\ fails' = fails + 1
    /\ UNCHANGED request

\* _open_stream: timeouts, connection errors, other statuses and context
\* errors end the request without touching the streak.
RefuseOther ==
    /\ request = "idle"
    /\ UNCHANGED endpointVars

\* The stream is read to its end, breaks without a terminal status, or is
\* abandoned at a time cap.
CloseStream ==
    /\ request = "streaming"
    /\ request' = "idle"
    /\ UNCHANGED fails

\* _WallCappedStream.__anext__: a terminal status surfaces on a chunk.
BreakTerminal ==
    /\ request = "streaming"
    /\ request' = "idle"
    /\ fails' = fails + 1

EndpointNext ==
    \/ OpenStream
    \/ AnswerWhole
    \/ RefuseTerminal
    \/ RefuseOther
    \/ CloseStream
    \/ BreakTerminal

EndpointSpec == EndpointInit /\ [][EndpointNext]_endpointVars

=============================================================================
