----------------------------- MODULE Transcript -----------------------------
(***************************************************************************)
(* The conversations of a run and what one hands to the next (runner.py,   *)
(* model.py: last_messages, phases/commit.py: trim_history, state.py:      *)
(* extract_last_tools).  PLAN and WORK start afresh; the one-shot asks     *)
(* after a time-out and the relay go on from the messages of the last      *)
(* request, trimmed to a history the endpoint accepts.                     *)
(* Calls are numbered within a conversation; on the wire they carry an id  *)
(* that is unique in one response only.                                    *)
(***************************************************************************)
EXTENDS Naturals, Sequences, FiniteSets, SequencesExt, FiniteSetsExt

CONSTANTS
    Ids,            \* wire ids of tool calls
    LastToolsN,     \* last_tools_n()
    MaxCalls,       \* bound: calls per conversation
    MaxMessages     \* bound: messages per conversation

ASSUME TranscriptAssumption ==
    /\ IsFiniteSet(Ids)
    /\ LastToolsN \in Nat
    /\ MaxCalls \in Nat
    /\ MaxMessages \in Nat

VARIABLES
    merges,         \* environment: does the agent library merge a prompt
                    \* into the request that ends its history?
    stage,          \* phase or one-shot ask in progress
    pc,             \* where its request loop is
    convo,          \* its messages
    last,           \* model.last_messages
    idOf,           \* wire ids of the calls made in it
    typed,          \* those of them that call final_result
    ran,            \* history: tools that ran in this conversation
    latest,         \* history: calls of its latest response
    answer          \* history: the final_result that ended WORK, 0 = none

callVars == <<idOf, typed>>
ghostVars == <<ran, latest, answer>>
transcriptVars == <<merges, stage, pc, convo, last, callVars, ghostVars>>

Fresh == {"plan", "work"}
Stages == Fresh \cup {"handoff", "final_ask", "review"}

\* The messages of pydantic-ai, as far as trim_history looks at them.
Request(prompt, returns, retries) ==
    [kind |-> "request", prompt |-> prompt, calls |-> {},
     returns |-> returns, retries |-> retries]
Response(calls) ==
    [kind |-> "response", prompt |-> FALSE, calls |-> calls,
     returns |-> {}, retries |-> {}]
Prompt == Request(TRUE, {}, {})

CallsIn(messages) == UNION {messages[i].calls : i \in DOMAIN messages}

-----------------------------------------------------------------------------
(* trim_history.                                                           *)

IsPrompt(m) == m.kind = "request" /\ m.returns = {}
IsDangling(m) == m.kind = "response" /\ m.calls # {}

\* Mutant: a trailing response with unpaired calls stays.
TrimPromptOnly(messages) ==
    IF messages # << >> /\ IsPrompt(Last(messages)) THEN Front(messages) ELSE messages

\* Mutant: a trailing request is dropped with the tool returns in it.
TrimAnyRequest(messages) ==
    LET open == IF messages = << >> THEN messages ELSE Front(messages)
    IN  SubSeq(open, 1, SelectLastInSeq(open, LAMBDA m : ~ IsDangling(m)))

\* The trailing prompt goes, then every trailing response with calls.
Trim(messages) ==
    LET open == IF messages # << >> /\ IsPrompt(Last(messages))
                   THEN Front(messages)
                   ELSE messages
    IN  SubSeq(open, 1, SelectLastInSeq(open, LAMBDA m : ~ IsDangling(m)))

-----------------------------------------------------------------------------
(* extract_last_tools: through the parts of the messages, in order.        *)

NoEntries == [entries |-> << >>, open |-> [i \in Ids |-> 0]]

\* Mutant: a call does not take over an id that an older call left open.
AddCallKeepId(acc, c) ==
    [entries |-> Append(acc.entries, [call |-> c, result |-> 0]),
     open |-> [acc.open EXCEPT
                  ![idOf[c]] = IF @ = 0 THEN Len(acc.entries) + 1 ELSE @]]

AddCall(acc, c) ==
    [entries |-> Append(acc.entries, [call |-> c, result |-> 0]),
     open |-> [acc.open EXCEPT ![idOf[c]] = Len(acc.entries) + 1]]

\* The call with the id of the return, else the latest one without result.
Target(acc, c) ==
    IF acc.open[idOf[c]] # 0
       THEN acc.open[idOf[c]]
       ELSE SelectLastInSeq(acc.entries, LAMBDA e : e.result = 0)

AddReturn(acc, c) ==
    LET target == Target(acc, c) IN
    IF target = 0
       THEN acc
       ELSE [entries |-> [acc.entries EXCEPT ![target].result = c],
             open |-> [acc.open EXCEPT ![idOf[c]] = 0]]

\* The parts of a message come in the order of the calls they belong to.
InOrder(Add(_, _), acc, calls) ==
    LET upTo[c \in 0 .. Len(idOf)] ==
            IF c = 0 THEN acc
            ELSE IF c \in calls THEN Add(upTo[c - 1], c)
            ELSE upTo[c - 1]
    IN  upTo[Len(idOf)]

\* final_result is no tool, and a retry prompt no tool return.
AddMessage(acc, m) == InOrder(AddReturn, InOrder(AddCall, acc, m.calls \ typed), m.returns)

Extract(messages) ==
    LET upTo[i \in 0 .. Len(messages)] ==
            IF i = 0 THEN NoEntries ELSE AddMessage(upTo[i - 1], messages[i])
    IN  upTo[Len(messages)].entries

LastTools(messages) ==
    LET all == Extract(messages) IN
    SubSeq(all, Max({1, Len(all) - LastToolsN + 1}), Len(all))

-----------------------------------------------------------------------------
(* Beginning a conversation.                                               *)

\* The user prompt goes behind the history.
Continue(history) ==
    IF merges /\ history # << >> /\ Last(history).kind = "request"
       THEN [history EXCEPT ![Len(history)].prompt = TRUE]
       ELSE Append(history, Prompt)

Begin(s) ==
    /\ stage' = s
    /\ pc' = "ready"
    /\ IF s \in Fresh
          THEN /\ convo' = Continue(<< >>)
               /\ idOf' = << >> /\ typed' = {}
               /\ ran' = {} /\ latest' = {} /\ answer' = 0
          ELSE /\ convo' = Continue(Trim(last))
               /\ UNCHANGED <<callVars, ghostVars>>

TranscriptInit ==
    /\ merges \in BOOLEAN
    /\ stage = "plan"
    /\ pc = "ready"
    /\ convo = <<Prompt>>
    /\ last = << >>
    /\ idOf = << >> /\ typed = {}
    /\ ran = {} /\ latest = {} /\ answer = 0

-----------------------------------------------------------------------------
(* The request loop.                                                       *)

\* request_stream copies the messages before anything can go wrong.
SendRequest ==
    /\ pc = "ready"
    /\ pc' = "waiting"
    /\ last' = convo
    /\ UNCHANGED <<merges, stage, convo, callVars, ghostVars>>

\* A response with calls, each with an id of its own.
AnswerWithCalls ==
    /\ pc = "waiting" /\ stage # "final_ask"
    /\ Len(convo) + 2 <= MaxMessages
    /\ \E n \in 1 .. (MaxCalls - Len(idOf)) :
       \E ids \in {f \in [1 .. n -> Ids] : IsInjective(f)}, output \in BOOLEAN :
           LET calls == Len(idOf) + 1 .. Len(idOf) + n IN
           /\ idOf' = idOf \o ids
           /\ typed' = IF output THEN typed \cup {Len(idOf) + n} ELSE typed
           /\ convo' = Append(convo, Response(calls))
           /\ latest' = IF stage \in Fresh THEN calls ELSE latest
    /\ pc' = "tools"
    /\ UNCHANGED <<merges, stage, last, ran, answer>>

\* The tools run; calls of unknown tools and invalid arguments, also those
\* of final_result, are answered with a retry prompt.  Asks and relay have
\* no tools.
RunTools ==
    /\ pc = "tools"
    /\ LET calls == Last(convo).calls IN
       \E done \in SUBSET (IF stage \in Fresh THEN calls \ typed ELSE {}) :
           /\ convo' = Append(convo, Request(FALSE, done, calls \ done))
           /\ ran' = ran \cup done
    /\ pc' = "ready"
    /\ UNCHANGED <<merges, stage, last, callVars, latest, answer>>

\* Free text where a typed result is due is answered with a retry prompt.
AnswerUntyped ==
    /\ pc = "waiting" /\ stage # "final_ask"
    /\ Len(convo) + 2 <= MaxMessages
    /\ convo' = convo \o <<Response({}), Request(FALSE, {}, {})>>
    /\ pc' = "ready"
    /\ latest' = IF stage \in Fresh THEN {} ELSE latest
    /\ UNCHANGED <<merges, stage, last, callVars, ran, answer>>

-----------------------------------------------------------------------------
(* The end of a phase or ask, and what begins next.                        *)

Following(status) ==
    CASE stage = "plan" /\ status = "timeout" -> "handoff"
      [] stage = "plan" /\ status # "timeout" -> "work"
      [] stage = "handoff"                    -> "work"
      [] stage = "work" /\ status = "timeout" -> "final_ask"
      [] stage = "work" /\ status # "timeout" -> "review"
      [] stage = "final_ask"                  -> "review"
      [] stage = "review"                     -> "plan"

\* What _plan_handoff stores when its ask is over: last is the ask's by then.
PlanHandoff == LastTools(last)

\* The answer ends the stage: final_result, or the text of a final_ask.
AnswerFinal ==
    /\ pc = "waiting"
    /\ UNCHANGED <<merges, last>>
    /\ IF stage # "work"
          THEN Begin(Following("done"))
          ELSE /\ Len(idOf) < MaxCalls
               /\ stage' = "review" /\ pc' = "ready"
               /\ convo' = Continue(Trim(last))
               /\ \E i \in Ids : idOf' = Append(idOf, i)
               /\ typed' = typed \cup {Len(idOf) + 1}
               /\ answer' = Len(idOf) + 1 /\ latest' = {}
               /\ UNCHANGED ran

\* A time-out or an error, in a request or while tools run: some of them
\* may have run already.
CutOff(status, done) ==
    /\ pc \in {"waiting", "tools"}
    /\ UNCHANGED <<merges, last>>
    /\ IF Following(status) \in Fresh
          THEN Begin(Following(status))
          ELSE /\ stage' = Following(status) /\ pc' = "ready"
               /\ convo' = Continue(Trim(last))
               /\ ran' = ran \cup done
               /\ UNCHANGED <<callVars, latest, answer>>

\* An error of a phase with a retry left.
Retry ==
    /\ pc \in {"waiting", "tools"}
    /\ stage \in Fresh \cup {"review"}
    /\ Begin(stage)
    /\ UNCHANGED <<merges, last>>

TranscriptNext ==
    \/ SendRequest \/ AnswerWithCalls \/ RunTools \/ AnswerUntyped \/ AnswerFinal
    \/ \E status \in {"timeout", "error"} :
       \E done \in SUBSET (IF pc = "tools" /\ stage \in Fresh
                              THEN Last(convo).calls \ typed ELSE {}) :
           CutOff(status, done)
    \/ Retry

TranscriptSpec == TranscriptInit /\ [][TranscriptNext]_transcriptVars

-----------------------------------------------------------------------------
Answered(m) == m.returns \cup m.retries

(***************************************************************************)
(* What goes to the endpoint is a history it accepts, whichever way the    *)
(* conversation it goes on from was cut: every response is followed by the *)
(* answers to exactly its calls, and nothing else is answered.             *)
(***************************************************************************)
EveryCallIsAnswered ==
    pc \in {"ready", "waiting"} =>
        \A i \in DOMAIN convo :
            /\ convo[i].kind = "response" =>
                   /\ i < Len(convo)
                   /\ Answered(convo[i + 1]) = convo[i].calls
            /\ Answered(convo[i]) # {} =>
                   i > 1 /\ convo[i - 1].calls = Answered(convo[i])

(***************************************************************************)
(* The relay "rides on the WORK conversation" (review.py): of the tools    *)
(* that ran in it, at most those of its very last response are missing,    *)
(* when it was cut off before their results were sent.                     *)
(***************************************************************************)
RelayKeepsEvidence ==
    stage = "review" => ran \ CallsIn(convo) \subseteq latest

(***************************************************************************)
(* The hand-off tells the truth about the tools of the cut-off PLAN also   *)
(* when ids repeat from response to response: its entries are the latest   *)
(* calls its conversation kept, in order, each with its own result, and    *)
(* with none exactly when it was answered with a retry prompt.             *)
(***************************************************************************)
HandoffIsTrue ==
    stage = "handoff" /\ pc # "ready" =>
        LET kept == CallsIn(last) \ typed
            told == {PlanHandoff[i].call : i \in DOMAIN PlanHandoff}
            returned == UNION {last[i].returns : i \in DOMAIN last}
        IN  /\ Len(PlanHandoff) = Min({LastToolsN, Cardinality(kept)})
            /\ told \subseteq kept
            /\ \A c \in kept \ told, d \in told : c < d
            /\ \A i \in DOMAIN PlanHandoff :
                   LET e == PlanHandoff[i] IN
                   e.result = IF e.call \in returned THEN e.call ELSE 0

(***************************************************************************)
(* review.py: the WORK conversation "already carries the plan, the tool    *)
(* activity and the final_result".  The messages of a request never hold   *)
(* the response to it.                                                     *)
(***************************************************************************)
RelaySeesFinalResult ==
    stage = "review" /\ answer # 0 => answer \in CallsIn(convo)

=============================================================================
