------------------------------- MODULE Ledger -------------------------------
(***************************************************************************)
(* The failure ledger and the stagnation tracker behind every tool result  *)
(* (tools/base.py: format_tool_result; state.py: canonical_failure_key,    *)
(* extract_exit_code, stagnation_check).  Both live as long as the run;    *)
(* the phases come and go.                                                 *)
(*                                                                         *)
(* A result is abstracted to what the code tells apart and what it does    *)
(* not: the tool with its arguments, whether the tool reported a failure,  *)
(* the exit code its text seems to contain, the part of the text within    *)
(* the 4000 characters of the key and the part beyond them.                *)
(***************************************************************************)
EXTENDS Naturals, Sequences, FiniteSets, SequencesExt

CONSTANTS
    PhaseIds,       \* phase ids, in the order of the run
    Results,        \* what tools may return
    Window,         \* failure keys that are remembered
    Threshold,      \* identical ones that make an event
    MaxResults      \* bound: results of a run

Codes == {"none", "zero", "nonzero"}    \* none: "?"

ASSUME LedgerAssumption ==
    /\ PhaseIds # <<>>
    /\ \A r \in Results :
          /\ DOMAIN r = {"call", "flagged", "code", "head", "tail"}
          /\ r.flagged \in BOOLEAN /\ r.code \in Codes
    /\ Window \in Nat /\ Threshold \in 2 .. Window
    /\ MaxResults \in Nat

VARIABLES
    enabled,        \* environment: ledger_enabled()
    position,       \* of the phase in PhaseIds
    given,          \* history: results with the position of their phase
    ledger,         \* failure key -> number of occurrences
    seqPhase,       \* the tracker's phase id
    seq,            \* the tracker's failure keys
    forwarded,      \* how the last result went to the model
    event           \* streak of the last stagnation event; 0 is none

trackerVars == <<seqPhase, seq>>
ledgerVars == <<enabled, position, given, ledger, trackerVars, forwarded, event>>

Id(p) == PhaseIds[p]

LedgerInit ==
    /\ enabled \in BOOLEAN
    /\ position = 1
    /\ given = <<>>
    /\ ledger = <<>>
    /\ seqPhase = "unset"
    /\ seq = <<>>
    /\ forwarded = [as |-> "nothing", count |-> 0]
    /\ event = 0

-----------------------------------------------------------------------------

\* _is_adverse
IsAdverse(r) == r.flagged \/ r.code = "nonzero"

\* canonical_failure_key: cut off before the tail.  The exit code counts only
\* as part of the text, which is beyond the key if the command is long.
Key(r) == <<r.call, r.flagged, r.head>>

Occurrences(key) == IF key \in DOMAIN ledger THEN ledger[key] ELSE 0

\* The first occurrence goes out as it is, without a count.
Forward(count) ==
    IF count = 1 THEN [as |-> "full", count |-> 0]
    ELSE [as |-> "compressed", count |-> count]

\* Mutant: a compressed repetition is not counted.
CompressOnce(r) ==
    LET count == Occurrences(Key(r)) + 1 IN
    /\ ledger' = [k \in DOMAIN ledger \cup {Key(r)} |-> 1]
    /\ forwarded' = Forward(count)

\* _ledger_compress: in full the first time, one line ever after; in full
\* and uncounted when the ledger is switched off.
Compress(r) ==
    LET count == Occurrences(Key(r)) + 1 IN
    \/ /\ enabled
       /\ ledger' = [k \in DOMAIN ledger \cup {Key(r)} |->
                        IF k = Key(r) THEN count ELSE ledger[k]]
       /\ forwarded' = Forward(count)
    \/ /\ ~ enabled
       /\ forwarded' = [as |-> "full", count |-> 0]
       /\ UNCHANGED ledger

\* The run of equal keys at the end of a sequence.
Streak(s) ==
    IF s = <<>> THEN 0
    ELSE LET others == {i \in DOMAIN s : s[i] # Last(s)} IN
         Len(s) - (IF others = {} THEN 0 ELSE CHOOSE i \in others : \A j \in others : j <= i)

\* Mutant: the tracker does not look at the phase.
StagnationAcross(key) ==
    LET grown == Append(seq, key)
        kept == SubSeq(grown, IF Len(grown) > Window THEN 2 ELSE 1, Len(grown)) IN
    /\ seqPhase' = Id(position)
    /\ seq' = kept
    /\ event' = IF Streak(kept) >= Threshold THEN Streak(kept) ELSE 0

\* stagnation_check: a change of the phase id starts anew.
Stagnation(key) ==
    LET before == IF seqPhase = Id(position) THEN seq ELSE <<>>
        grown == Append(before, key)
        kept == SubSeq(grown, IF Len(grown) > Window THEN 2 ELSE 1, Len(grown)) IN
    /\ seqPhase' = Id(position)
    /\ seq' = kept
    /\ event' = IF Streak(kept) >= Threshold THEN Streak(kept) ELSE 0

\* A success breaks the streak.
Succeeds(r) ==
    /\ seqPhase' = Id(position)
    /\ seq' = <<>>
    /\ event' = 0
    /\ forwarded' = [as |-> "full", count |-> 0]
    /\ UNCHANGED ledger

\* format_tool_result: one result, concurrent calls one after the other.
Result ==
    /\ Len(given) < MaxResults
    /\ \E r \in Results :
        /\ given' = Append(given, [phase |-> position, result |-> r])
        /\ \/ IsAdverse(r) /\ Stagnation(Key(r)) /\ Compress(r)
           \/ ~ IsAdverse(r) /\ Succeeds(r)
    /\ UNCHANGED <<enabled, position>>

\* _run_phase: a new phase window.
NextPhase ==
    /\ position < Len(PhaseIds)
    /\ position' = position + 1
    /\ UNCHANGED <<enabled, given, ledger, trackerVars, forwarded, event>>

LedgerOver ==
    /\ position = Len(PhaseIds) /\ Len(given) = MaxResults
    /\ UNCHANGED ledgerVars

LedgerNext == Result \/ NextPhase \/ LedgerOver

LedgerSpec == LedgerInit /\ [][LedgerNext]_ledgerVars

-----------------------------------------------------------------------------
(* Properties.                                                             *)

Keys == {Key(r) : r \in Results}
Ids == {PhaseIds[p] : p \in DOMAIN PhaseIds}

LedgerTypeOK ==
    /\ enabled \in BOOLEAN
    /\ position \in DOMAIN PhaseIds
    /\ Len(given) <= MaxResults
    /\ \A i \in DOMAIN given :
          given[i].phase \in DOMAIN PhaseIds /\ given[i].result \in Results
    /\ DOMAIN ledger \subseteq Keys
    /\ \A k \in DOMAIN ledger : ledger[k] \in 1 .. MaxResults
    /\ seqPhase \in Ids \cup {"unset"}
    /\ seq \in Seq(Keys) /\ Len(seq) <= Window
    /\ forwarded.as \in {"nothing", "full", "compressed"}
    /\ forwarded.count \in 0 .. MaxResults
    /\ event \in 0 .. Window

\* The failures of the run so far that have the key of r.
Alike(r) ==
    {i \in DOMAIN given : IsAdverse(given[i].result) /\ Key(given[i].result) = Key(r)}

(***************************************************************************)
(* "repeated Nx" counts what happened, over all phases and whatever came   *)
(* in between: the first occurrence goes out in full, the N-th as N.  With *)
(* the ledger off everything goes out in full.                             *)
(***************************************************************************)
CountIsHonest ==
    given # <<>> /\ IsAdverse(Last(given).result) =>
        LET n == Cardinality(Alike(Last(given).result)) IN
        forwarded = IF enabled /\ n > 1
                    THEN [as |-> "compressed", count |-> n]
                    ELSE [as |-> "full", count |-> 0]

\* Result i and all later ones are the same failure, in phases of one id.
OneFailureSince(i) ==
    \A j \in i .. Len(given) :
        /\ IsAdverse(given[j].result)
        /\ Key(given[j].result) = Key(Last(given).result)
        /\ Id(given[j].phase) = Id(Last(given).phase)

(***************************************************************************)
(* A stagnation event is raised for every failure that is at least the     *)
(* third of its kind in an uninterrupted row, and says how long the row is *)
(* as far as the window reaches - although the keys before the window and  *)
(* those of other phases have been dropped.                                *)
(***************************************************************************)
StreakIsReal ==
    LET row == Cardinality({i \in DOMAIN given : OneFailureSince(i)}) IN
    event = IF row < Threshold THEN 0 ELSE IF row > Window THEN Window ELSE row

-----------------------------------------------------------------------------
(* What the repository says of the program and the code does not do.       *)

(***************************************************************************)
(* "failed with an identical result as an earlier call.  The full result   *)
(* was already shown": the key ends after 4000 characters, the result of a *)
(* command does not.                                                       *)
(***************************************************************************)
CompressedWasShown ==
    forwarded.as = "compressed" =>
        \E i \in 1 .. Len(given) - 1 : given[i].result = Last(given).result

=============================================================================
