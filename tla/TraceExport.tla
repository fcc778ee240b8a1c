---------------------------- MODULE TraceExport ----------------------------
(***************************************************************************)
(* Exporting the traces of a batch (trace_export.py) by walking the pages  *)
(* of a trace search (mlflow_compat.py: iter_experiment_traces) while      *)
(* other agents still ship traces to the same experiments.                 *)
(*                                                                         *)
(* A trace is an id and whether it is one of the batch, as its tags or its *)
(* spans say.  The server lists the newest first; a page token is an       *)
(* offset into that list, so arrivals move the rest of the list down.      *)
(***************************************************************************)
EXTENDS Naturals, Sequences, FiniteSets, SequencesExt

CONSTANTS
    Families,       \* family experiments, in the order of the search
    Legacy,         \* the configured trace experiment
    PageSize,       \* TRACE_PAGE_SIZE
    InitialTraces,  \* bound: traces that are there when the search begins
    MaxTraces,      \* bound: traces in the end
    Burst           \* bound: arrivals between two requests

\* What the constants are.
TraceExportAssumption ==
    /\ Families # <<>> /\ IsInjective(Families)
    /\ PageSize \in Nat \ {0}
    /\ InitialTraces \in 0 .. MaxTraces /\ MaxTraces \in Nat /\ Burst \in Nat

Experiments == ToSet(Families) \cup {Legacy}
Ids == 1 .. MaxTraces

VARIABLES
    stuck,          \* environment: does the server repeat its page token?
    listed,         \* per experiment: ids of its traces, newest first
    ours,           \* ids of the traces of the batch
    withRuns,       \* experiments with a run of the batch
    old,            \* history: ids that were there when the search began
    arrivals,       \* traces that arrived since the last request
    export,         \* where the export is
    toSearch,       \* experiments still to be walked
    token,          \* offset of the next page
    seen,           \* ids this walk has yielded
    found           \* traces of the batch, in the order they were found

serverVars == <<stuck, listed, ours, withRuns, old>>
walkVars == <<toSearch, token, seen, found>>
vars == <<serverVars, arrivals, export, walkVars>>

\* Traces live beside their runs, those of old batches in Legacy.
Placements == {place \in [1 .. InitialTraces -> Experiments \X BOOLEAN] :
                  \A i \in 1 .. InitialTraces :
                      place[i][2] => place[i][1] \in withRuns \cup {Legacy}}

Init ==
    /\ stuck \in BOOLEAN
    /\ withRuns \in SUBSET ToSet(Families)
    /\ \E place \in Placements :
          /\ ours = {i \in 1 .. InitialTraces : place[i][2]}
          /\ listed = [e \in Experiments |->
                          SelectSeq([i \in 1 .. InitialTraces |-> InitialTraces + 1 - i],
                                    LAMBDA i : place[i][1] = e)]
    /\ old = 1 .. InitialTraces
    /\ arrivals = 0
    /\ export = "discover"
    /\ toSearch = <<>> /\ token = 0 /\ seen = {} /\ found = <<>>

-----------------------------------------------------------------------------

\* Another trace reaches the server: of a running batch, or late of this one.
Arrive ==
    LET id == Cardinality(UNION {ToSet(listed[e]) : e \in Experiments}) + 1 IN
    /\ id <= MaxTraces
    /\ arrivals < Burst
    /\ arrivals' = arrivals + 1
    /\ \E e \in Experiments :
          /\ listed' = [listed EXCEPT ![e] = <<id>> \o @]
          /\ ours' \in {ours} \cup (IF e \in withRuns THEN {ours \cup {id}} ELSE {})
    /\ UNCHANGED <<stuck, withRuns, old, export, walkVars>>

\* _batch_experiment_ids: families with a run of the batch, then Legacy.
Discover ==
    /\ export = "discover"
    /\ export' = "walk"
    /\ toSearch' = SelectSeq(Families, LAMBDA e : e \in withRuns)
                   \o IF Legacy \in withRuns THEN <<>> ELSE <<Legacy>>
    /\ UNCHANGED <<serverVars, arrivals, token, seen, found>>

\* search_traces of the server.
PageItems(e) ==
    LET last == IF token + PageSize < Len(listed[e]) THEN token + PageSize ELSE Len(listed[e])
    IN  SubSeq(listed[e], token + 1, last)

NextToken(e) ==
    IF stuck THEN token
    ELSE IF token + PageSize < Len(listed[e]) THEN token + PageSize
    ELSE 0

\* Mutant: what a page repeats is yielded again.
NewItemsAll(items) == items

\* A page yields what no earlier page of the walk did.
NewItems(items) == SelectSeq(items, LAMBDA i : i \notin seen)

\* Mutant: a page that repeats nothing new is no reason to stop.
WalkEndsShort(e) == Len(PageItems(e)) < PageSize \/ (~ stuck /\ NextToken(e) = 0)

\* A short page, no further token, or a full page without a new id.
WalkEnds(e) ==
    \/ Len(PageItems(e)) < PageSize
    \/ ~ stuck /\ NextToken(e) = 0
    \/ NewItems(PageItems(e)) = <<>>

\* iter_experiment_traces and _find_batch_traces_inner: one request.
Request ==
    /\ export = "walk" /\ toSearch # <<>>
    /\ LET e == Head(toSearch)
           items == NewItems(PageItems(e)) IN
       /\ found' = found \o SelectSeq(items, LAMBDA i : i \in ours)
       /\ IF WalkEnds(e)
          THEN toSearch' = Tail(toSearch) /\ token' = 0 /\ seen' = {}
          ELSE /\ token' = NextToken(e)
               /\ seen' = seen \cup ToSet(items)
               /\ UNCHANGED toSearch
    /\ arrivals' = 0
    /\ UNCHANGED <<serverVars, export>>

\* Mutant: what was found before the failure is exported.
KeepFound == UNCHANGED found

\* find_batch_traces: any failure yields an empty list.
ForgetFound == found' = <<>>

RequestFails ==
    /\ export \in {"discover", "walk"}
    /\ export' = "walk"
    /\ toSearch' = <<>>
    /\ ForgetFound
    /\ UNCHANGED <<serverVars, arrivals, token, seen>>

\* export_batch: manifest, traces and digests, or TraceBatchNotFound.
Write ==
    /\ export = "walk" /\ toSearch = <<>>
    /\ export' = IF found = <<>> THEN "not found" ELSE "written"
    /\ UNCHANGED <<serverVars, arrivals, walkVars>>

Over ==
    /\ export \in {"not found", "written"}
    /\ UNCHANGED vars

Step == Discover \/ Request \/ Write

Next == Arrive \/ Step \/ RequestFails \/ Over

Spec == Init /\ [][Next]_vars /\ WF_vars(Step)

-----------------------------------------------------------------------------
(* Properties.                                                             *)

(***************************************************************************)
(* An export is whole: what it writes holds every trace of the batch that  *)
(* was on the server when the search began, in all its experiments, though *)
(* arrivals move traces from page to page and any request may fail - as    *)
(* long as fewer traces than a page arrive between two requests.           *)
(***************************************************************************)
ExportIsWhole ==
    export = "written" /\ ~ stuck => old \cap ours \subseteq ToSet(found)

(***************************************************************************)
(* A trace is exported once, although pages overlap: totals of tokens are  *)
(* sums over the exported traces.                                          *)
(***************************************************************************)
ExportedOnce == IsInjective(found)

(***************************************************************************)
(* The walk ends, also with a server whose page token does not advance.    *)
(***************************************************************************)
ExportEnds == <>(export \in {"not found", "written"})

=============================================================================
