----------------------------- MODULE FileTools -----------------------------
(***************************************************************************)
(* The agent's write and edit tools (tools/write.py, tools/edit.py,        *)
(* tools/base.py: run_file_tool) on one path.  The calls of one model      *)
(* response run concurrently on the event loop; what touches the disk runs *)
(* in worker threads, which a timed-out call leaves behind.  A file is     *)
(* abstracted to the write that made it and the replacements it contains;  *)
(* an edit replaces one fragment, which occurs until it is replaced.       *)
(***************************************************************************)
EXTENDS Naturals

CONSTANTS
    NCalls,         \* bound on the tool calls of a behaviour
    MaxParallel,    \* most calls in one model response
    Fragments       \* fragments an edit may replace

ASSUME FileToolsAssumption ==
    /\ NCalls \in Nat \ {0}
    /\ MaxParallel \in Nat \ {0}

Calls == 1 .. NCalls

VARIABLES
    repairing,      \* is deps.repair_scope set (for this path)?
    file,           \* what is on the disk
    issued,         \* calls 1 .. issued have been made
    calls,          \* per call: kind, fragment, response (round), place
    report,         \* per call: what the model was told
    thread,         \* per call: its write_text worker thread
    payload,        \* per call: the content that thread writes
    mixed,          \* calls whose thread another one overtook while it wrote
    mutations,      \* repair_scope.mutations_used
    told            \* history: the file according to the reports

callVars == <<issued, calls>>
threadVars == <<thread, payload, mixed>>
vars == <<repairing, file, callVars, report, threadVars, mutations, told>>

Whole(base, edits) == [state |-> "whole", base |-> base, edits |-> edits]
Absent == [state |-> "absent", base |-> 0, edits |-> {}]
Torn == [state |-> "torn", base |-> 0, edits |-> {}]

Files == [state : {"whole", "absent", "torn"}, base : 0 .. NCalls,
          edits : SUBSET Fragments]

NoCall == [kind |-> "none", fragment |-> 0, round |-> 0, place |-> "none"]

Init ==
    /\ repairing \in BOOLEAN
    /\ file \in {Absent, Whole(0, {})}
    /\ told = file
    /\ issued = 0
    /\ calls = [c \in Calls |-> NoCall]
    /\ report = [c \in Calls |-> "none"]
    /\ thread = [c \in Calls |-> "none"]
    /\ payload = [c \in Calls |-> Absent]
    /\ mixed = {}
    /\ mutations = 0

-----------------------------------------------------------------------------
(* The model.                                                              *)

AllReported == \A c \in 1 .. issued : report[c] # "none"

Rounds == {0} \cup {calls[c].round : c \in 1 .. issued}
Round == CHOOSE n \in Rounds : \A m \in Rounds : m <= n

\* The next response: up to MaxParallel calls, each a write or an edit.
Respond ==
    /\ AllReported
    /\ \E k \in 1 .. MaxParallel :
        /\ issued + k <= NCalls
        /\ issued' = issued + k
        /\ \E kind \in [1 .. k -> {"write", "edit"}], f \in [1 .. k -> Fragments] :
            calls' = [c \in Calls |->
                IF c \in issued + 1 .. issued + k
                THEN [kind |-> kind[c - issued], fragment |-> f[c - issued],
                      round |-> Round + 1, place |-> "start"]
                ELSE calls[c]]
    /\ UNCHANGED <<repairing, file, report, threadVars, mutations, told>>

-----------------------------------------------------------------------------
(* The event loop's side of a call, from one await to the next.            *)

At(c, kind, place) ==
    c <= issued /\ calls[c].kind = kind /\ calls[c].place = place

MoveTo(c, place) == calls' = [calls EXCEPT ![c].place = place]

Report(c, what) ==
    /\ report' = [report EXCEPT ![c] = what]
    /\ MoveTo(c, "done")

Reject(c) ==
    /\ Report(c, "failed")
    /\ UNCHANGED threadVars

\* asyncio.to_thread(p.write_text, ...)
Submit(c, content) ==
    /\ thread' = [thread EXCEPT ![c] = "queued"]
    /\ payload' = [payload EXCEPT ![c] = content]
    /\ MoveTo(c, "writing")
    /\ UNCHANGED <<report, mixed>>

Await(c, place) ==
    /\ MoveTo(c, place)
    /\ UNCHANGED <<report, threadVars>>

\* Mutant: the check for an existing file is left out.
WriteStartsUnchecked(c) ==
    /\ At(c, "write", "start")
    /\ Await(c, "mkdir")
    /\ UNCHANGED <<repairing, file, issued, mutations, told>>

WriteStarts(c) ==
    /\ At(c, "write", "start")
    /\ IF file # Absent THEN Reject(c) ELSE Await(c, "mkdir")
    /\ UNCHANGED <<repairing, file, issued, mutations, told>>

DirectoryMade(c) ==
    /\ At(c, "write", "mkdir")
    /\ Submit(c, Whole(c, {}))
    /\ UNCHANGED <<repairing, file, issued, mutations, told>>

\* Mutant: the budget of a repair is never found exhausted.
EditStartsUncounted(c) ==
    /\ At(c, "edit", "start")
    /\ IF file = Absent THEN Reject(c) ELSE Await(c, "reading")
    /\ UNCHANGED <<repairing, file, issued, mutations, told>>

EditStarts(c) ==
    /\ At(c, "edit", "start")
    /\ IF (repairing /\ mutations >= 1) \/ file = Absent
          THEN Reject(c)
          ELSE Await(c, "reading")
    /\ UNCHANGED <<repairing, file, issued, mutations, told>>

\* The text was read; oldText must occur in it.  In a file caught while it
\* is being rewritten it may or may not be found.
TextRead(c) ==
    /\ At(c, "edit", "reading")
    /\ LET f == calls[c].fragment IN
       \/ /\ file.state = "whole" /\ f \notin file.edits
          /\ Submit(c, Whole(file.base, file.edits \cup {f}))
       \/ /\ file.state = "torn"
          /\ Submit(c, Torn)
       \/ /\ file.state = "whole" => f \in file.edits
          /\ Reject(c)
    /\ UNCHANGED <<repairing, file, issued, mutations, told>>

\* What the model now believes the file to contain.
Tell(c) ==
    told' = IF calls[c].kind = "write"
            THEN Whole(c, {})
            ELSE [told EXCEPT !.edits = @ \cup {calls[c].fragment}]

\* Mutant: success is reported without awaiting the thread.
WriteEndsEarly(c) ==
    /\ c <= issued /\ calls[c].place = "writing"
    /\ Report(c, "ok")
    /\ Tell(c)
    /\ mutations' = IF repairing /\ calls[c].kind = "edit"
                    THEN mutations + 1 ELSE mutations
    /\ UNCHANGED <<repairing, file, issued, threadVars>>

\* The thread has finished: success; an edit counts as a mutation.
WriteEnds(c) ==
    /\ c <= issued /\ calls[c].place = "writing"
    /\ thread[c] = "landed"
    /\ Report(c, "ok")
    /\ Tell(c)
    /\ mutations' = IF repairing /\ calls[c].kind = "edit"
                    THEN mutations + 1 ELSE mutations
    /\ UNCHANGED <<repairing, file, issued, threadVars>>

\* run_file_tool: the body is cancelled; a thread that has not started is
\* cancelled with it, one that has goes on.
TimeOut(c) ==
    /\ c <= issued /\ calls[c].place \in {"mkdir", "reading", "writing"}
    /\ Report(c, "timeout")
    /\ \/ UNCHANGED thread
       \/ thread[c] = "queued" /\ thread' = [thread EXCEPT ![c] = "none"]
    /\ UNCHANGED <<repairing, file, issued, payload, mixed, mutations, told>>

-----------------------------------------------------------------------------
(* The worker threads: write_text truncates, then writes.                  *)

ThreadOpens(c) ==
    /\ thread[c] = "queued"
    /\ thread' = [thread EXCEPT ![c] = "open"]
    /\ file' = Torn
    /\ UNCHANGED <<repairing, callVars, report, payload, mixed, mutations, told>>

\* Over what another thread wrote meanwhile the rest of it may stay.
ThreadLands(c) ==
    /\ thread[c] = "open"
    /\ thread' = [thread EXCEPT ![c] = "landed"]
    /\ file' = payload[c] \/ (c \in mixed /\ file' = Torn)
    /\ mixed' = mixed \cup {d \in Calls : d # c /\ thread[d] = "open"}
    /\ UNCHANGED <<repairing, callVars, report, payload, mutations, told>>

-----------------------------------------------------------------------------

\* All calls made and reported, all threads at rest.
Finished ==
    /\ issued = NCalls /\ AllReported
    /\ \A c \in Calls : thread[c] \notin {"queued", "open"}
    /\ UNCHANGED vars

Next ==
    \/ Respond
    \/ \E c \in Calls :
        \/ WriteStarts(c)
        \/ DirectoryMade(c)
        \/ EditStarts(c)
        \/ TextRead(c)
        \/ WriteEnds(c)
        \/ TimeOut(c)
        \/ ThreadOpens(c)
        \/ ThreadLands(c)
    \/ Finished

Spec == Init /\ [][Next]_vars

-----------------------------------------------------------------------------
(* Properties.                                                             *)

TypeOK ==
    /\ repairing \in BOOLEAN
    /\ file \in Files
    /\ issued \in 0 .. NCalls
    /\ calls \in [Calls -> [kind : {"none", "write", "edit"},
                            fragment : Fragments \cup {0},
                            round : Nat,
                            place : {"none", "start", "mkdir", "reading",
                                     "writing", "done"}]]
    /\ report \in [Calls -> {"none", "ok", "failed", "timeout"}]
    /\ thread \in [Calls -> {"none", "queued", "open", "landed"}]
    /\ payload \in [Calls -> Files]
    /\ mixed \subseteq Calls
    /\ mutations \in Nat
    /\ told \in Files

\* No call has timed out and no two were made in one response.
Undisturbed ==
    /\ \A c \in 1 .. issued : report[c] # "timeout"
    /\ \A c, d \in 1 .. issued : c # d => calls[c].round # calls[d].round

(***************************************************************************)
(* Between two responses the file is what the reports add up to: no        *)
(* reported write or replacement is lost, none is there unreported, and    *)
(* nothing is half written.  Parallel calls and the threads a timeout      *)
(* leaves behind are the only things that break it.                        *)
(***************************************************************************)
FileIsAsReported == Undisturbed /\ AllReported => file = told

\* A write's thread begins on a file that is there.
Overwrites(c) ==
    /\ calls[c].kind = "write"
    /\ thread[c] = "queued" /\ thread'[c] = "open"
    /\ file # Absent

(***************************************************************************)
(* write: "The path must not exist yet".  The check and the write are      *)
(* apart, but a write that is alone never meets a file.                    *)
(***************************************************************************)
LoneWriteNeverOverwrites ==
    [][Undisturbed => \A c \in Calls : ~ Overwrites(c)]_vars

(***************************************************************************)
(* The mutation budget of a repair: calls of one response may exceed it    *)
(* together, because the count rises only when a write has ended, but      *)
(* after a reported mutation no later response gets another one.           *)
(***************************************************************************)
MutationsInOneResponse ==
    repairing =>
        \A c, d \in 1 .. issued :
            /\ calls[c].kind = "edit" /\ report[c] = "ok"
            /\ calls[d].kind = "edit" /\ report[d] = "ok"
            => calls[c].round = calls[d].round

=============================================================================
