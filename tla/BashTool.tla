------------------------------ MODULE BashTool ------------------------------
(***************************************************************************)
(* The bash tool (tools/bash.py) under the phases of the runner            *)
(* (runner.py: _run_phase) and the finalization reserve (tools/base.py:    *)
(* finalizing_result): commands with background children, the pipes they   *)
(* hold, the time-out that kills their session, and the phase cap that     *)
(* abandons a call.  Clock values are abstracted to the order of events.   *)
(***************************************************************************)
EXTENDS Naturals

CONSTANTS
    NPhases,        \* attempts at phases, one after the other
    NCalls          \* bash calls, several of one response run concurrently

ASSUME BashToolAssumption == NPhases \in Nat /\ NCalls \in Nat

Calls == 1 .. NCalls

VARIABLES
    phase,          \* number of the phase; NPhases + 1 is the end of the run
    reserve,        \* is the phase in its finalization reserve?
    call,           \* per call: where it is
    madeIn,         \* per call: its phase
    shell,          \* per call: the shell, leader of its own session
    child,          \* per call: a process the shell left in the background
    kind,           \* per call: what that process holds and where it is
    unread          \* per call: is there output in its pipes nobody has read?

phaseVars == <<phase, reserve>>
processVars == <<shell, child, kind>>
vars == <<phaseVars, call, madeIn, processVars, unread>>

\* A child may have inherited the pipes, have its output redirected
\* (nohup ... &), or have left the session (setsid) with the pipes.
Kinds == {"piped", "redirected", "escaped"}
Alive == {"running", "dying"}        \* dying: SIGKILL was sent
Waiting == {"draining", "reaping"}

Init ==
    /\ phase = 1
    /\ reserve = FALSE
    /\ call = [c \in Calls |-> "none"]
    /\ madeIn = [c \in Calls |-> 0]
    /\ shell = [c \in Calls |-> "none"]
    /\ child = [c \in Calls |-> "none"]
    /\ kind \in [Calls -> Kinds]
    /\ unread = [c \in Calls |-> FALSE]

-----------------------------------------------------------------------------
(* The phases.                                                             *)

InPhase == phase <= NPhases

\* remaining <= finalize_reserve()
ReserveBegins ==
    /\ InPhase /\ ~ reserve
    /\ reserve' = TRUE
    /\ UNCHANGED <<phase, call, madeIn, processVars, unread>>

\* The model answers without a tool call; the next phase gets a new window.
PhaseEnds ==
    /\ InPhase
    /\ \A c \in Calls : call[c] \notin Waiting
    /\ phase' = phase + 1
    /\ reserve' = FALSE
    /\ UNCHANGED <<call, madeIn, processVars, unread>>

\* asyncio.timeout cancels what the phase awaits.  bash catches its own
\* time-out only: the command is left as it is.
PhaseCut ==
    /\ InPhase
    /\ call' = [c \in Calls |-> IF call[c] \in Waiting THEN "cancelled" ELSE call[c]]
    /\ phase' = phase + 1
    /\ reserve' = FALSE
    /\ UNCHANGED <<madeIn, processVars, unread>>

-----------------------------------------------------------------------------
(* A call.                                                                 *)

\* In the reserve the call is answered without being executed; the spawn
\* may fail; otherwise the shell runs in a session of its own.
Call(c) ==
    /\ InPhase
    /\ call[c] = "none"
    /\ \/ /\ reserve
          /\ call' = [call EXCEPT ![c] = "finalizing"]
          /\ UNCHANGED shell
       \/ /\ ~ reserve
          /\ call' = [call EXCEPT ![c] = "spawn_error"]
          /\ UNCHANGED shell
       \/ /\ ~ reserve
          /\ call' = [call EXCEPT ![c] = "draining"]
          /\ shell' = [shell EXCEPT ![c] = "running"]
    /\ madeIn' = [madeIn EXCEPT ![c] = phase]
    /\ UNCHANGED <<phaseVars, child, kind, unread>>

\* _read_stream
Reads(c) ==
    /\ call[c] = "draining" /\ unread[c]
    /\ unread' = [unread EXCEPT ![c] = FALSE]
    /\ UNCHANGED <<phaseVars, call, madeIn, processVars>>

HoldsPipes(c) ==
    \/ shell[c] \in Alive
    \/ child[c] \in Alive /\ kind[c] # "redirected"

\* Mutant: only the end of the shell is waited for.
DrainedAtExit(c) ==
    /\ call[c] = "draining"
    /\ shell[c] = "exited"
    /\ call' = [call EXCEPT ![c] = "done"]
    /\ UNCHANGED <<phaseVars, madeIn, processVars, unread>>

\* _drain_and_wait: both pipes are at their end (nothing is left in them and
\* nobody holds them) and the shell has exited.
Drained(c) ==
    /\ call[c] = "draining"
    /\ ~ unread[c] /\ ~ HoldsPipes(c)
    /\ call' = [call EXCEPT ![c] = "done"]
    /\ UNCHANGED <<phaseVars, madeIn, processVars, unread>>

Killed(process) == IF process = "running" THEN "dying" ELSE process

\* Mutant: an exited shell is not killed any more.
KillIfRunning(c) ==
    IF shell[c] = "exited"
    THEN UNCHANGED <<shell, child>>
    ELSE /\ shell' = [shell EXCEPT ![c] = Killed(@)]
         /\ child' = [child EXCEPT ![c] = IF kind[c] = "escaped" THEN @ ELSE Killed(@)]

\* Mutant: without a session of its own there is no group to kill, and the
\* error is swallowed.
KillNothing(c) == UNCHANGED <<shell, child>>

\* _kill_process_group: everything in the session, whether or not the
\* shell has exited.
Kill(c) ==
    /\ shell' = [shell EXCEPT ![c] = Killed(@)]
    /\ child' = [child EXCEPT ![c] = IF kind[c] = "escaped" THEN @ ELSE Killed(@)]

\* wait_for(_drain_and_wait(...), timeout=t) expires.
TimeOut(c) ==
    /\ call[c] = "draining"
    /\ call' = [call EXCEPT ![c] = "reaping"]
    /\ Kill(c)
    /\ UNCHANGED <<phaseVars, madeIn, kind, unread>>

\* Mutant: the killed shell is waited for however long it takes.
ReapForever(c) ==
    /\ call[c] = "reaping"
    /\ shell[c] \notin Alive
    /\ call' = [call EXCEPT ![c] = "killed"]
    /\ UNCHANGED <<phaseVars, madeIn, processVars, unread>>

\* The shell is reaped, or five seconds pass; exit code 124 either way.
Reap(c) ==
    /\ call[c] = "reaping"
    /\ call' = [call EXCEPT ![c] = "killed"]
    /\ UNCHANGED <<phaseVars, madeIn, processVars, unread>>

-----------------------------------------------------------------------------
(* The command.                                                            *)

Forks(c) ==
    /\ shell[c] = "running" /\ child[c] = "none"
    /\ child' = [child EXCEPT ![c] = "running"]
    /\ UNCHANGED <<phaseVars, call, madeIn, shell, kind, unread>>

ShellExits(c) ==
    /\ shell[c] \in Alive
    /\ shell' = [shell EXCEPT ![c] = "exited"]
    /\ UNCHANGED <<phaseVars, call, madeIn, child, kind, unread>>

ChildExits(c) ==
    /\ child[c] \in Alive
    /\ child' = [child EXCEPT ![c] = "exited"]
    /\ UNCHANGED <<phaseVars, call, madeIn, shell, kind, unread>>

\* A process that may still run writes into the pipes.
Writes(c) ==
    /\ \/ shell[c] = "running"
       \/ child[c] = "running" /\ kind[c] # "redirected"
    /\ unread' = [unread EXCEPT ![c] = TRUE]
    /\ UNCHANGED <<phaseVars, call, madeIn, processVars>>

-----------------------------------------------------------------------------

Tool(c) == Call(c) \/ Reads(c) \/ Drained(c) \/ TimeOut(c) \/ Reap(c)

Command(c) == Forks(c) \/ ShellExits(c) \/ ChildExits(c) \/ Writes(c)

\* The run is over; what was left behind may go on.
Over == ~ InPhase /\ UNCHANGED vars

Next ==
    \/ ReserveBegins \/ PhaseEnds \/ PhaseCut
    \/ \E c \in Calls : Tool(c) \/ Command(c)
    \/ Over

Spec == Init /\ [][Next]_vars

(***************************************************************************)
(* Fairness: the two time-outs of a call expire.  Nothing is assumed of    *)
(* the command, which may hang and may not even die at once.               *)
(***************************************************************************)
FairSpec == Spec /\ \A c \in Calls : WF_vars(TimeOut(c)) /\ WF_vars(Reap(c))

-----------------------------------------------------------------------------
(* Properties.                                                             *)

TypeOK ==
    /\ phase \in 1 .. NPhases + 1
    /\ reserve \in BOOLEAN
    /\ call \in [Calls -> {"none", "finalizing", "spawn_error", "draining", "reaping",
                           "done", "killed", "cancelled"}]
    /\ madeIn \in [Calls -> 0 .. NPhases]
    /\ shell \in [Calls -> {"none", "running", "dying", "exited"}]
    /\ child \in [Calls -> {"none", "running", "dying", "exited"}]
    /\ kind \in [Calls -> Kinds]
    /\ unread \in [Calls -> BOOLEAN]

(***************************************************************************)
(* Once a call reports exit code 124, nothing of its session can run on,   *)
(* a child that outlived the shell included.                               *)
(***************************************************************************)
KilledMeansKilled ==
    \A c \in Calls : call[c] = "killed" =>
        /\ shell[c] # "running"
        /\ child[c] = "running" => kind[c] = "escaped"

(***************************************************************************)
(* A result that is not a time-out is final: nobody who could still add to *)
(* the output is left, and a process that runs on had it redirected.       *)
(***************************************************************************)
OutputIsWhole ==
    \A c \in Calls : call[c] = "done" => ~ unread[c] /\ ~ HoldsPipes(c)

(***************************************************************************)
(* Work left over from an earlier phase - the shell, or a child still on   *)
(* its pipes - was cut by the cap of that phase: every other end of a call *)
(* is a real end, unless the command redirected the child or let it leave  *)
(* the session.                                                            *)
(***************************************************************************)
LeftoversWereCut ==
    \A c \in Calls :
        /\ madeIn[c] < phase
        /\ shell[c] = "running" \/ (child[c] = "running" /\ kind[c] = "piped")
        => call[c] = "cancelled"

(***************************************************************************)
(* Every call comes back, whatever its command does: a hang, children that *)
(* hold the pipes, a process that does not die.                            *)
(***************************************************************************)
EveryCallEnds == \A c \in Calls : call[c] \in Waiting ~> call[c] \notin Waiting

=============================================================================
