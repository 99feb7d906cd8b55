------------------------------ MODULE Processes ------------------------------
(***************************************************************************)
(* ProcessManager runs programs.  It keeps a Process for each, and deletes *)
(* it some seconds after the program has finished, when the Process says   *)
(* that it is a zombie.  Whoever takes a Process from the manager's list   *)
(* may stop it and start it again.                                         *)
(***************************************************************************)
EXTENDS Naturals

CONSTANTS
    Addresses,      \* bound: addresses of Process objects
    MaxZombies  \* bound: timers of one object

ASSUME ProcessesAssumption == MaxZombies \in Nat \ {0}

VARIABLE process    \* the Process at each address

\* program is what _process stands for: "none" for NULL; "detached", for which
\* there are no signals; "launching", "running"; "exited", with signals to come;
\* "over"; "failed" to start.  zombies counts the timers that are to make it one.
Programs == {"none", "detached", "launching", "running", "exited", "over", "failed"}

Absent == [listed |-> FALSE, state |-> "Idle", program |-> "none", zombies |-> 0, handled |-> FALSE]

processVars == <<process>>

Alive(p) == process[p].program \in {"launching", "running", "exited"}

\* QProcess::start, which may fail at once; Process::startEx sets the state last.
Launched(p, detach) ==
    {[p EXCEPT !.state = "Starting", !.program = q] :
        q \in IF detach THEN {"detached"} ELSE {"launching", "failed"}}

\* Process::startEx: a start in a bad state deletes the program that there is
StartEx(p, detach) ==
    IF p.state = "Idle" /\ p.program = "none"
    THEN Launched(p, detach)
    ELSE {[p EXCEPT !.program = "none"]}

-----------------------------------------------------------------------------
(* Calls. *)

\* ProcessManager::startEx
StartNew(s, detach) ==
    /\ ~process[s].listed
    /\ \E p \in StartEx([Absent EXCEPT !.listed = TRUE], detach) :
        process' = [process EXCEPT ![s] = p]

\* Process::start and startDetached, of one in the list
StartAgain(s, detach) ==
    /\ process[s].listed
    /\ \E p \in StartEx(process[s], detach) :
        process' = [process EXCEPT ![s] = [p EXCEPT !.handled = TRUE]]

\* Process::stop: the program is ended and awaited, without signals, and the
\* state stays as it is
StopOne(s) ==
    /\ process[s].listed
    /\ process' = [process EXCEPT ![s].program = "none", ![s].handled = TRUE]

\* ProcessManager::~ProcessManager
Shutdown == process' = [s \in Addresses |-> Absent]

-----------------------------------------------------------------------------
(* Signals of QProcess, and timers. *)

\* Process::processStarted
ProcessStarted(s) ==
    /\ process[s].program = "launching"
    /\ process' = [process EXCEPT ![s].program = "running", ![s].state = "Started"]

\* Process::processError: the program could not be started, and that is all
ProcessError(s) ==
    /\ process[s].program = "launching"
    /\ process' = [process EXCEPT ![s].program = "failed", ![s].state = "Idle"]

Exits(s) ==
    /\ process[s].program = "running"
    /\ process' = [process EXCEPT ![s].program = "exited"]

\* Process::processFinished, for a crash after processError
ProcessFinished(s, crashed) ==
    /\ process[s].program = "exited"
    /\ process[s].zombies < MaxZombies
    /\ process' = [process EXCEPT ![s].program = "over", ![s].state = "Idle",
                                  ![s].zombies = @ + 1]

\* Mutant: a Process is deleted when it is next idle.
ProcessZombieEarly(s) ==
    /\ process[s].state = "Starting" \/ process[s].zombies > 0
    /\ process' = [process EXCEPT ![s] = Absent]

\* Process::processZombie, and ProcessManager::processStateChanged, which deletes
\* the Process, with its program
ProcessZombie(s) ==
    /\ process[s].zombies > 0
    /\ process' = [process EXCEPT ![s] = Absent]

-----------------------------------------------------------------------------

\* ProcessManager::ProcessManager
ProcessesInit == process = [s \in Addresses |-> Absent]

ProcessesNext ==
    \/ Shutdown
    \/ \E s \in Addresses :
        \/ \E detach \in BOOLEAN : StartNew(s, detach) \/ StartAgain(s, detach)
        \/ StopOne(s)
        \/ ProcessStarted(s) \/ ProcessError(s) \/ Exits(s)
        \/ \E crashed \in BOOLEAN : ProcessFinished(s, crashed)
        \/ ProcessZombie(s)

ProcessesSpec == ProcessesInit /\ [][ProcessesNext]_processVars

-----------------------------------------------------------------------------
(* Properties. *)

ProcessesTypeOK ==
    process \in [Addresses -> [listed : BOOLEAN, state : {"Idle", "Starting", "Started", "Zombie"},
                           program : Programs, zombies : 0..MaxZombies, handled : BOOLEAN]]

\* A program that has only been started by the manager is not ended by it, but
\* when the manager itself ends.  (Of a Process that was started again, the
\* timer of the first program deletes the second.)
NoProgramIsKilled ==
    [][ \A s \in Addresses :
            Alive(s) /\ ~process[s].handled /\ ~process'[s].listed => Shutdown ]_processVars

\* Whatever is in the list is on its way out of it, but for three kinds, which
\* stay there for ever: programs that could not be started, detached programs,
\* and those that somebody else has stopped or started again.
NothingElseStays ==
    \A s \in Addresses :
        process[s].listed =>
            \/ Alive(s)
            \/ process[s].zombies > 0
            \/ process[s].program \in {"failed", "detached"}
            \/ process[s].handled
=============================================================================
