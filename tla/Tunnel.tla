------------------------------- MODULE Tunnel -------------------------------
(***************************************************************************)
(* The Cloud module of libencloud: Cloud supervises an OpenVPN process     *)
(* (VpnClient) and the management socket to it (VpnManager), and restarts  *)
(* both with an exponential backoff (Retry).  The four objects live in one *)
(* Qt event loop: a signal runs the connected slots before it returns, so  *)
(* one action here is one event (a timer, a child process or a socket      *)
(* notification, a call of Core) together with every slot it reaches.      *)
(*                                                                         *)
(* Core is seen through two parameters of each action.  "sig" is what the  *)
(* step emits to Core, "r" how Core answers an error (Core::_errorReceived *)
(* may call Core::stop in the middle of the handler): not at all, by       *)
(* starting to close the session at the Switchboard, or by a full          *)
(* Cloud::stop before the handler goes on.                                 *)
(*                                                                         *)
(* A socket that is dropped is gone at once here.  The code has it deleted *)
(* later, before the event loop looks at sockets again.                    *)
(***************************************************************************)
EXTENDS Naturals

CONSTANTS
    AutoRetry,      \* Config::autoretry
    TimeoutSet,     \* Config::timeout # 0
    AttachRetries,  \* LIBENCLOUD_VPNMANAGER_ATTACH_RETRIES
    DelayMax,       \* Retry's ceiling in seconds (BackoffMax)
    MaxTimers       \* bound: pending single-shot timers of retryAttach

ASSUME TunnelAssumption ==
    /\ AutoRetry \in BOOLEAN
    /\ TimeoutSet \in BOOLEAN
    /\ AttachRetries \in Nat
    /\ DelayMax \in Nat \ {0}
    /\ MaxTimers \in Nat

VARIABLES
    client,     \* VpnClient: its state, and what process points to
    manager,    \* VpnManager: state, error, attachRetries, its two timers
    socket,     \* the manager's QTcpSocket, and whether "state" was asked on it
    reattach,   \* pending QTimer::singleShot(1000, retryAttach)
    cloud,      \* Cloud: _isFallback, and its Retry (timer armed, exponent)
    conf,       \* what Cloud reads elsewhere: Config::setupAgent, and whether
                \* the Setup module holds a valid fallback configuration
    phase       \* where Core is with the cloud: not started, started, or
                \* stopping and waiting for the Switchboard's close reply

vars == <<client, manager, socket, reattach, cloud, conf, phase>>

-----------------------------------------------------------------------------

\* States reported by the management interface, in VpnClient::State's order.
Negotiating == {"WaitingInitialResponse", "Authenticating",
                "DownloadingConfiguration", "AssigningIP", "AddingRoutes"}
ManagedStates == {"Connecting", "Connected"} \cup Negotiating
ClientStates == {"Idle", "Configured", "Starting", "Started"} \cup ManagedStates

\* No object; launched; up; gone with finished() still to be delivered; an
\* object whose process is gone.
ProcessStates == {"none", "starting", "running", "exited", "finished"}

ManagerStates == {"Detached", "Attaching", "Attached", "Detaching"}

\* "failure" stands for every manager error but ConnTimeout: Cloud treats
\* them alike.
ManagerErrors == {"none", "failure", "ConnTimeout"}

\* A running single-shot timer is "fresh" when it was (re)started and "due"
\* once nothing restarted it until its time came.
TimerStates == {"off", "fresh", "due"}

\* "none": no socket, or one whose connection failed or was closed
SocketStates == {"none", "connecting", "open"}

Signals == {"none", "error", "connect", "cloud"}
Reactions == {"none", "closing", "stopped"}

NoSocket == [st |-> "none", asked |-> FALSE]
NewSocket == [st |-> "connecting", asked |-> FALSE]

\* Devices and agents retry by themselves, the client application does not.
Forced == AutoRetry \/ conf.agent

\* Mutant: the exponent grows whatever the delay.
BackoffUnlimited(n) == n + 1

\* Retry::start: the delay is 2^backoff up to the ceiling; the exponent grows
\* only while the delay is below it.
Backoff(n) == IF 2 ^ n < DelayMax THEN n + 1 ELSE n

-----------------------------------------------------------------------------
(* Pieces of handlers, on the objects as the handler has left them so far. *)

\* VpnManager::detach
Detached(m) ==
    IF m.st = "Detached" THEN m
    ELSE [st |-> "Detached", err |-> "none", polling |-> FALSE, connTimer |-> "off",
          retries |-> IF m.st = "Attaching" THEN m.retries ELSE 0]

Detach(m) ==
    /\ manager' = Detached(m)
    /\ socket' = IF m.st = "Detached" THEN socket ELSE NoSocket

\* Mutant: the connection timer is not started.
AttachUntimed(m) ==
    IF m.st = "Attached" THEN manager' = m /\ UNCHANGED socket
    ELSE /\ manager' = [Detached(m) EXCEPT !.st = "Attaching", !.polling = TRUE]
         /\ socket' = NewSocket

\* VpnManager::attach
Attach(m) ==
    IF m.st = "Attached" THEN manager' = m /\ UNCHANGED socket
    ELSE /\ manager' = [Detached(m) EXCEPT
                            !.st = "Attaching",
                            !.polling = TRUE,
                            !.connTimer = IF TimeoutSet THEN "fresh" ELSE "off"]
         /\ socket' = NewSocket

\* Mutant: the process is dropped, the state stays.
StoppedKeepingState(c) == [c EXCEPT !.process = "none"]

\* VpnClient::stop: leaves a state untouched when there is no process
Stopped(c) ==
    IF c.st = "Idle" \/ c.process = "none" THEN c
    ELSE [st |-> "Configured", process |-> "none"]

\* Mutant: the manager is left attached.
StopAllButManager(c, m, fb) ==
    /\ manager' = m
    /\ client' = Stopped(c)
    /\ cloud' = [isFallback |-> fb, retry |-> FALSE, backoff |-> 1]
    /\ UNCHANGED socket

\* Mutant: the retry timer is left running.
StopAllButRetry(c, m, fb) ==
    /\ Detach(m)
    /\ client' = Stopped(c)
    /\ cloud' = [cloud EXCEPT !.isFallback = fb]

\* Cloud::stop (retry = false) on top of fb, the last write to _isFallback
StopAll(c, m, fb) ==
    /\ Detach(m)
    /\ client' = Stopped(c)
    /\ cloud' = [isFallback |-> fb, retry |-> FALSE, backoff |-> 1]

\* Mutant: the process is not stopped before the retry.
RestartRunning(c, m, k, fb) ==
    /\ Detach(m)
    /\ client' = c
    /\ cloud' = [isFallback |-> fb, retry |-> TRUE, backoff |-> Backoff(k.backoff)]

\* Cloud::_restart when forced: Cloud::stop (retry = true), then Retry::start
Restart(c, m, k, fb) ==
    /\ Detach(m)
    /\ client' = Stopped(c)
    /\ cloud' = [isFallback |-> fb, retry |-> TRUE, backoff |-> Backoff(k.backoff)]

\* A fallback configuration is there and the primary was being used.
FallsBack(k) == ~k.isFallback /\ conf.fallback

FallBack(c, m, k, sig, r) ==
    /\ sig = "none" /\ r = "none"
    /\ Restart(c, m, k, TRUE)

\* Cloud emits error, Core answers with r, then Cloud::_restart(fb)
Fail(c, m, x, k, fb, sig, r) ==
    /\ sig = "error"
    /\ \/ Forced /\ r = "none" /\ Restart(c, m, k, fb)
       \/ ~Forced /\ r = "stopped" /\ StopAll(c, m, fb)
       \/ /\ ~Forced /\ r # "stopped"
          /\ manager' = m /\ client' = c
          /\ socket' = x
          /\ cloud' = [k EXCEPT !.isFallback = fb]

\* Cloud::_vpnClientErr
ClientErr(c, k, sig, r) ==
    IF FallsBack(k) THEN FallBack(c, manager, k, sig, r)
    ELSE Fail(c, manager, socket, k, k.isFallback, sig, r)

\* Cloud::_vpnManagerErr, for the error in m; x is the socket by then
ManagerErr(m, x, sig, r) ==
    IF m.err = "ConnTimeout" /\ FallsBack(cloud) THEN FallBack(client, m, cloud, sig, r)
    ELSE Fail(client, m, x, cloud, FALSE, sig, r)

\* No answer of Core is involved.
Silent(sig, r) == sig = "none" /\ r = "none"

\* VpnClient::start on the Cloud state k.  While Core closes, QccSetup::_clear
\* has removed the configuration files, so only the failing branch is left.
Launch(k, sig, r) ==
    \/ /\ client.process # "none"
       /\ Silent(sig, r)
       /\ cloud' = k
       /\ UNCHANGED <<client, manager, socket>>
    \/ /\ client.process = "none"
       /\ client.st \in {"Idle", "Configured"}
       /\ phase # "closing"
       /\ Silent(sig, r)
       /\ client' = [st |-> "Starting", process |-> "starting"]
       /\ cloud' = k
       /\ UNCHANGED <<manager, socket>>
    \/ /\ client.process = "none"
       /\ ClientErr(client, k, sig, r)

\* What Core's answer leaves behind: Core::stop resets the Setup module, and
\* either waits for the close reply or has called Cloud::stop already.
CoreAnswers(p, r) ==
    /\ phase' = CASE r = "none" -> p [] r = "closing" -> "closing" [] r = "stopped" -> "idle"
    /\ conf' = IF r = "none" THEN conf ELSE [conf EXCEPT !.fallback = FALSE]

-----------------------------------------------------------------------------
(* Calls from Core. *)

\* The Setup module decodes an answer with a fallback configuration; a late
\* answer may do so in any phase.
Configure ==
    /\ conf' = [conf EXCEPT !.fallback = TRUE]
    /\ UNCHANGED <<client, manager, socket, reattach, cloud, phase>>

\* Mutant: _isFallback is not reset.
StartOnFallback(sig, r) ==
    /\ Launch(cloud, sig, r)
    /\ CoreAnswers("started", r)
    /\ UNCHANGED reattach

\* Cloud::start, on entering Core's cloud state
Start(sig, r) ==
    /\ Launch([cloud EXCEPT !.isFallback = FALSE], sig, r)
    /\ CoreAnswers("started", r)
    /\ UNCHANGED reattach

\* Core::stop outside any handler of Cloud
Stop(r) ==
    /\ r \in {"closing", "stopped"}
    /\ CoreAnswers(phase, r)
    /\ IF r = "stopped" THEN StopAll(client, manager, cloud.isFallback)
                        ELSE UNCHANGED <<client, manager, socket, cloud>>
    /\ UNCHANGED reattach

\* Mutant: Core::_setupStopped does not stop the cloud.
CloseReplyAlone ==
    /\ phase = "closing"
    /\ phase' = "idle"
    /\ UNCHANGED <<client, manager, socket, reattach, cloud, conf>>

\* The Switchboard's close reply (or its failure): Core::_setupStopped.  The
\* Setup module was cleared when it was told to stop, and not again.
CloseReply ==
    /\ phase = "closing"
    /\ phase' = "idle"
    /\ StopAll(client, manager, cloud.isFallback)
    /\ UNCHANGED <<reattach, conf>>

-----------------------------------------------------------------------------
(* Events of the OpenVPN process. *)

\* VpnClient::processStarted; Cloud::_vpnStateChanged attaches the manager
ProcessStarted(sig, r) ==
    /\ client.process = "starting"
    /\ Silent(sig, r)
    /\ client' = [st |-> "Started", process |-> "running"]
    /\ Attach(manager)
    /\ CoreAnswers(phase, r)
    /\ UNCHANGED <<reattach, cloud>>

\* VpnClient::processError, when the executable cannot be run
ProcessFailedToStart(sig, r) ==
    /\ client.process = "starting"
    /\ ClientErr([client EXCEPT !.process = "finished"], cloud, sig, r)
    /\ CoreAnswers(phase, r)
    /\ UNCHANGED reattach

\* OpenVPN exits or is killed by somebody else
ProcessExits ==
    /\ client.process = "running"
    /\ client' = [client EXCEPT !.process = "exited"]
    /\ UNCHANGED <<manager, socket, reattach, cloud, conf, phase>>

\* VpnClient::processFinished: whatever the exit code, it is an error
ProcessFinished(sig, r) ==
    /\ client.process = "exited"
    /\ ClientErr([client EXCEPT !.process = "finished"], cloud, sig, r)
    /\ CoreAnswers(phase, r)
    /\ UNCHANGED reattach

-----------------------------------------------------------------------------
(* Events of the management socket. *)

\* VpnManager::connected
Connected(sig, r) ==
    /\ socket.st = "connecting"
    /\ client.process = "running"
    /\ Silent(sig, r)
    /\ socket' = [socket EXCEPT !.st = "open"]
    /\ manager' = [manager EXCEPT !.st = "Attached"]
    /\ CoreAnswers(phase, r)
    /\ UNCHANGED <<client, reattach, cloud>>

\* VpnManager::socketError(ConnectionRefusedError): try again in a second
Refused(sig, r) ==
    /\ socket.st = "connecting"
    /\ manager.retries # AttachRetries
    /\ reattach < MaxTimers
    /\ Silent(sig, r)
    /\ manager' = [manager EXCEPT !.retries = @ + 1]
    /\ socket' = NoSocket
    /\ reattach' = reattach + 1
    /\ CoreAnswers(phase, r)
    /\ UNCHANGED <<client, cloud>>

\* VpnManager::socketError(ConnectionRefusedError): the retries are used up
RefusedForGood(sig, r) ==
    /\ socket.st = "connecting"
    /\ manager.retries = AttachRetries
    /\ ManagerErr([manager EXCEPT !.retries = 0, !.err = "failure"], NoSocket, sig, r)
    /\ CoreAnswers(phase, r)
    /\ UNCHANGED reattach

\* VpnManager::socketError (default) while connecting: the connection is given
\* up without a retry.  An error already there takes precedence.
ConnectFails(sig, r) ==
    /\ socket.st = "connecting"
    /\ ManagerErr([manager EXCEPT !.err = IF @ = "none" THEN "failure" ELSE @],
                  NoSocket, sig, r)
    /\ CoreAnswers(phase, r)
    /\ UNCHANGED reattach

\* VpnManager::socketError (default), then VpnManager::disconnected unless a
\* handler has closed the socket.  An error already there takes precedence.
PeerClosed(sig, r) ==
    /\ socket.st = "open"
    /\ ManagerErr([manager EXCEPT !.st = "Detaching",
                                  !.err = IF @ = "none" THEN "failure" ELSE @],
                  NoSocket, sig, r)
    /\ CoreAnswers(phase, r)
    /\ UNCHANGED reattach

\* VpnManager::retryAttach
RetryAttach(sig, r) ==
    /\ reattach > 0
    /\ Silent(sig, r)
    /\ reattach' = reattach - 1
    /\ IF manager.st = "Attaching" THEN Attach(manager) ELSE UNCHANGED <<manager, socket>>
    /\ CoreAnswers(phase, r)
    /\ UNCHANGED <<client, cloud>>

\* VpnManager::stateTimeout: ask OpenVPN for its state
StateTimeout(sig, r) ==
    /\ manager.polling
    /\ manager.st = "Attached"
    /\ socket.st = "open" /\ ~socket.asked
    /\ Silent(sig, r)
    /\ socket' = [socket EXCEPT !.asked = TRUE]
    /\ CoreAnswers(phase, r)
    /\ UNCHANGED <<client, manager, reattach, cloud>>

\* Mutant: a new state does not restart the connection timer.
StateLineUntimed(s, sig, r) ==
    /\ socket.st = "open" /\ socket.asked
    /\ r = "none"
    /\ sig = IF s = client.st THEN "none"
             ELSE CASE s = "Connecting" -> "connect"
                    [] s = "Connected"  -> "cloud"
                    [] OTHER            -> "none"
    /\ socket' = [socket EXCEPT !.asked = FALSE]
    /\ client' = [client EXCEPT !.st = s]
    /\ manager' = [manager EXCEPT !.connTimer = IF s = "Connected" THEN "off" ELSE @]
    /\ CoreAnswers(phase, r)
    /\ UNCHANGED <<reattach, cloud>>

\* VpnManager::parseLineState, for a line that names state s
StateLine(s, sig, r) ==
    /\ socket.st = "open" /\ socket.asked
    /\ r = "none"
    /\ sig = IF s = client.st THEN "none"
             ELSE CASE s = "Connecting" -> "connect"
                    [] s = "Connected"  -> "cloud"
                    [] OTHER            -> "none"
    /\ socket' = [socket EXCEPT !.asked = FALSE]
    /\ client' = [client EXCEPT !.st = s]
    /\ manager' = [manager EXCEPT !.connTimer =
           IF s = "Connected" THEN "off"
           ELSE IF s # client.st /\ TimeoutSet THEN "fresh" ELSE @]
    /\ CoreAnswers(phase, r)
    /\ UNCHANGED <<reattach, cloud>>

\* VpnManager::parseLineState, for EXITING (which setState refuses) and for
\* lines without a known state
OtherStateLine(sig, r) ==
    /\ socket.st = "open" /\ socket.asked
    /\ Silent(sig, r)
    /\ socket' = [socket EXCEPT !.asked = FALSE]
    /\ CoreAnswers(phase, r)
    /\ UNCHANGED <<client, manager, reattach, cloud>>

\* VpnManager::parseLine on >FATAL, parseLinePass on a failed verification
FatalLine(sig, r) ==
    /\ socket.st = "open"
    /\ ManagerErr([manager EXCEPT !.err = "failure"], socket, sig, r)
    /\ CoreAnswers(phase, r)
    /\ UNCHANGED reattach

-----------------------------------------------------------------------------
(* Timers. *)

\* Time passes and nothing has restarted the connection timer.
ConnTimerRuns ==
    /\ manager.connTimer = "fresh"
    /\ manager' = [manager EXCEPT !.connTimer = "due"]
    /\ UNCHANGED <<client, socket, reattach, cloud, conf, phase>>

\* VpnManager::connTimeout
ConnTimeout(sig, r) ==
    /\ manager.connTimer = "due"
    /\ ManagerErr([manager EXCEPT !.connTimer = "off", !.err = "ConnTimeout"], socket, sig, r)
    /\ CoreAnswers(phase, r)
    /\ UNCHANGED reattach

\* Cloud::_onRetry
OnRetry(sig, r) ==
    /\ cloud.retry
    /\ Launch([cloud EXCEPT !.retry = FALSE], sig, r)
    /\ CoreAnswers(phase, r)
    /\ UNCHANGED reattach

-----------------------------------------------------------------------------
Init ==
    /\ client = [st |-> "Idle", process |-> "none"]
    /\ manager = [st |-> "Detached", err |-> "none", polling |-> FALSE,
                  connTimer |-> "off", retries |-> 0]
    /\ socket = NoSocket
    /\ reattach = 0
    /\ cloud = [isFallback |-> FALSE, retry |-> FALSE, backoff |-> 1]
    /\ conf \in [agent : BOOLEAN, fallback : {FALSE}]
    /\ phase = "idle"

\* Every event of the cloud that runs slots which may reach Core.
CloudEvent(sig, r) ==
    \/ ProcessStarted(sig, r)
    \/ ProcessFailedToStart(sig, r)
    \/ ProcessFinished(sig, r)
    \/ Connected(sig, r)
    \/ Refused(sig, r)
    \/ RefusedForGood(sig, r)
    \/ ConnectFails(sig, r)
    \/ PeerClosed(sig, r)
    \/ RetryAttach(sig, r)
    \/ StateTimeout(sig, r)
    \/ \E s \in ManagedStates : StateLine(s, sig, r)
    \/ OtherStateLine(sig, r)
    \/ FatalLine(sig, r)
    \/ ConnTimeout(sig, r)
    \/ OnRetry(sig, r)

\* Core as seen from here: it answers an error it has to handle by stopping,
\* unless it is already doing so.
CoreMayAnswer(sig, r) ==
    IF sig = "error" /\ ~Forced /\ phase # "closing" THEN r \in {"closing", "stopped"}
    ELSE r = "none"

Next ==
    \/ Configure
    \/ \E sig \in Signals, r \in Reactions :
          /\ CoreMayAnswer(sig, r)
          /\ phase = "idle"
          /\ Start(sig, r)
    \/ \E r \in Reactions : phase = "started" /\ Stop(r)
    \/ phase = "idle" /\ Stop("stopped")
    \/ CloseReply
    \/ ProcessExits
    \/ ConnTimerRuns
    \/ \E sig \in Signals, r \in Reactions : CoreMayAnswer(sig, r) /\ CloudEvent(sig, r)

Spec == Init /\ [][Next]_vars

\* The event loop delivers what is due: the outcome of a launch, the end of a
\* process, the outcome of a connection attempt, armed timers, and the close
\* reply (the request times out by itself).  Nothing obliges OpenVPN to
\* answer, to connect or to exit, nor the user to do anything.
Handled(Event(_, _)) ==
    \E sig \in Signals, r \in Reactions : CoreMayAnswer(sig, r) /\ Event(sig, r)

Fairness ==
    /\ WF_vars(Handled(ProcessStarted) \/ Handled(ProcessFailedToStart))
    /\ WF_vars(Handled(ProcessFinished))
    /\ WF_vars(\/ Handled(Connected) \/ Handled(ConnectFails)
               \/ Handled(Refused) \/ Handled(RefusedForGood))
    /\ WF_vars(Handled(RetryAttach))
    /\ WF_vars(ConnTimerRuns)
    /\ WF_vars(Handled(ConnTimeout))
    /\ WF_vars(Handled(OnRetry))
    /\ WF_vars(CloseReply)

FairSpec == Spec /\ Fairness

-----------------------------------------------------------------------------
(* Properties. *)

\* Exponents that Retry reaches: one more is taken only while the delay is below
\* the ceiling.
Exponents == {n \in Nat \ {0} : n > 1 => 2 ^ (n - 1) < DelayMax}

\* Every object is in a state its class declares, and the counters stay in
\* their bounds: attachRetries never passes the limit, and the backoff exponent
\* is one that Retry reaches, at most one past the last whose delay is below
\* the ceiling.
TypeOK ==
    /\ client \in [st : ClientStates, process : ProcessStates]
    /\ manager \in [st : ManagerStates, err : ManagerErrors, polling : BOOLEAN,
                    connTimer : TimerStates, retries : 0 .. AttachRetries]
    /\ socket \in [st : SocketStates, asked : BOOLEAN]
    /\ reattach \in 0 .. MaxTimers
    /\ cloud \in [isFallback : BOOLEAN, retry : BOOLEAN, backoff : Exponents]
    /\ conf \in [agent : BOOLEAN, fallback : BOOLEAN]
    /\ phase \in {"idle", "started", "closing"}

\* VpnClient::start refuses any state but Idle and Configured and
\* VpnClient::stop does nothing without a process, so a client that lost its
\* process in another state could never be started again.
Restartable == client.process = "none" => client.st \in {"Idle", "Configured"}

\* The manager writes VpnClient's state for as long as it is not detached: it
\* must never outlive the process, whatever timers and socket events are
\* still on their way.
ManagerNeedsProcess == manager.st # "Detached" => client.process # "none"

\* After Core's stop has completed nothing of the cloud is left running: no
\* process, no connection, no timer that could start one again.
StoppedIsQuiet ==
    phase = "idle" =>
        /\ client.process = "none"
        /\ manager.st = "Detached" /\ socket.st = "none"
        /\ ~cloud.retry /\ ~manager.polling /\ manager.connTimer = "off"

\* The retry timer only runs while there is no process: a retry never finds
\* the process it was to replace.
RetryWithoutProcess == cloud.retry => client.process = "none"

\* A started cloud is connected or something that is due will move it: with a
\* connection timeout set, no sequence of failures, retries and state lines
\* leaves a process that nobody waits for.
Watched ==
    TimeoutSet /\ phase = "started" =>
        \/ cloud.retry
        \/ client.process \in {"starting", "exited"}
        \/ client.st = "Connected"
        \/ manager.connTimer # "off"

\* The fallback configuration is in use only while the Setup module has one.
FallbackIsConfigured == phase = "started" /\ cloud.isFallback => conf.fallback

\* The inductive invariant behind the five invariants above.

\* VpnClient has a process exactly in the states that need one.
ClientConsistent == client.process = "none" <=> client.st \in {"Idle", "Configured"}

\* A detached manager has no socket, no timer and no error.
DetachedIsQuiet ==
    manager.st = "Detached" =>
        /\ socket = NoSocket
        /\ ~manager.polling /\ manager.connTimer = "off" /\ manager.err = "none"

\* The socket is what the manager's state says.
SocketFollowsManager ==
    /\ socket.st = "connecting" => manager.st = "Attaching"
    /\ socket.st = "open" => manager.st = "Attached"

\* The manager is attached only when the process is up.
LaunchIsUnmanaged == client.process = "starting" => manager.st = "Detached"

IdleIsStopped == phase = "idle" => client.process = "none" /\ ~cloud.retry

\* What every step preserves: the parts that the steps rest on, and the
\* invariants that follow from them one step at a time.
Inductive ==
    /\ ClientConsistent
    /\ ManagerNeedsProcess
    /\ DetachedIsQuiet
    /\ SocketFollowsManager
    /\ LaunchIsUnmanaged
    /\ RetryWithoutProcess
    /\ IdleIsStopped
    /\ Watched
    /\ FallbackIsConfigured

\* A process that has gone is replaced or given up, even when it goes while
\* Core is stopping.
DeadProcessIsReaped == client.process = "exited" ~> client.process \in {"none", "starting"}

\* OpenVPN moves from one unconnected state to another.
Flaps ==
    /\ client.st \in ManagedStates
    /\ client'.st \in ManagedStates \ {"Connected"}
    /\ client'.st # client.st

\* A connection attempt either succeeds or is given up, provided that OpenVPN
\* does not change its state for ever.
AttemptEnds ==
    TimeoutSet /\ <>[][~Flaps]_vars =>
        []<>(phase # "started" \/ client.st \in {"Connected", "Configured", "Starting"})
=============================================================================
