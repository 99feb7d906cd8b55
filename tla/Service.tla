------------------------------ MODULE Service -------------------------------
(***************************************************************************)
(* Core puts the Setup and Cloud modules together: it starts the one, then *)
(* the other, answers their errors, and stops both.  This module is the    *)
(* composition of QccSetup and Tunnel with Core's own state, and the check *)
(* that Core is the environment each of the two assumes.                   *)
(*                                                                         *)
(* A slot runs to its end before the event loop goes on.  The only handler *)
(* taken apart here is the one that completes the setup: it leaves fsm at  *)
(* "entering", and no other event is handled until the cloud was started.  *)
(*                                                                         *)
(* MayRestart and MayReconfigure let the API's clients do what the code    *)
(* accepts but does not handle well: start a service that is running, and  *)
(* send a configuration with "setup.agent" in the middle of a session.     *)
(* MaySpoil lets the credentials become unusable at any time.              *)
(***************************************************************************)
EXTENDS Naturals

CONSTANTS
    Users, NoUser,      \* as in QccSetup
    AutoRetry,          \* Config::autoretry
    Decongest,          \* Config::decongest
    TimeoutSet, AttachRetries, DelayMax, MaxTimers,     \* as in Tunnel
    MayRestart,         \* start may be asked for while the service runs
    MayReconfigure,     \* a configuration may arrive at any time
    MaySpoil            \* valid credentials may be, or become, unusable

ASSUME ServiceAssumption ==
    /\ NoUser \notin Users
    /\ AutoRetry \in BOOLEAN
    /\ TimeoutSet \in BOOLEAN
    /\ AttachRetries \in Nat
    /\ DelayMax \in Nat \ {0}
    /\ MaxTimers \in Nat
    /\ Decongest \in BOOLEAN
    /\ MayRestart \in BOOLEAN
    /\ MayReconfigure \in BOOLEAN
    /\ MaySpoil \in BOOLEAN

VARIABLES
    core,       \* _state, _busy, _fsm, and whether singleShot(_start) is pending
    setup,      \* as in QccSetup
    client, manager, socket, reattach, cloud, conf, phase   \* as in Tunnel

tunnelVars == <<client, manager, socket, reattach, cloud, conf, phase>>
vars == <<core, setup, tunnelVars>>

T == INSTANCE Tunnel

CoreStates == {"Error", "Idle", "Setup", "Connect", "Cloud"}
FsmStates == {"off", "setup", "entering", "cloud"}

\* What QccSetup calls the session.
Session ==
    CASE phase = "closing" -> "closing"
      [] phase = "started" \/ core.fsm = "entering" -> "online"
      [] phase = "idle" /\ core.fsm = "setup" -> "setup"
      [] /\ phase = "idle"
         /\ core.fsm = "off"
         /\ \/ core.state = "Setup"
            \/ core.state = "Error" /\ setup.cfg -> "halted"
      [] OTHER -> "idle"

S == INSTANCE QccSetup WITH session <- Session

\* What goes on in a session, as the user is told it.
Stage ==
    CASE phase = "closing" -> "closing"
      [] phase = "started" \/ core.fsm = "entering" -> "cloud"
      [] phase = "idle" /\ core.fsm = "setup" -> "setup"
      [] OTHER -> "none"

L == INSTANCE Lifecycle WITH state <- core.state, stage <- Stage

-----------------------------------------------------------------------------
(* Core::stop and Core::_errorReceived.  Their outcome r is "none" (refused, *)
(* or not tried), "closing" or "stopped".                                    *)

\* Mutant: _busy is not looked at.
StopOutcomeBusy ==
    IF core.state = "Idle" THEN "none"
    ELSE IF core.state \in {"Connect", "Cloud"} THEN "closing" ELSE "stopped"

\* Core::stop
StopOutcome ==
    IF core.state = "Idle" \/ core.busy THEN "none"
    ELSE IF core.state \in {"Connect", "Cloud"} THEN "closing" ELSE "stopped"

\* Mutant: the application goes on after an error, as devices do.
ErrorOutcomeForced == "none"

\* Core::_errorReceived, for anything but AuthDomainRequired
ErrorOutcome == IF T!Forced THEN "none" ELSE StopOutcome

Stopping(c, r) ==
    CASE r = "none"    -> c
      [] r = "closing" -> [c EXCEPT !.busy = TRUE, !.fsm = "off"]
      [] r = "stopped" -> [c EXCEPT !.state = "Idle", !.busy = FALSE, !.fsm = "off"]

CoreStops(c, r) == core' = Stopping(c, r)
CoreFails(c, r) == core' = [Stopping(c, r) EXCEPT !.state = "Error"]

\* What Core's outcome is called in QccSetup.
SetupAnswer(r) == CASE r = "none" -> "none" [] r = "closing" -> "close" [] r = "stopped" -> "stop"

\* The Setup module has emitted an error in a step that leaves it in s.
TunnelAfterSetup(s, r) ==
    IF r = "none"
    THEN /\ conf' = [conf EXCEPT !.fallback = s.fallback # NoUser]
         /\ UNCHANGED <<client, manager, socket, reattach, cloud, phase>>
    ELSE T!Stop(r)

\* Cloud has emitted sig.
CoreHears(c, sig, r) ==
    /\ r = IF sig = "error" THEN ErrorOutcome ELSE "none"
    /\ CASE sig = "none"    -> core' = c
         [] sig = "connect" -> core' = [c EXCEPT !.state = "Connect"]
         [] sig = "cloud"   -> core' = [c EXCEPT !.state = "Cloud"]
         [] sig = "error"   -> CoreFails(c, r)
    /\ setup' = S!Answered(setup, SetupAnswer(r))

-----------------------------------------------------------------------------
(* The API's clients. *)

\* Core::_authSupplied
Login(u) ==
    /\ setup' = [setup EXCEPT !.auth = u, !.closeAuth = u]
    /\ UNCHANGED <<core, tunnelVars>>

\* The credentials become unusable, or usable again.
CredentialsChange ==
    /\ MaySpoil
    /\ setup' = [setup EXCEPT !.usable = ~@]
    /\ UNCHANGED <<core, tunnelVars>>

\* Core::_start on top of c: the state machine is started unless it runs, and
\* enters the setup state.
Begin(c) ==
    IF c.fsm # "off"
    THEN core' = [c EXCEPT !.busy = FALSE, !.wait = FALSE] /\ UNCHANGED <<setup, tunnelVars>>
    ELSE LET d == [c EXCEPT !.busy = FALSE, !.wait = FALSE, !.fsm = "setup", !.state = "Setup"]
             s == S!Started(setup)
             r == IF T!Forced THEN "none" ELSE "stopped"
         IN \/ /\ S!CanSend(s)
               /\ core' = d
               /\ setup' = S!Send(s)
               /\ UNCHANGED tunnelVars
            \/ /\ ~S!CanSend(s)
               /\ CoreFails(d, r)
               /\ setup' = S!Refuse(s, SetupAnswer(r))
               /\ TunnelAfterSetup(setup', r)

\* Started from the idle state, after an error, or to go on with an
\* organization, as the documented clients do.
OrdinaryStart ==
    \/ core.state \in {"Idle", "Error"}
    \/ core.state = "Setup" /\ core.fsm = "off" /\ phase = "idle"

\* Core::start
Start ==
    /\ ~core.busy
    /\ MayRestart \/ OrdinaryStart
    /\ IF core.state \in {"Connect", "Cloud"} \/ Decongest
       THEN /\ core' = [core EXCEPT !.busy = TRUE,
                                    !.wait = core.state \notin {"Connect", "Cloud"}]
            /\ UNCHANGED <<setup, tunnelVars>>
       ELSE Begin(core)

\* The pause that avoids congestion is over.
DelayedStart == core.wait /\ Begin(core)

\* Core::stop, asked for by the API or because the watchdog reports the client
\* application down
Stop ==
    /\ StopOutcome # "none"
    /\ CoreStops(core, StopOutcome)
    /\ setup' = S!Answered(setup, SetupAnswer(StopOutcome))
    /\ T!Stop(StopOutcome)

\* Core::_configReceived with "setup.agent" = false, as it was: a new Setup
\* module replaces the one there is, whatever it was doing, and Core's state
\* machine is stopped.
Reconfigure ==
    /\ MayReconfigure
    /\ setup' = [S!Fresh(AutoRetry) EXCEPT !.disk = setup.disk,
                                           !.fallbackDisk = setup.fallbackDisk,
                                           !.usable = setup.usable]
    /\ core' = [core EXCEPT !.fsm = "off"]
    /\ conf' = [conf EXCEPT !.fallback = FALSE]
    /\ UNCHANGED <<client, manager, socket, reattach, cloud, phase>>

-----------------------------------------------------------------------------
(* Events of the Setup module. *)

\* Mutant: Core's state machine is not stopped when an organization is asked for.
SetupFailsOnline(s, u, o, fb) ==
    IF o = "domains"
    THEN /\ setup' = S!AnswerFails(s, u, o, fb, "halt")
         /\ UNCHANGED core
         /\ UNCHANGED tunnelVars
    ELSE /\ setup' = S!AnswerFails(s, u, o, fb, SetupAnswer(ErrorOutcome))
         /\ CoreFails(core, ErrorOutcome)
         /\ TunnelAfterSetup(setup', ErrorOutcome)

\* An answer to SetupMsg that it reports as an error: o is "domains" or not
SetupFails(s, u, o, fb) ==
    IF o = "domains"
    THEN /\ setup' = S!AnswerFails(s, u, o, fb, "halt")
         /\ core' = [core EXCEPT !.fsm = "off"]
         /\ UNCHANGED tunnelVars
    ELSE /\ setup' = S!AnswerFails(s, u, o, fb, SetupAnswer(ErrorOutcome))
         /\ CoreFails(core, ErrorOutcome)
         /\ TunnelAfterSetup(setup', ErrorOutcome)

\* Mutant: an answer that comes too late for the setup enters the cloud.
SetupCompletesLate(s, u, fb) ==
    /\ \E written \in SUBSET S!Files : setup' = S!AnswerCompletes(s, u, fb, written)
    /\ core' = IF core.fsm # "cloud" THEN [core EXCEPT !.fsm = "entering"] ELSE core
    /\ TunnelAfterSetup(setup', "none")

\* An answer that completes the setup, or that is completed too late for it
SetupCompletes(s, u, fb) ==
    /\ \E written \in SUBSET S!Files : setup' = S!AnswerCompletes(s, u, fb, written)
    /\ core' = IF core.fsm = "setup" THEN [core EXCEPT !.fsm = "entering"] ELSE core
    /\ TunnelAfterSetup(setup', "none")

SetupReply(own) ==
    \E u \in Users, o \in S!Outcomes, fb \in BOOLEAN :
        /\ IF own THEN setup.request = u ELSE u \in setup.orphans
        /\ LET s == IF own THEN [setup EXCEPT !.request = NoUser]
                           ELSE [setup EXCEPT !.orphans = @ \ {u}]
           IN IF S!Fails(s, o) THEN SetupFails(s, u, o, fb) ELSE SetupCompletes(s, u, fb)

\* QccSetup::_onRetryTimeout
SetupRetry ==
    /\ setup.retry
    /\ LET s == [setup EXCEPT !.retry = FALSE] IN
       IF s.fsm # "error" THEN setup' = s /\ UNCHANGED <<core, tunnelVars>>
       ELSE \/ S!CanSend(s) /\ setup' = S!Send(s) /\ UNCHANGED <<core, tunnelVars>>
            \/ /\ ~S!CanSend(s)
               /\ setup' = S!Refuse(s, SetupAnswer(ErrorOutcome))
               /\ CoreFails(core, ErrorOutcome)
               /\ TunnelAfterSetup(setup', ErrorOutcome)

\* Mutant: _busy is not reset.
CloseReplyBusy ==
    /\ setup.closing
    /\ setup' = S!Closed(setup)
    /\ core' = [core EXCEPT !.state = "Idle"]
    /\ T!CloseReply

\* Core::_setupStopped after the Switchboard was told
CloseReply ==
    /\ setup.closing
    /\ setup' = S!Closed(setup)
    /\ core' = [core EXCEPT !.state = "Idle", !.busy = FALSE]
    /\ T!CloseReply

-----------------------------------------------------------------------------
(* Events of the Cloud module. *)

\* The rest of the handler that completed the setup: Core's cloud state
EnterCloud ==
    /\ core.fsm = "entering"
    /\ \E sig \in T!Signals, r \in T!Reactions :
          /\ CoreHears([core EXCEPT !.fsm = "cloud"], sig, r)
          /\ T!Start(sig, r)

CloudEvent ==
    \/ \E sig \in T!Signals, r \in T!Reactions :
          CoreHears(core, sig, r) /\ T!CloudEvent(sig, r)
    \/ (T!ProcessExits \/ T!ConnTimerRuns) /\ UNCHANGED <<core, setup>>

-----------------------------------------------------------------------------
Init ==
    /\ core = [state |-> "Idle", busy |-> FALSE, fsm |-> "off", wait |-> FALSE]
    /\ setup = S!Fresh(AutoRetry)
    /\ T!Init
    /\ ~conf.agent

\* What the event loop may deliver between two slots.
Event ==
    \/ \E u \in Users : Login(u)
    \/ CredentialsChange
    \/ Start \/ DelayedStart \/ Stop \/ Reconfigure
    \/ \E own \in BOOLEAN : SetupReply(own)
    \/ SetupRetry
    \/ CloseReply
    \/ CloudEvent

Next ==
    \/ EnterCloud
    \/ core.fsm # "entering" /\ Event

Spec == Init /\ [][Next]_vars

\* Requests are answered, fail or time out, and armed timers fire.
Fairness == WF_vars(EnterCloud) /\ WF_vars(DelayedStart) /\ WF_vars(CloseReply)

FairSpec == Spec /\ Fairness

-----------------------------------------------------------------------------
(* Properties. *)

\* Core is an environment as Tunnel assumes it: it starts the cloud only when
\* it is not started, and answers every error it has to by a stop.
CoreDrivesTunnel == T!Spec

\* Core is an environment as QccSetup assumes it.
CoreDrivesSetup == S!Spec

\* The states of the status are those of one session after the other: the cloud
\* is only entered from a setup that was not stopped, whatever answers come late,
\* an error ends the session, and one that is closing ends in Idle.
FollowsLifecycle == L!Spec

\* What the status of the service promises the user: in Idle nothing of a
\* session is left, in either module, and no configuration on the disk.
IdleIsIdle ==
    core.state = "Idle" =>
        /\ phase = "idle" /\ client.process = "none" /\ ~cloud.retry
        /\ setup.fsm = "off" /\ ~setup.retry
        /\ setup.disk = NoUser /\ setup.fallbackDisk = NoUser

\* The comment of _errorReceived: the application stops progress upon critical
\* errors.
ErrorStopsProgress ==
    ~AutoRetry /\ core.state = "Error" => phase \in {"idle", "closing"} /\ core.fsm = "off"

\* What Cloud is told of a fallback configuration is what Setup has.
FallbackAgrees == conf.fallback <=> setup.fallback # NoUser

\* Inside the service too, a setup waits for an answer or for its retry timer,
\* even if its clients start and reconfigure it at any time.
SetupGoesOn == S!SetupIsDriven

\* The comment at the end of Core::stop: _setupStopped will be triggered.
StoppedIsTriggered == phase = "closing" ~> phase = "idle"

\* Whoever set _busy resets it: the service always becomes ready for the next
\* start or stop, but for a stop that finds credentials it cannot use: the
\* Switchboard is not told then (CloseMsg::process fails), _setupStopped does
\* not follow, and the service stays busy.  A start of a service that is
\* connected, which nothing resets either, is for MayRestart to leave out.
BusyEnds == core.busy ~> ~core.busy \/ setup.untold
=============================================================================
