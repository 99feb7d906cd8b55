---------------------------- MODULE ServiceProofs ----------------------------
(***************************************************************************)
(* Proofs about Service.  The invariants of the two modules that Service   *)
(* composes are taken from their own proofs; what is new here is Core's    *)
(* state and what it says of theirs.                                       *)
(*                                                                         *)
(* The first part is about any clients.  The second adds what holds when   *)
(* clients do not start a service that runs, and ends with Core's part in  *)
(* the two modules: it is the environment that they assume.                *)
(***************************************************************************)
EXTENDS Service, TLAPS

TP == INSTANCE TunnelProofs
SP == INSTANCE QccSetupProofs WITH session <- Session

-----------------------------------------------------------------------------
(* T and TP, and S and SP, are instances of one module under two names.      *)

LEMMA SameStarted ==
    ASSUME NEW s
    PROVE  S!Started(s) = SP!Started(s) /\ S!Send(s) = SP!Send(s) /\ S!Closed(s) = SP!Closed(s)
BY DEF S!Started, SP!Started, S!Send, SP!Send, S!Entered, SP!Entered, S!Closed, SP!Closed

LEMMA SameAnswered ==
    ASSUME NEW s, NEW r
    PROVE  S!Answered(s, r) = SP!Answered(s, r)
BY DEF S!Answered, SP!Answered, S!Halt, SP!Halt, S!Stop, SP!Stop, S!Close, SP!Close,
       S!Deinit, SP!Deinit, S!ClearMsg, SP!ClearMsg, S!CanClose, SP!CanClose,
       S!Closable, SP!Closable

LEMMA SameRaise ==
    ASSUME NEW s, NEW r
    PROVE  S!Raise(s, r) = SP!Raise(s, r)
BY SameAnswered DEF S!Raise, SP!Raise, S!Backoff, SP!Backoff

LEMMA SameRefuse ==
    ASSUME NEW s, NEW r
    PROVE  S!Refuse(s, r) = SP!Raise(SP!Unsent(s), r)
BY SameRaise DEF S!Refuse, SP!Unsent, S!Entered, SP!Entered

LEMMA SameReply ==
    ASSUME NEW s, NEW u, NEW o, NEW fb, NEW r, NEW w
    PROVE  /\ S!Fails(s, o) = SP!Fails(s, o)
           /\ S!AnswerFails(s, u, o, fb, r) = SP!AnswerFails(s, u, o, fb, r)
           /\ S!AnswerCompletes(s, u, fb, w) = SP!Complete(SP!Decode(s, u, fb), w)
           /\ S!Files = SP!Files /\ S!Outcomes = SP!Outcomes
BY SameRaise
DEF S!Fails, SP!Fails, S!AnswerFails, SP!AnswerFails, S!Decode, SP!Decode,
    S!AnswerCompletes, S!Complete, SP!Complete, S!WriteFiles, SP!WriteFiles,
    S!Files, SP!Files, S!Outcomes, SP!Outcomes

\* What SetupMsg makes of an answer, in the service.
LEMMA DecodeKeeps ==
    ASSUME NEW s \in SP!SetupType, NEW u \in Users, NEW fb \in BOOLEAN
    PROVE  /\ SP!Decode(s, u, fb) \in SP!SetupType
           /\ SP!Decode(s, u, fb).fsm = s.fsm /\ SP!Decode(s, u, fb).retry = s.retry
           /\ SP!Decode(s, u, fb).autoRetry = s.autoRetry
           /\ SP!Decode(s, u, fb).closing = s.closing
           /\ SP!Decode(s, u, fb).cfg = s.cfg /\ SP!Decode(s, u, fb).request = s.request
           /\ SP!Decode(s, u, fb).orphans = s.orphans
           /\ SP!Decode(s, u, fb).disk = s.disk
           /\ SP!Decode(s, u, fb).fallbackDisk = s.fallbackDisk
BY SP!DecodeFacts, ServiceAssumption

LEMMA CompleteKeeps ==
    ASSUME NEW s \in SP!SetupType, NEW written \in SUBSET SP!Files
    PROVE  /\ SP!Complete(s, written) \in SP!SetupType
           /\ s.fsm # "message" => SP!Complete(s, written).fsm = s.fsm
           /\ SP!Complete(s, written).retry = s.retry
           /\ SP!Complete(s, written).closing = s.closing
           /\ SP!Complete(s, written).autoRetry = s.autoRetry
           /\ SP!Complete(s, written).cfg = s.cfg
           /\ SP!Complete(s, written).fallback = s.fallback
BY SP!CompleteFacts, ServiceAssumption

LEMMA SameTunnel ==
    /\ T!Signals = TP!Signals /\ T!Reactions = TP!Reactions
    /\ T!Forced = TP!Forced
    /\ T!ProcessExits <=> TP!ProcessExits
    /\ T!ConnTimerRuns <=> TP!ConnTimerRuns
    /\ T!CloseReply <=> TP!CloseReply
    /\ T!Init <=> TP!Init
BY DEF T!Signals, TP!Signals, T!Reactions, TP!Reactions, T!Forced, TP!Forced,
       T!ProcessExits, TP!ProcessExits, T!ConnTimerRuns, TP!ConnTimerRuns,
       T!CloseReply, TP!CloseReply, T!StopAll, TP!StopAll, T!Detach, TP!Detach,
       T!Detached, TP!Detached, T!Stopped, TP!Stopped, T!Init, TP!Init,
       T!NoSocket, TP!NoSocket

LEMMA SameStop ==
    ASSUME NEW r
    PROVE  T!Stop(r) <=> TP!Stop(r)
BY DEF T!Stop, TP!Stop, T!CoreAnswers, TP!CoreAnswers, T!StopAll, TP!StopAll,
       T!Detach, TP!Detach, T!Detached, TP!Detached, T!Stopped, TP!Stopped,
       T!NoSocket, TP!NoSocket

LEMMA SameErrors ==
    ASSUME NEW c, NEW m, NEW x, NEW k, NEW sig, NEW r
    PROVE  /\ T!ClientErr(c, k, sig, r) <=> TP!ClientErr(c, k, sig, r)
           /\ T!ManagerErr(m, x, sig, r) <=> TP!ManagerErr(m, x, sig, r)
           /\ T!Launch(k, sig, r) <=> TP!Launch(k, sig, r)
BY DEF T!ClientErr, TP!ClientErr, T!ManagerErr, TP!ManagerErr, T!Launch, TP!Launch,
       T!FallsBack, TP!FallsBack, T!FallBack, TP!FallBack, T!Fail, TP!Fail,
       T!Restart, TP!Restart, T!StopAll, TP!StopAll, T!Detach, TP!Detach,
       T!Detached, TP!Detached, T!Stopped, TP!Stopped, T!Forced, TP!Forced,
       T!Silent, TP!Silent, T!NoSocket, TP!NoSocket, T!Backoff, TP!Backoff

LEMMA SameStart ==
    ASSUME NEW sig, NEW r
    PROVE  T!Start(sig, r) <=> TP!Start(sig, r)
BY SameErrors DEF T!Start, TP!Start, T!CoreAnswers, TP!CoreAnswers

LEMMA SameEvent ==
    ASSUME NEW sig, NEW r
    PROVE  T!CloudEvent(sig, r) <=> TP!CloudEvent(sig, r)
<1> USE SameErrors DEF T!CoreAnswers, TP!CoreAnswers, T!Silent, TP!Silent,
       T!NoSocket, TP!NoSocket
<1>1. T!ProcessStarted(sig, r) <=> TP!ProcessStarted(sig, r)
  BY DEF T!ProcessStarted, TP!ProcessStarted, T!Attach, TP!Attach, T!Detached, TP!Detached,
     T!NewSocket, TP!NewSocket
<1>2. T!ProcessFailedToStart(sig, r) <=> TP!ProcessFailedToStart(sig, r)
  BY DEF T!ProcessFailedToStart, TP!ProcessFailedToStart
<1>3. T!ProcessFinished(sig, r) <=> TP!ProcessFinished(sig, r)
  BY DEF T!ProcessFinished, TP!ProcessFinished
<1>4. T!Connected(sig, r) <=> TP!Connected(sig, r)
  BY DEF T!Connected, TP!Connected
<1>5. T!Refused(sig, r) <=> TP!Refused(sig, r)
  BY DEF T!Refused, TP!Refused
<1>6. T!RefusedForGood(sig, r) <=> TP!RefusedForGood(sig, r)
  BY DEF T!RefusedForGood, TP!RefusedForGood
<1>7. T!PeerClosed(sig, r) <=> TP!PeerClosed(sig, r)
  BY DEF T!PeerClosed, TP!PeerClosed
<1>8. T!RetryAttach(sig, r) <=> TP!RetryAttach(sig, r)
  BY DEF T!RetryAttach, TP!RetryAttach, T!Attach, TP!Attach, T!Detached, TP!Detached,
     T!NewSocket, TP!NewSocket
<1>9. T!StateTimeout(sig, r) <=> TP!StateTimeout(sig, r)
  BY DEF T!StateTimeout, TP!StateTimeout
<1>10. (\E s \in T!ManagedStates : T!StateLine(s, sig, r))
         <=> (\E s \in TP!ManagedStates : TP!StateLine(s, sig, r))
  BY DEF T!StateLine, TP!StateLine, T!ManagedStates, TP!ManagedStates,
     T!Negotiating, TP!Negotiating
<1>11. T!OtherStateLine(sig, r) <=> TP!OtherStateLine(sig, r)
  BY DEF T!OtherStateLine, TP!OtherStateLine
<1>12. T!FatalLine(sig, r) <=> TP!FatalLine(sig, r)
  BY DEF T!FatalLine, TP!FatalLine
<1>13. T!ConnTimeout(sig, r) <=> TP!ConnTimeout(sig, r)
  BY DEF T!ConnTimeout, TP!ConnTimeout
<1>14. T!OnRetry(sig, r) <=> TP!OnRetry(sig, r)
  BY DEF T!OnRetry, TP!OnRetry
<1>15. T!ConnectFails(sig, r) <=> TP!ConnectFails(sig, r)
  BY DEF T!ConnectFails, TP!ConnectFails
<1>16. QED
  BY <1>1, <1>2, <1>3, <1>4, <1>5, <1>6, <1>7, <1>8, <1>9, <1>10, <1>11, <1>12, <1>13, <1>14,
     <1>15
  DEF T!CloudEvent, TP!CloudEvent

-----------------------------------------------------------------------------
(* What holds whatever the clients of the service do.                        *)

CoreType == [state : CoreStates, busy : BOOLEAN, fsm : FsmStates, wait : BOOLEAN]
ConfType == [agent : BOOLEAN, fallback : BOOLEAN]
Phases == {"idle", "started", "closing"}

\* A module without a Config has written no file.
Unwritten(s) == ~s.cfg => s.disk = NoUser /\ s.fallbackDisk = NoUser

\* Core's record c, the Setup module's s, what the cloud reads in f, and the
\* phase p the cloud is in.
Agreed(c, s, f, p) ==
    /\ c \in CoreType /\ s \in SP!SetupType /\ f \in ConfType /\ p \in Phases
    /\ s.autoRetry = AutoRetry /\ ~f.agent
    /\ f.fallback <=> s.fallback # NoUser
    /\ Unwritten(s)
    /\ p = "closing" => c.busy /\ ~c.wait /\ c.fsm = "off"
    /\ c.fsm = "cloud" => p = "started"
    /\ c.state \in {"Connect", "Cloud"} => p # "idle"
    /\ c.state = "Idle" => p = "idle" /\ c.fsm = "off"
    /\ c.wait => c.busy
    /\ s.closing => p = "closing"
    /\ p = "closing" \/ (p = "idle" /\ c.fsm = "off") => SP!Resting(s)
    /\ p = "closing" \/ c.state = "Idle" => SP!Bare(s)

GInv == TP!Consistent /\ Agreed(core, setup, conf, phase)

\* What Core makes of a request to stop.
LEMMA Outcomes ==
    /\ StopOutcome \in {"none", "closing", "stopped"}
    /\ ErrorOutcome \in {"none", StopOutcome}
    /\ StopOutcome # "none" => core.state # "Idle" /\ ~core.busy
    /\ SetupAnswer("none") = "none"
    /\ SetupAnswer("closing") = "close" /\ SetupAnswer("stopped") = "stop"
    /\ {"none", "halt", "stop", "close"} = SP!Reactions
    /\ TP!Reactions = {"none", "closing", "stopped"}
    /\ T!Reactions = {"none", "closing", "stopped"}
BY DEF StopOutcome, ErrorOutcome, SetupAnswer, SP!Reactions, TP!Reactions, T!Reactions

\* A stop brings both modules to rest, and leaves no configuration in either.
LEMMA StopsAgree ==
    ASSUME NEW c \in CoreType, NEW s \in SP!SetupType, NEW r \in {"closing", "stopped"},
           s.autoRetry = AutoRetry, ~s.closing, ~c.wait,
           r = "closing" => c.state # "Idle",
           conf \in ConfType, ~conf.agent,
           core' \in {Stopping(c, r), [Stopping(c, r) EXCEPT !.state = "Error"]},
           setup' = SP!Answered(s, SetupAnswer(r)),
           conf' = [conf EXCEPT !.fallback = FALSE],
           phase' = IF r = "closing" THEN "closing" ELSE "idle"
    PROVE  Agreed(core', setup', conf', phase')
<1>1. /\ setup' \in SP!SetupType /\ setup'.autoRetry = AutoRetry
      /\ SP!Resting(setup') /\ SP!Bare(setup') /\ setup'.fallback = NoUser
      /\ r = "stopped" => ~setup'.closing
  <2>1. SetupAnswer(r) \in SP!Reactions /\ SetupAnswer(r) \in {"stop", "close"}
        /\ (r = "stopped" => SetupAnswer(r) # "close")
    BY Outcomes
  <2>2. QED
    BY <2>1, SP!AnsweredFacts, ServiceAssumption
<1>2. conf' \in ConfType /\ ~conf'.agent /\ ~conf'.fallback
  BY DEF ConfType
<1>3. /\ core' \in CoreType /\ core'.fsm = "off" /\ ~core'.wait
      /\ r = "closing" => core'.busy /\ core'.state # "Idle"
      /\ r = "stopped" => core'.state \in {"Idle", "Error"}
  BY DEF Stopping, CoreType, CoreStates, FsmStates
<1>4. Unwritten(setup')
  BY <1>1 DEF SP!Bare, Unwritten
<1>5. QED
  BY <1>1, <1>2, <1>3, <1>4 DEF Agreed, Phases

\* The cloud's own invariant does not depend on what Core does to it.
LEMMA CloudKeeps ==
    ASSUME TP!Consistent, TP!AnyStep \/ UNCHANGED tunnelVars
    PROVE  TP!Consistent'
BY TP!AnyStepKeeps, ServiceAssumption DEF tunnelVars, TP!vars

LEMMA ConfWritten ==
    ASSUME GInv, NEW b \in BOOLEAN, conf' = [conf EXCEPT !.fallback = b],
           UNCHANGED <<client, manager, socket, reattach, cloud, phase>>
    PROVE  TP!Consistent' /\ conf' \in ConfType /\ ~conf'.agent /\ conf'.fallback = b
<1>1. conf' \in ConfType /\ ~conf'.agent /\ conf'.fallback = b
  BY DEF GInv, Agreed, ConfType
<1>2. TP!AnyStep
  BY <1>1 DEF TP!AnyStep, ConfType
<1>3. QED
  BY <1>1, <1>2, CloudKeeps DEF GInv

LEMMA CoreStopsCloud ==
    ASSUME GInv, NEW r \in {"closing", "stopped"}, T!Stop(r)
    PROVE  /\ TP!Consistent'
           /\ conf' = [conf EXCEPT !.fallback = FALSE]
           /\ phase' = IF r = "closing" THEN "closing" ELSE "idle"
<1>1. TP!AnyStep
  BY SameStop, Outcomes DEF TP!AnyStep
<1>2. TP!Consistent'
  BY <1>1, CloudKeeps DEF GInv
<1>3. QED
  BY <1>2 DEF T!Stop, T!CoreAnswers

\* The Setup module in state s, which is the module's but for the request or the
\* timer that has ended, emits an error, and Core stops the session or goes on.
LEMMA SetupErrorAgrees ==
    ASSUME GInv, NEW s \in SP!SetupType, NEW r \in {"none", "closing", "stopped"},
           s.autoRetry = AutoRetry, s.closing = setup.closing, Unwritten(s),
           phase = "closing" \/ (phase = "idle" /\ core.fsm = "off") => SP!Resting(s),
           phase = "closing" \/ core.state = "Idle" => SP!Bare(s),
           r # "none" => r = StopOutcome,
           setup' = SP!Raise(s, SetupAnswer(r)),
           CoreFails(core, r),
           TunnelAfterSetup(setup', r)
    PROVE  GInv'
<1>1. Agreed(core, setup, conf, phase)
  BY DEF GInv
<1>2. CASE r = "none"
  <2>1. /\ setup' \in SP!SetupType /\ setup'.autoRetry = AutoRetry
        /\ s.fsm # "message" => setup' = s
        /\ setup'.closing = s.closing /\ setup'.cfg = s.cfg
        /\ setup'.request = s.request /\ setup'.orphans = s.orphans
        /\ setup'.disk = s.disk /\ setup'.fallbackDisk = s.fallbackDisk
    BY <1>2, SP!RaiseFacts, Outcomes, ServiceAssumption
  <2>2. core' = [core EXCEPT !.state = "Error"]
    BY <1>2 DEF CoreFails, Stopping
  <2>3. /\ core' \in CoreType /\ core'.state = "Error"
        /\ core'.busy = core.busy /\ core'.fsm = core.fsm /\ core'.wait = core.wait
    BY <1>1, <2>2 DEF Agreed, CoreType, CoreStates
  <2>4. /\ TP!Consistent' /\ conf' \in ConfType /\ ~conf'.agent
        /\ conf'.fallback <=> setup'.fallback # NoUser
        /\ phase' = phase
    BY <1>2, ConfWritten DEF TunnelAfterSetup
  <2>5. SP!Resting(s) => SP!Resting(setup')
    BY <2>1 DEF SP!Resting
  <2>6. SP!Bare(s) => SP!Bare(setup')
    BY <2>1 DEF SP!Bare
  <2>7. Unwritten(setup')
    BY <2>1 DEF Unwritten
  <2>8. Agreed(core', setup', conf', phase')
    BY <1>1, <2>1, <2>3, <2>4, <2>5, <2>6, <2>7 DEF Agreed
  <2>9. QED
    BY <2>4, <2>8 DEF GInv
<1>3. CASE r \in {"closing", "stopped"}
  <2>1. /\ TP!Consistent'
        /\ conf' = [conf EXCEPT !.fallback = FALSE]
        /\ phase' = IF r = "closing" THEN "closing" ELSE "idle"
    BY <1>3, CoreStopsCloud DEF TunnelAfterSetup
  <2>2. core.state # "Idle" /\ ~core.busy
    BY <1>3, Outcomes
  <2>3. ~s.closing /\ ~core.wait /\ core \in CoreType /\ conf \in ConfType /\ ~conf.agent
    BY <1>1, <2>2 DEF Agreed
  <2>4. setup' = SP!Answered(s, SetupAnswer(r))
    BY <1>3, SP!RaiseFacts, Outcomes, ServiceAssumption
  <2>5. Agreed(core', setup', conf', phase')
    BY <1>3, <2>1, <2>2, <2>3, <2>4, StopsAgree DEF CoreFails
  <2>6. QED
    BY <2>1, <2>5 DEF GInv
<1>4. QED
  BY <1>2, <1>3

LEMMA InitAgrees == Init => GInv
<1> SUFFICES ASSUME Init PROVE GInv
  OBVIOUS
<1>1. TP!Consistent
  BY TP!InitInv, TP!InvIsConsistent, SameTunnel, ServiceAssumption DEF Init
<1>2. S!Fresh(AutoRetry) \in SP!SetupType
  BY SP!Values, ServiceAssumption DEF S!Fresh, SP!SetupType
<1>3. conf \in ConfType /\ ~conf.fallback /\ phase = "idle"
  BY DEF Init, T!Init, ConfType
<1>4. Agreed(core, setup, conf, phase)
  BY <1>2, <1>3 DEF Init, S!Fresh, Agreed, CoreType, CoreStates, FsmStates, Phases, Unwritten,
     SP!Resting, SP!Bare
<1>5. QED
  BY <1>1, <1>4 DEF GInv

LEMMA LoginAgrees ==
    ASSUME GInv, NEW u \in Users, Login(u)
    PROVE  GInv'
<1>1. setup' = [setup EXCEPT !.auth = u, !.closeAuth = u] /\ UNCHANGED core /\ UNCHANGED tunnelVars
  BY DEF Login
<1>2. u \in SP!Accounts
  BY DEF SP!Accounts
<1>3. setup' \in SP!SetupType
  BY <1>1, <1>2 DEF GInv, Agreed, SP!SetupType
<1>4. Agreed(core', setup', conf', phase')
  BY <1>1, <1>3 DEF GInv, Agreed, SP!SetupType, SP!Resting, SP!Bare, Unwritten, tunnelVars
<1>5. QED
  BY <1>1, <1>4, CloudKeeps DEF GInv

LEMMA CredentialsChangeAgrees ==
    ASSUME GInv, CredentialsChange
    PROVE  GInv'
<1>1. /\ setup' = [setup EXCEPT !.usable = ~setup.usable]
      /\ UNCHANGED core /\ UNCHANGED tunnelVars
  BY DEF CredentialsChange
<1>2. setup' \in SP!SetupType
  BY <1>1 DEF GInv, Agreed, SP!SetupType
<1>3. Agreed(core', setup', conf', phase')
  BY <1>1, <1>2 DEF GInv, Agreed, SP!SetupType, SP!Resting, SP!Bare, Unwritten, tunnelVars
<1>4. QED
  BY <1>1, <1>3, CloudKeeps DEF GInv

\* Only Core's flags are written, while the cloud is not closing.
LEMMA FlagsAgree ==
    ASSUME GInv, NEW b \in BOOLEAN, NEW w \in BOOLEAN,
           core' = [core EXCEPT !.busy = b, !.wait = w],
           phase # "closing", w => b,
           UNCHANGED <<setup, tunnelVars>>
    PROVE  GInv'
<1>1. /\ core' \in CoreType /\ core'.state = core.state /\ core'.fsm = core.fsm
      /\ core'.busy = b /\ core'.wait = w
  BY DEF GInv, Agreed, CoreType
<1>2. Agreed(core', setup', conf', phase')
  BY <1>1 DEF GInv, Agreed, tunnelVars
<1>3. QED
  BY <1>2, CloudKeeps DEF GInv

\* The state machine is started, or runs already.
LEMMA BeginAgrees ==
    ASSUME GInv, phase # "closing", Begin(core)
    PROVE  GInv'
<1>1. Agreed(core, setup, conf, phase)
  BY DEF GInv
<1>2. CASE /\ core' = [core EXCEPT !.busy = FALSE, !.wait = FALSE]
           /\ UNCHANGED <<setup, tunnelVars>>
  BY <1>2, FlagsAgree
<1> DEFINE d == [core EXCEPT !.busy = FALSE, !.wait = FALSE, !.fsm = "setup", !.state = "Setup"]
           s == S!Started(setup)
           r == IF T!Forced THEN "none" ELSE "stopped"
<1>3. /\ d \in CoreType /\ d.fsm = "setup" /\ d.state = "Setup" /\ ~d.busy /\ ~d.wait
  BY <1>1 DEF Agreed, CoreType, CoreStates, FsmStates
<1>4. /\ s \in SP!SetupType /\ s.cfg /\ ~s.closing
      /\ s.autoRetry = AutoRetry /\ s.fallback = setup.fallback
  BY <1>1, SP!StartedFacts, SameStarted, ServiceAssumption DEF Agreed
<1>5. CASE S!CanSend(s) /\ core' = d /\ setup' = S!Send(s) /\ UNCHANGED tunnelVars
  <2> HIDE DEF s, d
  <2>1. /\ setup' \in SP!SetupType /\ setup'.cfg /\ ~setup'.closing
        /\ setup'.autoRetry = AutoRetry /\ setup'.fallback = setup.fallback
    BY <1>4, <1>5, SP!SendFacts, SameStarted, ServiceAssumption DEF S!CanSend
  <2>2. Agreed(core', setup', conf', phase')
    BY <1>1, <1>3, <1>5, <2>1 DEF Agreed, tunnelVars, Unwritten
  <2>3. QED
    BY <1>5, <2>2, CloudKeeps DEF GInv
<1>6. CASE /\ CoreFails(d, r)
           /\ setup' = S!Refuse(s, SetupAnswer(r))
           /\ TunnelAfterSetup(setup', r)
  <2> HIDE DEF s, d
  <2> DEFINE t == SP!Unsent(s)
  <2>1. /\ t \in SP!SetupType /\ t.cfg /\ ~t.closing
        /\ t.autoRetry = AutoRetry /\ t.fallback = setup.fallback
    BY <1>4, SP!UnsentFacts, ServiceAssumption
  <2>2. setup' = SP!Raise(t, SetupAnswer(r))
    BY <1>6, SameRefuse
  <2> HIDE DEF t
  <2>3. CASE r = "none"
    <3>1. /\ setup' \in SP!SetupType /\ setup'.cfg /\ ~setup'.closing
          /\ setup'.autoRetry = AutoRetry /\ setup'.fallback = setup.fallback
      BY <2>1, <2>2, <2>3, SP!RaiseFacts, Outcomes, ServiceAssumption
    <3>2. core' = [d EXCEPT !.state = "Error"]
      BY <1>6, <2>3 DEF CoreFails, Stopping
    <3>3. core' \in CoreType /\ core'.state = "Error" /\ core'.fsm = "setup" /\ ~core'.wait
      BY <1>3, <3>2 DEF CoreType, CoreStates
    <3>4. /\ TP!Consistent' /\ conf' \in ConfType /\ ~conf'.agent
          /\ conf'.fallback <=> setup'.fallback # NoUser
          /\ phase' = phase
      BY <1>6, <2>3, ConfWritten DEF TunnelAfterSetup
    <3>5. Agreed(core', setup', conf', phase')
      BY <1>1, <3>1, <3>3, <3>4 DEF Agreed, Unwritten
    <3>6. QED
      BY <3>4, <3>5 DEF GInv
  <2>4. CASE r = "stopped"
    <3>1. /\ TP!Consistent'
          /\ conf' = [conf EXCEPT !.fallback = FALSE]
          /\ phase' = "idle"
      BY <1>6, <2>4, CoreStopsCloud DEF TunnelAfterSetup
    <3>2. setup' = SP!Answered(t, SetupAnswer(r))
      BY <2>1, <2>2, <2>4, SP!RaiseFacts, Outcomes, ServiceAssumption
    <3>3. core' = [Stopping(d, r) EXCEPT !.state = "Error"]
      BY <1>6 DEF CoreFails
    <3>4. conf \in ConfType /\ ~conf.agent
      BY <1>1 DEF Agreed
    <3>5. Agreed(core', setup', conf', phase')
      BY <1>3, <2>1, <2>4, <3>1, <3>2, <3>3, <3>4, StopsAgree
    <3>6. QED
      BY <3>1, <3>5 DEF GInv
  <2>5. QED
    BY <2>3, <2>4
<1>7. QED
  BY <1>2, <1>5, <1>6 DEF Begin

LEMMA StartAgrees ==
    ASSUME GInv, Start
    PROVE  GInv'
<1>1. phase # "closing"
  BY DEF GInv, Agreed, Start
<1>2. CASE Begin(core)
  BY <1>1, <1>2, BeginAgrees
<1>3. CASE /\ core' = [core EXCEPT !.busy = TRUE,
                                    !.wait = core.state \notin {"Connect", "Cloud"}]
           /\ UNCHANGED <<setup, tunnelVars>>
  <2>1. (core.state \notin {"Connect", "Cloud"}) \in BOOLEAN
    OBVIOUS
  <2>2. QED
    BY <1>1, <1>3, <2>1, FlagsAgree
<1>4. QED
  BY <1>2, <1>3 DEF Start

LEMMA DelayedStartAgrees ==
    ASSUME GInv, DelayedStart
    PROVE  GInv'
<1>1. phase # "closing"
  BY DEF GInv, Agreed, DelayedStart
<1>2. QED
  BY <1>1, BeginAgrees DEF DelayedStart

LEMMA StopAgrees ==
    ASSUME GInv, Stop
    PROVE  GInv'
<1>1. /\ StopOutcome \in {"closing", "stopped"} /\ core.state # "Idle" /\ ~core.busy
  BY Outcomes DEF Stop
<1>2. /\ TP!Consistent'
      /\ conf' = [conf EXCEPT !.fallback = FALSE]
      /\ phase' = IF StopOutcome = "closing" THEN "closing" ELSE "idle"
  BY <1>1, CoreStopsCloud DEF Stop
<1>3. /\ core \in CoreType /\ setup \in SP!SetupType /\ conf \in ConfType
      /\ setup.autoRetry = AutoRetry /\ ~setup.closing /\ ~core.wait /\ ~conf.agent
  BY <1>1 DEF GInv, Agreed
<1>4. /\ core' = Stopping(core, StopOutcome)
      /\ setup' = SP!Answered(setup, SetupAnswer(StopOutcome))
  BY SameAnswered DEF Stop, CoreStops
<1>5. Agreed(core', setup', conf', phase')
  BY <1>1, <1>2, <1>3, <1>4, StopsAgree
<1>6. QED
  BY <1>2, <1>5 DEF GInv

LEMMA ReconfigureAgrees ==
    ASSUME GInv, Reconfigure
    PROVE  GInv'
<1>1. Agreed(core, setup, conf, phase)
  BY DEF GInv
<1>2. S!Fresh(AutoRetry) \in SP!SetupType
  BY SP!Values, ServiceAssumption DEF S!Fresh, SP!SetupType
<1>3. setup' = [S!Fresh(AutoRetry) EXCEPT !.disk = setup.disk,
                                          !.fallbackDisk = setup.fallbackDisk,
                                          !.usable = setup.usable]
  BY DEF Reconfigure
<1>4. setup' \in SP!SetupType
  BY <1>1, <1>2, <1>3 DEF Agreed, SP!SetupType
<1>5. /\ setup'.cfg /\ setup'.request = NoUser /\ setup'.orphans = {} /\ ~setup'.closing
      /\ setup'.fsm = "off" /\ ~setup'.retry /\ setup'.fallback = NoUser
      /\ setup'.disk = setup.disk /\ setup'.fallbackDisk = setup.fallbackDisk
      /\ setup'.autoRetry = AutoRetry
  BY <1>3 DEF S!Fresh
<1>6. TP!Consistent' /\ conf' \in ConfType /\ ~conf'.agent /\ ~conf'.fallback /\ phase' = phase
  BY ConfWritten DEF Reconfigure
<1>7. /\ core' \in CoreType /\ core'.fsm = "off"
      /\ core'.state = core.state /\ core'.busy = core.busy /\ core'.wait = core.wait
  BY <1>1 DEF Reconfigure, Agreed, CoreType, FsmStates
<1>8. Agreed(core', setup', conf', phase')
  BY <1>1, <1>4, <1>5, <1>6, <1>7 DEF Agreed, Unwritten, SP!Resting, SP!Bare
<1>9. QED
  BY <1>6, <1>8 DEF GInv

LEMMA CloseReplyAgrees ==
    ASSUME GInv, CloseReply
    PROVE  GInv'
<1>1. Agreed(core, setup, conf, phase) /\ phase = "closing"
  BY DEF GInv, Agreed, CloseReply
<1>2. setup' = [setup EXCEPT !.closing = FALSE, !.auth = NoUser, !.closeAuth = NoUser]
  BY DEF CloseReply, S!Closed
<1>3. setup' \in SP!SetupType
  BY <1>1, <1>2, SP!Values, ServiceAssumption DEF Agreed, SP!SetupType
<1>4. TP!Consistent' /\ phase' = "idle" /\ conf' = conf
  <2>1. TP!AnyStep
    BY SameTunnel DEF CloseReply, TP!AnyStep
  <2>2. QED
    BY <2>1, CloudKeeps DEF GInv, CloseReply, T!CloseReply
<1>5. core' \in CoreType /\ core'.state = "Idle" /\ ~core'.busy
      /\ core'.fsm = "off" /\ ~core'.wait
  BY <1>1 DEF Agreed, CloseReply, CoreType, CoreStates
<1>6. Agreed(core', setup', conf', phase')
  BY <1>1, <1>2, <1>3, <1>4, <1>5 DEF Agreed, SP!SetupType, SP!Resting, SP!Bare, Unwritten, Phases
<1>7. QED
  BY <1>4, <1>6 DEF GInv

\* An answer that halts the Setup module, as an organization is to be chosen.
LEMMA HaltAgrees ==
    ASSUME GInv, NEW s \in SP!SetupType,
           s.autoRetry = AutoRetry, s.closing = setup.closing, s.fallback = setup.fallback,
           phase = "closing" \/ core.state = "Idle" => SP!Bare(s),
           setup' = SP!Raise(s, "halt"),
           core' = [core EXCEPT !.fsm = "off"],
           UNCHANGED tunnelVars
    PROVE  GInv'
<1>1. /\ setup' \in SP!SetupType /\ setup'.autoRetry = AutoRetry
      /\ SP!Resting(setup') /\ setup'.closing = s.closing
      /\ setup'.fallback = s.fallback
      /\ setup'.disk = NoUser /\ setup'.fallbackDisk = NoUser
      /\ SP!Bare(s) => SP!Bare(setup')
  BY SP!RaiseFacts, SP!AnsweredFacts, Outcomes, ServiceAssumption
<1>2. /\ core' \in CoreType /\ core'.fsm = "off"
      /\ core'.state = core.state /\ core'.busy = core.busy /\ core'.wait = core.wait
  BY DEF GInv, Agreed, CoreType, FsmStates
<1>3. Agreed(core', setup', conf', phase')
  BY <1>1, <1>2 DEF GInv, Agreed, Unwritten, tunnelVars
<1>4. QED
  BY <1>3, CloudKeeps DEF GInv

\* An answer to u's request may come, and is taken from the module's state.
Awaited(own, u) == IF own THEN setup.request = u ELSE u \in setup.orphans

Taking(own, u) ==
    IF own THEN [setup EXCEPT !.request = NoUser] ELSE [setup EXCEPT !.orphans = @ \ {u}]

LEMMA Taken ==
    ASSUME GInv, NEW own \in BOOLEAN, NEW u \in Users, NEW s,
           Awaited(own, u), s = Taking(own, u)
    PROVE  /\ s \in SP!SetupType
           /\ s.fsm = setup.fsm /\ s.retry = setup.retry /\ s.cfg = setup.cfg
           /\ s.autoRetry = AutoRetry /\ s.closing = setup.closing
           /\ s.fallback = setup.fallback /\ Unwritten(s)
           /\ s.disk = setup.disk /\ s.fallbackDisk = setup.fallbackDisk
           /\ s.request = IF own THEN NoUser ELSE setup.request
           /\ phase = "closing" \/ (phase = "idle" /\ core.fsm = "off") => SP!Resting(s)
           /\ phase = "closing" \/ core.state = "Idle" => SP!Bare(s) /\ ~s.cfg
<1>1. Agreed(core, setup, conf, phase)
  BY DEF GInv
<1>2. CASE own
  <2>1. s = [setup EXCEPT !.request = NoUser] /\ setup.request = u
    BY <1>2 DEF Awaited, Taking
  <2>2. s \in SP!SetupType
    BY <1>1, <2>1, SP!Values, ServiceAssumption DEF Agreed, SP!SetupType
  <2>3. u # NoUser
    BY ServiceAssumption
  <2>4. QED
    BY <1>1, <1>2, <2>1, <2>2, <2>3 DEF Agreed, SP!SetupType, SP!Resting, SP!Bare, Unwritten
<1>3. CASE ~own
  <2>1. s = [setup EXCEPT !.orphans = @ \ {u}] /\ u \in setup.orphans
    BY <1>3 DEF Awaited, Taking
  <2>2. setup.orphans \ {u} \in SUBSET Users
    BY <1>1 DEF Agreed, SP!SetupType
  <2>3. s \in SP!SetupType
    BY <1>1, <2>1, <2>2 DEF Agreed, SP!SetupType
  <2>4. QED
    BY <1>1, <1>3, <2>1, <2>3 DEF Agreed, SP!SetupType, SP!Resting, SP!Bare, Unwritten
<1>4. QED
  BY <1>2, <1>3

LEMMA ReplyAgrees ==
    ASSUME GInv, NEW own \in BOOLEAN, SetupReply(own)
    PROVE  GInv'
<1>1. PICK u \in Users, o \in S!Outcomes, fb \in BOOLEAN :
        /\ Awaited(own, u)
        /\ IF S!Fails(Taking(own, u), o) THEN SetupFails(Taking(own, u), u, o, fb)
                                        ELSE SetupCompletes(Taking(own, u), u, fb)
  BY DEF SetupReply, Awaited, Taking
<1>2. PICK s : s = Taking(own, u)
  OBVIOUS
<1>3. /\ s \in SP!SetupType
      /\ s.fsm = setup.fsm /\ s.retry = setup.retry /\ s.cfg = setup.cfg
      /\ s.autoRetry = AutoRetry /\ s.closing = setup.closing
      /\ s.fallback = setup.fallback /\ Unwritten(s)
      /\ phase = "closing" \/ (phase = "idle" /\ core.fsm = "off") => SP!Resting(s)
      /\ phase = "closing" \/ core.state = "Idle" => SP!Bare(s) /\ ~s.cfg
  BY <1>1, <1>2, Taken
<1>4. Agreed(core, setup, conf, phase)
  BY DEF GInv
<1>5. CASE SetupFails(s, u, o, fb) /\ o = "domains"
  <2>1. setup' = SP!Raise(s, "halt")
    BY <1>5, SameReply DEF SetupFails, SP!AnswerFails
  <2>2. QED
    BY <1>3, <1>5, <2>1, HaltAgrees DEF SetupFails
<1>6. CASE SetupFails(s, u, o, fb) /\ o # "domains"
  <2> DEFINE t == IF o \in {"rejected", "domains"} THEN s ELSE SP!Decode(s, u, fb)
  <2>1. /\ setup' = SP!Raise(t, SetupAnswer(ErrorOutcome))
        /\ CoreFails(core, ErrorOutcome)
        /\ TunnelAfterSetup(setup', ErrorOutcome)
    BY <1>6, SameReply DEF SetupFails, SP!AnswerFails
  <2>2. /\ t \in SP!SetupType
        /\ t.fsm = s.fsm /\ t.retry = s.retry /\ t.cfg = s.cfg
        /\ t.autoRetry = s.autoRetry /\ t.closing = s.closing
        /\ t.disk = s.disk /\ t.fallbackDisk = s.fallbackDisk
        /\ t.request = s.request /\ t.orphans = s.orphans
    BY <1>3, DecodeKeeps
  <2> HIDE DEF t
  <2>3. /\ Unwritten(t)
        /\ phase = "closing" \/ (phase = "idle" /\ core.fsm = "off") => SP!Resting(t)
        /\ phase = "closing" \/ core.state = "Idle" => SP!Bare(t)
    BY <1>3, <2>2 DEF Unwritten, SP!Resting, SP!Bare
  <2>4. QED
    BY <1>3, <2>1, <2>2, <2>3, Outcomes, SetupErrorAgrees
<1>7. CASE SetupCompletes(s, u, fb) /\ ~S!Fails(s, o)
  <2>1. s.cfg /\ phase # "closing" /\ core.state # "Idle"
    BY <1>3, <1>7 DEF S!Fails
  <2>2. PICK written \in SUBSET SP!Files : setup' = SP!Complete(SP!Decode(s, u, fb), written)
    BY <1>7, SameReply DEF SetupCompletes
  <2>3. /\ setup' \in SP!SetupType /\ setup'.autoRetry = AutoRetry
        /\ s.fsm # "message" => setup'.fsm = s.fsm
        /\ setup'.retry = s.retry /\ setup'.closing = s.closing /\ setup'.cfg
    <3> DEFINE d == SP!Decode(s, u, fb)
    <3>1. /\ d \in SP!SetupType
          /\ d.fsm = s.fsm /\ d.retry = s.retry /\ d.cfg = s.cfg
          /\ d.autoRetry = s.autoRetry /\ d.closing = s.closing
      BY <1>3, DecodeKeeps
    <3>2. setup' = SP!Complete(d, written)
      BY <2>2
    <3> HIDE DEF d
    <3>3. QED
      BY <1>3, <2>1, <3>1, <3>2, CompleteKeeps
  <2>4. /\ TP!Consistent' /\ conf' \in ConfType /\ ~conf'.agent
        /\ conf'.fallback <=> setup'.fallback # NoUser
        /\ phase' = phase
    BY <1>7, ConfWritten DEF SetupCompletes, TunnelAfterSetup
  <2>5. /\ core' \in CoreType
        /\ core'.state = core.state /\ core'.busy = core.busy /\ core'.wait = core.wait
        /\ core'.fsm = IF core.fsm = "setup" THEN "entering" ELSE core.fsm
    BY <1>4, <1>7 DEF SetupCompletes, Agreed, CoreType, FsmStates
  <2>6. Agreed(core', setup', conf', phase')
    BY <1>3, <1>4, <2>1, <2>3, <2>4, <2>5 DEF Agreed, Unwritten, SP!Resting
  <2>7. QED
    BY <2>4, <2>6 DEF GInv
<1>8. QED
  BY <1>1, <1>2, <1>5, <1>6, <1>7

LEMMA SetupRetryAgrees ==
    ASSUME GInv, SetupRetry
    PROVE  GInv'
<1> DEFINE s == [setup EXCEPT !.retry = FALSE]
<1>1. Agreed(core, setup, conf, phase) /\ setup.retry
  BY DEF GInv, SetupRetry
<1>2. /\ s \in SP!SetupType
      /\ s.fsm = setup.fsm /\ s.cfg = setup.cfg /\ ~s.retry
      /\ s.autoRetry = AutoRetry /\ s.closing = setup.closing
      /\ s.fallback = setup.fallback /\ Unwritten(s)
      /\ s.disk = setup.disk /\ s.fallbackDisk = setup.fallbackDisk
      /\ s.request = setup.request /\ s.orphans = setup.orphans
  <2>1. s \in SP!SetupType
    BY <1>1 DEF Agreed, SP!SetupType
  <2>2. QED
    BY <1>1, <2>1 DEF Agreed, SP!SetupType, Unwritten
<1>3. phase # "closing" /\ ~(phase = "idle" /\ core.fsm = "off") /\ core.state # "Idle"
  BY <1>1 DEF Agreed, SP!Resting
<1> HIDE DEF s
<1>4. CASE setup' = s /\ UNCHANGED <<core, tunnelVars>>
  <2>1. Agreed(core', setup', conf', phase')
    BY <1>1, <1>2, <1>3, <1>4 DEF Agreed, tunnelVars
  <2>2. QED
    BY <1>4, <2>1, CloudKeeps DEF GInv
<1>5. CASE S!CanSend(s) /\ setup' = S!Send(s) /\ UNCHANGED <<core, tunnelVars>>
  <2>1. /\ setup' \in SP!SetupType /\ setup'.autoRetry = AutoRetry
        /\ setup'.closing = setup.closing /\ setup'.fallback = setup.fallback
        /\ Unwritten(setup')
    BY <1>2, <1>5, SP!SendFacts, SameStarted, ServiceAssumption DEF Unwritten, S!CanSend
  <2>2. Agreed(core', setup', conf', phase')
    BY <1>1, <1>3, <1>5, <2>1 DEF Agreed, tunnelVars
  <2>3. QED
    BY <1>5, <2>2, CloudKeeps DEF GInv
<1>6. CASE /\ setup' = S!Refuse(s, SetupAnswer(ErrorOutcome))
           /\ CoreFails(core, ErrorOutcome)
           /\ TunnelAfterSetup(setup', ErrorOutcome)
  <2> DEFINE t == SP!Unsent(s)
  <2>1. /\ t \in SP!SetupType /\ t.autoRetry = AutoRetry
        /\ t.closing = setup.closing /\ Unwritten(t)
    BY <1>2, SP!UnsentFacts, ServiceAssumption DEF Unwritten
  <2>2. setup' = SP!Raise(t, SetupAnswer(ErrorOutcome))
    BY <1>6, SameRefuse
  <2> HIDE DEF t
  <2>3. QED
    BY <1>3, <1>6, <2>1, <2>2, Outcomes, SetupErrorAgrees
<1>7. QED
  BY <1>4, <1>5, <1>6 DEF SetupRetry, s

\* The cloud reports sig to Core, which is in c by then, and Core's answer is r;
\* p is the phase of the cloud unless the answer changes it.
LEMMA CloudAgrees ==
    ASSUME GInv, NEW c, NEW p, NEW sig \in TP!Signals, NEW r \in {"none", "closing", "stopped"},
           \/ c = core /\ p = phase
           \/ /\ c = [core EXCEPT !.fsm = "cloud"] /\ p = "started"
              /\ core.fsm = "entering",
           CoreHears(c, sig, r), TP!CoreAnswers(p, r), TP!AnyStep,
           sig \in {"connect", "cloud"} => p # "idle"
    PROVE  GInv'
<1>1. Agreed(core, setup, conf, phase) /\ TP!Consistent'
  BY CloudKeeps DEF GInv
<1>2. /\ c \in CoreType
      /\ c.state = core.state /\ c.busy = core.busy /\ c.wait = core.wait
  BY <1>1 DEF Agreed, CoreType, FsmStates
<1>3. setup' = SP!Answered(setup, SetupAnswer(r))
  BY SameAnswered DEF CoreHears
<1>4. CASE r = "none"
  <2>1. setup' = setup /\ conf' = conf /\ phase' = p
    BY <1>3, <1>4, Outcomes DEF SP!Answered, TP!CoreAnswers
  <2>2. /\ core' \in CoreType /\ core'.fsm = c.fsm
        /\ core'.busy = core.busy /\ core'.wait = core.wait
        /\ core'.state \in {core.state, "Error", "Connect", "Cloud"}
        /\ core'.state \in {"Connect", "Cloud"} => core'.state = core.state \/ p # "idle"
    <3>1. core' \in {c, [c EXCEPT !.state = "Connect"], [c EXCEPT !.state = "Cloud"],
                      [c EXCEPT !.state = "Error"]}
      BY <1>4 DEF CoreHears, CoreFails, Stopping, TP!Signals
    <3>2. core' \in {[c EXCEPT !.state = "Connect"], [c EXCEPT !.state = "Cloud"]}
             => p # "idle" \/ core' = c \/ core' = [c EXCEPT !.state = "Error"]
      BY <1>4 DEF CoreHears, CoreFails, Stopping, TP!Signals
    <3>3. QED
      BY <1>2, <3>1, <3>2 DEF CoreType, CoreStates
  <2>3. c.fsm = core.fsm \/ (c.fsm = "cloud" /\ core.fsm = "entering" /\ p = "started")
    BY <1>1 DEF Agreed, CoreType
  <2>4. Agreed(core', setup', conf', phase')
    BY <1>1, <2>1, <2>2, <2>3 DEF Agreed, Phases
  <2>5. QED
    BY <1>1, <2>4 DEF GInv
<1>5. CASE r \in {"closing", "stopped"}
  <2>1. r = StopOutcome /\ core' = [Stopping(c, r) EXCEPT !.state = "Error"]
    BY <1>5, Outcomes DEF CoreHears, CoreFails
  <2>2. core.state # "Idle" /\ ~core.busy
    BY <1>5, <2>1, Outcomes
  <2>3. /\ ~setup.closing /\ ~c.wait /\ setup \in SP!SetupType /\ setup.autoRetry = AutoRetry
        /\ conf \in ConfType /\ ~conf.agent
    BY <1>1, <1>2, <2>2 DEF Agreed
  <2>4. /\ conf' = [conf EXCEPT !.fallback = FALSE]
        /\ phase' = IF r = "closing" THEN "closing" ELSE "idle"
    BY <1>5 DEF TP!CoreAnswers
  <2>5. Agreed(core', setup', conf', phase')
    BY <1>2, <1>3, <1>5, <2>1, <2>2, <2>3, <2>4, StopsAgree
  <2>6. QED
    BY <1>1, <2>5 DEF GInv
<1>6. QED
  BY <1>4, <1>5

LEMMA EnterCloudAgrees ==
    ASSUME GInv, EnterCloud
    PROVE  GInv'
<1>1. core.fsm = "entering" /\ phase # "closing"
  BY DEF GInv, Agreed, EnterCloud
<1>2. PICK sig \in TP!Signals, r \in TP!Reactions :
        CoreHears([core EXCEPT !.fsm = "cloud"], sig, r) /\ TP!Start(sig, r)
  BY SameTunnel, SameStart DEF EnterCloud
<1>3. sig \in {"none", "error"} /\ TP!CoreAnswers("started", r)
  BY <1>2, TP!StartSignals, ServiceAssumption
<1>4. TP!AnyStep
  BY <1>1, <1>2 DEF TP!AnyStep
<1>5. QED
  BY <1>1, <1>2, <1>3, <1>4, Outcomes, CloudAgrees

LEMMA CloudEventAgrees ==
    ASSUME GInv, CloudEvent
    PROVE  GInv'
<1>1. CASE \E sig \in T!Signals, r \in T!Reactions :
              CoreHears(core, sig, r) /\ T!CloudEvent(sig, r)
  <2>1. PICK sig \in TP!Signals, r \in TP!Reactions :
          CoreHears(core, sig, r) /\ TP!CloudEvent(sig, r)
    BY <1>1, SameTunnel, SameEvent
  <2>2. TP!CoreAnswers(phase, r)
    BY <2>1, TP!EventAnswers, ServiceAssumption
  <2>3. TP!AnyStep
    BY <2>1 DEF TP!AnyStep
  <2>4. phase = "idle" => sig = "none"
    BY <2>1, TP!IdleIsSilent, ServiceAssumption DEF GInv
  <2>5. QED
    BY <2>1, <2>2, <2>3, <2>4, Outcomes, CloudAgrees
<1>2. CASE (T!ProcessExits \/ T!ConnTimerRuns) /\ UNCHANGED <<core, setup>>
  <2>1. TP!Consistent'
    <3>1. TP!AnyStep
      BY <1>2, SameTunnel DEF TP!AnyStep
    <3>2. QED
      BY <3>1, CloudKeeps DEF GInv
  <2>2. conf' = conf /\ phase' = phase
    BY <1>2 DEF T!ProcessExits, T!ConnTimerRuns
  <2>3. QED
    BY <1>2, <2>1, <2>2 DEF GInv
<1>3. QED
  BY <1>1, <1>2 DEF CloudEvent

LEMMA NextAgrees == GInv /\ [Next]_vars => GInv'
<1> SUFFICES ASSUME GInv, [Next]_vars PROVE GInv'
  OBVIOUS
<1>1. CASE UNCHANGED vars
  <2>1. UNCHANGED <<core, setup, conf, phase>> /\ UNCHANGED tunnelVars
    BY <1>1 DEF vars, tunnelVars
  <2>2. QED
    BY <2>1, CloudKeeps DEF GInv
<1>2. CASE EnterCloud
  BY <1>2, EnterCloudAgrees
<1>3. CASE Event
  BY <1>3, LoginAgrees, CredentialsChangeAgrees, StartAgrees, DelayedStartAgrees, StopAgrees, ReconfigureAgrees,
     ReplyAgrees, SetupRetryAgrees, CloseReplyAgrees, CloudEventAgrees DEF Event
<1>4. QED
  BY <1>1, <1>2, <1>3 DEF Next

LEMMA Agreement == Spec => []GInv
BY InitAgrees, NextAgrees, PTL DEF Spec

\* What Cloud is told of a fallback configuration is what the Setup module has,
\* whatever the service's clients do.
THEOREM FallbackIsShared == Spec => []FallbackAgrees
<1>1. GInv => FallbackAgrees
  BY DEF GInv, Agreed, FallbackAgrees
<1>2. QED
  BY <1>1, Agreement, PTL

\* A service that reports Idle has nothing left of a session in either module,
\* and no configuration on the disk, whatever its clients do.
THEOREM IdleIsClean == Spec => []IdleIsIdle
<1>1. GInv => IdleIsIdle
  BY DEF GInv, Agreed, TP!Consistent, TP!IdleIsStopped, SP!Resting, SP!Bare, IdleIsIdle
<1>2. QED
  BY <1>1, Agreement, PTL

\* The cloud's objects stay consistent in every service, also in one whose Core
\* is not the environment that Tunnel assumes: a client can be started again,
\* the manager does not outlive its process, and nothing runs once it is stopped.
THEOREM CloudIsConsistentInService ==
    Spec => [](T!TypeOK /\ T!Restartable /\ T!ManagerNeedsProcess /\ T!StoppedIsQuiet)
<1>1. GInv => T!TypeOK
  BY DEF GInv, TP!Consistent, T!TypeOK, TP!TypeOK, T!ClientStates, TP!ClientStates,
     T!ProcessStates, TP!ProcessStates, T!ManagerStates, TP!ManagerStates,
     T!ManagerErrors, TP!ManagerErrors, T!TimerStates, TP!TimerStates,
     T!SocketStates, TP!SocketStates, T!ManagedStates, TP!ManagedStates,
     T!Negotiating, TP!Negotiating, T!Exponents, TP!Exponents
<1>2. GInv => T!Restartable /\ T!ManagerNeedsProcess /\ T!StoppedIsQuiet
  <2>1. GInv => TP!StoppedIsQuiet
    BY TP!ConsistentIsQuiet, ServiceAssumption DEF GInv
  <2>2. QED
    BY <2>1 DEF GInv, TP!Consistent, TP!ClientConsistent, TP!ManagerNeedsProcess,
       TP!StoppedIsQuiet, T!Restartable, T!ManagerNeedsProcess, T!StoppedIsQuiet
<1>3. QED
  BY <1>1, <1>2, Agreement, PTL

\* The Setup module at rest does nothing by itself and leaves no file behind, in
\* every service, also if clients start it while it runs, or replace it.
THEOREM SetupRestsInService == Spec => [](S!TypeOK /\ S!IdleIsQuiet)
<1>1. GInv => S!TypeOK
  BY DEF GInv, Agreed, CoreType, S!TypeOK, SP!SetupType, S!Sessions, Session, Phases,
     S!FsmStates, SP!FsmStates, S!Exponents, SP!Exponents, S!Accounts, SP!Accounts
<1>2. GInv => S!IdleIsQuiet
  BY DEF GInv, Agreed, CoreType, CoreStates, FsmStates, Phases, S!IdleIsQuiet, Session,
     SP!Resting, SP!Bare, Unwritten
<1>3. QED
  BY <1>1, <1>2, Agreement, PTL

-----------------------------------------------------------------------------
(* A setup under way goes on.                                                *)

\* Where errors stop the service, a start is not delayed while a setup runs: a
\* delayed start makes Core busy, and a busy Core does not stop at an error.
Undelayed == AutoRetry \/ ~MayRestart \/ ~Decongest

SetupRuns ==
    phase = "idle" /\ core.fsm = "setup" =>
        /\ SP!Driven(setup)
        /\ ~AutoRetry => core.state = "Setup" /\ ~core.busy

LEMMA BeginRuns ==
    ASSUME GInv, SetupRuns, Begin(core)
    PROVE  SetupRuns'
<1>1. Agreed(core, setup, conf, phase)
  BY DEF GInv
<1> DEFINE d == [core EXCEPT !.busy = FALSE, !.wait = FALSE, !.fsm = "setup", !.state = "Setup"]
           s == S!Started(setup)
           r == IF T!Forced THEN "none" ELSE "stopped"
<1>2. CASE /\ core' = [core EXCEPT !.busy = FALSE, !.wait = FALSE]
           /\ UNCHANGED <<setup, tunnelVars>>
  BY <1>1, <1>2 DEF SetupRuns, Agreed, CoreType, tunnelVars
<1>3. /\ d \in CoreType /\ d.fsm = "setup" /\ d.state = "Setup" /\ ~d.busy
  BY <1>1 DEF Agreed, CoreType, CoreStates, FsmStates
<1>4. s \in SP!SetupType /\ s.autoRetry = AutoRetry
  BY <1>1, SP!StartedFacts, SameStarted, ServiceAssumption DEF Agreed
<1>5. CASE S!CanSend(s) /\ core' = d /\ setup' = S!Send(s) /\ UNCHANGED tunnelVars
  <2> HIDE DEF s, d
  <2>1. SP!Driven(setup')
    BY <1>4, <1>5, SP!SendFacts, SameStarted, ServiceAssumption DEF S!CanSend
  <2>2. QED
    BY <1>3, <1>5, <2>1 DEF SetupRuns
<1>6. CASE CoreFails(d, r) /\ setup' = S!Refuse(s, SetupAnswer(r))
  <2> HIDE DEF s, d
  <2>1. CASE r = "none"
    <3>1. AutoRetry
      BY <1>1, <2>1 DEF T!Forced, Agreed
    <3>2. setup' = SP!Raise(SP!Unsent(s), "none")
      BY <1>6, <2>1, SameRefuse, Outcomes
    <3>3. setup'.fsm = "error" /\ setup'.retry = AutoRetry
      BY <1>4, <3>2, SP!UnsentFacts, SP!RaiseFacts, Outcomes, ServiceAssumption
    <3>4. QED
      BY <3>1, <3>3 DEF SetupRuns, SP!Driven
  <2>2. CASE r = "stopped"
    <3>1. core'.fsm = "off"
      BY <1>3, <1>6, <2>2 DEF CoreFails, Stopping, CoreType
    <3>2. QED
      BY <3>1 DEF SetupRuns
  <2>3. QED
    BY <2>1, <2>2
<1>7. QED
  BY <1>2, <1>5, <1>6 DEF Begin

\* A failing setup is stopped, or it retries.
LEMMA SetupErrorRuns ==
    ASSUME GInv, SetupRuns, NEW s \in SP!SetupType, NEW r, r = ErrorOutcome,
           s.autoRetry = AutoRetry,
           phase = "idle" /\ core.fsm = "setup" =>
              \/ s.fsm = "message"
              \/ s.fsm = "error" /\ s.retry,
           setup' = SP!Raise(s, SetupAnswer(r)),
           CoreFails(core, r), TunnelAfterSetup(setup', r)
    PROVE  SetupRuns'
<1>1. Agreed(core, setup, conf, phase)
  BY DEF GInv
<1>2. CASE r = "none"
  <2> SUFFICES ASSUME phase' = "idle", core'.fsm = "setup"
               PROVE  SP!Driven(setup') /\ AutoRetry
    BY DEF SetupRuns
  <2>1. phase = "idle" /\ core.fsm = "setup"
    BY <1>1, <1>2 DEF TunnelAfterSetup, CoreFails, Stopping, Agreed, CoreType
  <2>2. AutoRetry
    <3>1. SUFFICES ASSUME ~AutoRetry PROVE FALSE
      OBVIOUS
    <3>2. core.state = "Setup" /\ ~core.busy
      BY <2>1, <3>1 DEF SetupRuns
    <3>3. QED
      BY <1>1, <1>2, <3>1, <3>2 DEF ErrorOutcome, StopOutcome, T!Forced, Agreed
  <2>3. setup' = SP!Raise(s, "none")
    BY <1>2, Outcomes
  <2>4. /\ s.fsm # "message" => setup' = s
        /\ s.fsm = "message" => setup'.fsm = "error" /\ setup'.retry = s.autoRetry
    BY <2>3, SP!RaiseFacts, Outcomes, ServiceAssumption
  <2>5. QED
    BY <2>1, <2>2, <2>4 DEF SP!Driven
<1>3. CASE r \in {"closing", "stopped"}
  <2>1. core'.fsm = "off"
    BY <1>1, <1>3 DEF CoreFails, Stopping, Agreed, CoreType
  <2>2. QED
    BY <2>1 DEF SetupRuns
<1>4. QED
  BY <1>2, <1>3, Outcomes

LEMMA ReplyRuns ==
    ASSUME GInv, SetupRuns, NEW own \in BOOLEAN, SetupReply(own)
    PROVE  SetupRuns'
<1>1. PICK u \in Users, o \in S!Outcomes, fb \in BOOLEAN :
        /\ Awaited(own, u)
        /\ IF S!Fails(Taking(own, u), o) THEN SetupFails(Taking(own, u), u, o, fb)
                                        ELSE SetupCompletes(Taking(own, u), u, fb)
  BY DEF SetupReply, Awaited, Taking
<1>2. PICK s : s = Taking(own, u)
  OBVIOUS
<1>3. /\ s \in SP!SetupType /\ s.autoRetry = AutoRetry
      /\ s.fsm = setup.fsm /\ s.retry = setup.retry
  BY <1>1, <1>2, Taken
<1>4. core \in CoreType
  BY DEF GInv, Agreed
<1>5. CASE SetupFails(s, u, o, fb) /\ o = "domains"
  <2>1. core'.fsm = "off"
    BY <1>4, <1>5 DEF SetupFails, CoreType
  <2>2. QED
    BY <2>1 DEF SetupRuns
<1>6. CASE SetupFails(s, u, o, fb) /\ o # "domains"
  <2> DEFINE t == IF o \in {"rejected", "domains"} THEN s ELSE SP!Decode(s, u, fb)
  <2>1. /\ setup' = SP!Raise(t, SetupAnswer(ErrorOutcome))
        /\ CoreFails(core, ErrorOutcome)
        /\ TunnelAfterSetup(setup', ErrorOutcome)
    BY <1>6, SameReply DEF SetupFails, SP!AnswerFails
  <2>2. /\ t \in SP!SetupType /\ t.autoRetry = AutoRetry
        /\ t.fsm = s.fsm /\ t.retry = s.retry
    BY <1>3, DecodeKeeps
  <2> HIDE DEF t
  <2>3. QED
    BY <1>3, <2>1, <2>2, SetupErrorRuns DEF SetupRuns, SP!Driven
<1>7. CASE SetupCompletes(s, u, fb)
  <2>1. core'.fsm # "setup"
    BY <1>4, <1>7 DEF SetupCompletes, CoreType
  <2>2. QED
    BY <2>1 DEF SetupRuns
<1>8. QED
  BY <1>1, <1>2, <1>5, <1>6, <1>7

LEMMA SetupRetryRuns ==
    ASSUME GInv, SetupRuns, SetupRetry
    PROVE  SetupRuns'
<1> DEFINE s == [setup EXCEPT !.retry = FALSE]
<1>1. s \in SP!SetupType /\ s.fsm = setup.fsm /\ s.request = setup.request
      /\ s.autoRetry = AutoRetry
  BY DEF GInv, Agreed, SP!SetupType
<1> HIDE DEF s
<1>2. CASE s.fsm # "error" /\ setup' = s /\ UNCHANGED <<core, tunnelVars>>
  BY <1>1, <1>2 DEF SetupRuns, SP!Driven, tunnelVars
<1>3. CASE S!CanSend(s) /\ setup' = S!Send(s) /\ UNCHANGED <<core, tunnelVars>>
  <2>1. SP!Driven(setup')
    BY <1>1, <1>3, SP!SendFacts, SameStarted, ServiceAssumption DEF S!CanSend
  <2>2. QED
    BY <1>3, <2>1 DEF SetupRuns, tunnelVars
<1>4. CASE /\ setup' = S!Refuse(s, SetupAnswer(ErrorOutcome))
           /\ CoreFails(core, ErrorOutcome)
           /\ TunnelAfterSetup(setup', ErrorOutcome)
  <2> DEFINE t == SP!Unsent(s)
  <2>1. t \in SP!SetupType /\ t.autoRetry = AutoRetry /\ t.fsm = "message"
    BY <1>1, SP!UnsentFacts, ServiceAssumption
  <2>2. setup' = SP!Raise(t, SetupAnswer(ErrorOutcome))
    BY <1>4, SameRefuse
  <2> HIDE DEF t
  <2>3. QED
    BY <1>4, <2>1, <2>2, SetupErrorRuns
<1>5. QED
  BY <1>2, <1>3, <1>4 DEF SetupRetry, s

\* The cloud and Core's handling of it do not touch a setup under way.
LEMMA CloudRuns ==
    ASSUME GInv, SetupRuns, CloudEvent
    PROVE  SetupRuns'
<1>1. Agreed(core, setup, conf, phase)
  BY DEF GInv
<1>2. CASE \E sig \in T!Signals, r \in T!Reactions :
              CoreHears(core, sig, r) /\ T!CloudEvent(sig, r)
  <2>1. PICK sig \in TP!Signals, r \in TP!Reactions :
          CoreHears(core, sig, r) /\ TP!CloudEvent(sig, r)
    BY <1>2, SameTunnel, SameEvent
  <2>2. CASE phase = "idle"
    <3>1. sig = "none" /\ r = "none" /\ phase' = phase
      BY <2>1, <2>2, TP!IdleIsSilent, ServiceAssumption DEF GInv
    <3>2. core' = core /\ setup' = setup
      BY <2>1, <3>1, SameAnswered, Outcomes DEF CoreHears, SP!Answered
    <3>3. QED
      BY <3>1, <3>2 DEF SetupRuns
  <2>3. CASE phase # "idle"
    <3>1. TP!CoreAnswers(phase, r)
      BY <2>1, TP!EventAnswers, ServiceAssumption
    <3>2. CASE r = "none"
      BY <2>3, <3>1, <3>2 DEF TP!CoreAnswers, SetupRuns
    <3>3. CASE r \in {"closing", "stopped"}
      <4>1. CoreFails(core, r)
        BY <2>1, <3>3 DEF CoreHears, TP!Signals
      <4>2. core'.fsm = "off"
        BY <1>1, <3>3, <4>1 DEF CoreFails, Stopping, Agreed, CoreType
      <4>3. QED
        BY <4>2 DEF SetupRuns
    <3>4. QED
      BY <3>2, <3>3, Outcomes
  <2>4. QED
    BY <2>2, <2>3
<1>3. CASE (T!ProcessExits \/ T!ConnTimerRuns) /\ UNCHANGED <<core, setup>>
  BY <1>3 DEF SetupRuns, T!ProcessExits, T!ConnTimerRuns
<1>4. QED
  BY <1>2, <1>3 DEF CloudEvent

LEMMA NextRuns ==
    ASSUME Undelayed
    PROVE  GInv /\ SetupRuns /\ [Next]_vars => SetupRuns'
<1> SUFFICES ASSUME GInv, SetupRuns, [Next]_vars PROVE SetupRuns'
  OBVIOUS
<1>1. Agreed(core, setup, conf, phase)
  BY DEF GInv
<1>2. CASE UNCHANGED vars
  BY <1>2 DEF vars, tunnelVars, SetupRuns
<1>3. CASE EnterCloud
  <2>1. PICK sig \in T!Signals, r \in T!Reactions :
          CoreHears([core EXCEPT !.fsm = "cloud"], sig, r)
    BY <1>3 DEF EnterCloud
  <2>2. core'.fsm \in {"cloud", "off"}
    BY <1>1, <2>1 DEF CoreHears, CoreFails, Stopping, Agreed, CoreType, T!Signals, T!Reactions
  <2>3. QED
    BY <2>2 DEF SetupRuns
<1>4. CASE CredentialsChange \/ \E u \in Users : Login(u)
  BY <1>1, <1>4
  DEF Login, CredentialsChange, SetupRuns, SP!Driven, Agreed, SP!SetupType, tunnelVars
<1>5. CASE Start
  <2>1. CASE Begin(core)
    BY <2>1, BeginRuns
  <2>2. CASE /\ core.state \in {"Connect", "Cloud"} \/ Decongest
             /\ core' = [core EXCEPT !.busy = TRUE,
                                      !.wait = core.state \notin {"Connect", "Cloud"}]
             /\ UNCHANGED <<setup, tunnelVars>>
    <3>1. ~(phase = "idle" /\ core.fsm = "setup" /\ ~AutoRetry)
      BY <1>5, <2>2 DEF SetupRuns, Undelayed, Start, OrdinaryStart
    <3>2. QED
      BY <1>1, <2>2, <3>1 DEF SetupRuns, Agreed, CoreType, tunnelVars
  <2>3. QED
    BY <1>5, <2>1, <2>2 DEF Start
<1>6. CASE DelayedStart
  BY <1>6, BeginRuns DEF DelayedStart
<1>7. CASE Stop \/ Reconfigure
  <2>1. core'.fsm = "off"
    BY <1>1, <1>7, Outcomes DEF Stop, CoreStops, Stopping, Reconfigure, Agreed, CoreType
  <2>2. QED
    BY <2>1 DEF SetupRuns
<1>8. CASE \E own \in BOOLEAN : SetupReply(own)
  BY <1>8, ReplyRuns
<1>9. CASE SetupRetry
  BY <1>9, SetupRetryRuns
<1>10. CASE CloseReply
  <2>1. core'.fsm = "off"
    BY <1>1, <1>10 DEF CloseReply, Agreed, CoreType
  <2>2. QED
    BY <2>1 DEF SetupRuns
<1>11. CASE CloudEvent
  BY <1>11, CloudRuns
<1>12. QED
  BY <1>2, <1>3, <1>4, <1>5, <1>6, <1>7, <1>8, <1>9, <1>10, <1>11 DEF Next, Event

\* Inside the service too, a setup waits for an answer or for its retry timer.
\* Where errors stop the service and starts are delayed, this takes clients that
\* do not start a service that is running.
THEOREM SetupNeverStalls ==
    ASSUME Undelayed
    PROVE  Spec => []SetupGoesOn
<1>1. Init => SetupRuns
  BY DEF Init, SetupRuns
<1>2. GInv /\ SetupRuns => SetupGoesOn
  BY DEF SetupRuns, SetupGoesOn, S!SetupIsDriven, Session, SP!Driven
<1>3. QED
  BY <1>1, <1>2, NextRuns, Agreement, PTL DEF Spec

-----------------------------------------------------------------------------
(* An error stops the service.                                               *)

\* Core's state, its flags, its state machine and the cloud go together, where
\* errors stop the service and clients start it only when it does not run.
Orderly ==
    /\ phase = "started" => ~core.busy /\ core.state \notin {"Idle", "Error"}
    /\ core.state = "Error" => core.fsm = "off" /\ phase # "started"
    /\ core.fsm \in {"setup", "entering"} =>
          phase = "idle" /\ core.state = "Setup" /\ ~core.busy
    /\ core.wait => phase = "idle" /\ core.fsm = "off"

\* Core in c fails, with outcome r.
LEMMA FailedCore ==
    ASSUME NEW c \in CoreType, NEW r \in {"none", "closing", "stopped"}, CoreFails(c, r)
    PROVE  /\ core'.state = "Error" /\ core'.wait = c.wait
           /\ core'.fsm = IF r = "none" THEN c.fsm ELSE "off"
BY DEF CoreFails, Stopping, CoreType, CoreStates, FsmStates

LEMMA NotForced ==
    ASSUME GInv, ~AutoRetry
    PROVE  ~T!Forced /\ ErrorOutcome = StopOutcome
BY DEF T!Forced, ErrorOutcome, GInv, Agreed

\* An error either stops Core, or finds it at rest or closing.
LEMMA FailureIsOrderly ==
    ASSUME GInv, Orderly, ~AutoRetry, NEW r, r = ErrorOutcome, CoreFails(core, r),
           phase' = IF r = "none" THEN phase ELSE IF r = "closing" THEN "closing" ELSE "idle"
    PROVE  Orderly'
<1>1. Agreed(core, setup, conf, phase) /\ r = StopOutcome
  BY NotForced DEF GInv
<1>2. r \in {"none", "closing", "stopped"} /\ (r # "none" => ~core.busy)
  BY <1>1, Outcomes
<1>3. core \in CoreType /\ (core.wait => core.busy)
  BY <1>1 DEF Agreed
<1>4. core'.state = "Error" /\ core'.wait = core.wait
  BY <1>2, <1>3, FailedCore
<1>5. CASE r = "none"
  <2>1. core.fsm = "off" /\ phase # "started"
    BY <1>1, <1>5 DEF StopOutcome, Orderly, Agreed, CoreType, FsmStates
  <2>2. core'.fsm = "off" /\ phase' = phase
    BY <1>3, <1>5, <2>1, FailedCore
  <2>3. QED
    BY <1>4, <2>1, <2>2 DEF Orderly
<1>6. CASE r \in {"closing", "stopped"}
  <2>1. core'.fsm = "off" /\ phase' \in {"closing", "idle"} /\ ~core'.wait
    BY <1>2, <1>3, <1>4, <1>6, FailedCore
  <2>2. QED
    BY <1>4, <2>1 DEF Orderly
<1>7. QED
  BY <1>2, <1>5, <1>6

\* An error of the Setup module.
LEMMA SetupErrorIsOrderly ==
    ASSUME GInv, Orderly, ~AutoRetry, NEW r, r = ErrorOutcome, NEW s,
           CoreFails(core, r), TunnelAfterSetup(s, r)
    PROVE  Orderly'
<1>1. r \in {"none", "closing", "stopped"}
  BY Outcomes
<1>2. phase' = IF r = "none" THEN phase ELSE IF r = "closing" THEN "closing" ELSE "idle"
  BY <1>1, CoreStopsCloud DEF TunnelAfterSetup
<1>3. QED
  BY <1>2, FailureIsOrderly

\* A start from rest.
LEMMA BeginIsOrderly ==
    ASSUME GInv, Orderly, ~AutoRetry, phase = "idle", core.fsm = "off", Begin(core)
    PROVE  Orderly'
<1> DEFINE d == [core EXCEPT !.busy = FALSE, !.wait = FALSE, !.fsm = "setup", !.state = "Setup"]
           s == S!Started(setup)
<1>1. core \in CoreType
  BY DEF GInv, Agreed
<1>2. /\ d \in CoreType /\ d.fsm = "setup" /\ d.state = "Setup" /\ ~d.busy /\ ~d.wait
  BY <1>1 DEF CoreType, CoreStates, FsmStates
<1>3. CASE core' = d /\ UNCHANGED tunnelVars
  BY <1>2, <1>3 DEF Orderly, tunnelVars
<1>4. CASE CoreFails(d, "stopped") /\ TunnelAfterSetup(setup', "stopped")
  <2> HIDE DEF d
  <2>1. core'.state = "Error" /\ core'.fsm = "off" /\ ~core'.wait
    BY <1>2, <1>4, FailedCore
  <2>2. phase' = "idle"
    BY <1>4, CoreStopsCloud DEF TunnelAfterSetup
  <2>3. QED
    BY <2>1, <2>2 DEF Orderly
<1>5. QED
  BY <1>3, <1>4, NotForced DEF Begin

\* Without restarts a start finds the service at rest.
LEMMA StartsAtRest ==
    ASSUME GInv, Orderly, ~MayRestart, Start \/ DelayedStart
    PROVE  phase = "idle" /\ core.fsm = "off"
BY DEF GInv, Agreed, Orderly, Start, DelayedStart, OrdinaryStart, Phases

LEMMA StartIsOrderly ==
    ASSUME GInv, Orderly, ~AutoRetry, ~MayRestart, Start \/ DelayedStart
    PROVE  Orderly'
<1>1. phase = "idle" /\ core.fsm = "off" /\ core \in CoreType
  BY StartsAtRest DEF GInv, Agreed
<1>2. CASE Begin(core)
  BY <1>1, <1>2, BeginIsOrderly
<1>3. CASE /\ core' = [core EXCEPT !.busy = TRUE,
                                    !.wait = core.state \notin {"Connect", "Cloud"}]
           /\ UNCHANGED tunnelVars
  <2>1. core'.fsm = "off" /\ phase' = "idle"
    BY <1>1, <1>3 DEF CoreType, tunnelVars
  <2>2. QED
    BY <2>1 DEF Orderly
<1>4. QED
  BY <1>2, <1>3 DEF Start, DelayedStart

LEMMA ReplyIsOrderly ==
    ASSUME GInv, Orderly, ~AutoRetry, NEW own \in BOOLEAN, SetupReply(own)
    PROVE  Orderly'
<1>1. PICK u \in Users, o \in S!Outcomes, fb \in BOOLEAN :
        \/ SetupFails(Taking(own, u), u, o, fb)
        \/ SetupCompletes(Taking(own, u), u, fb)
  BY DEF SetupReply, Taking
<1> DEFINE s == Taking(own, u)
<1> HIDE DEF s
<1>2. Agreed(core, setup, conf, phase)
  BY DEF GInv
<1>3. CASE SetupFails(s, u, o, fb) /\ o = "domains"
  <2>1. /\ core'.fsm = "off" /\ phase' = phase
        /\ core'.state = core.state /\ core'.busy = core.busy /\ core'.wait = core.wait
    BY <1>2, <1>3 DEF SetupFails, Agreed, CoreType, tunnelVars
  <2>2. QED
    BY <2>1 DEF Orderly
<1>4. CASE SetupFails(s, u, o, fb) /\ o # "domains"
  <2>1. PICK r : r = ErrorOutcome
    OBVIOUS
  <2>2. CoreFails(core, r) /\ TunnelAfterSetup(setup', r)
    BY <1>4, <2>1 DEF SetupFails
  <2>3. QED
    BY <2>1, <2>2, SetupErrorIsOrderly
<1>5. CASE SetupCompletes(s, u, fb)
  <2>1. /\ core'.fsm = IF core.fsm = "setup" THEN "entering" ELSE core.fsm
        /\ core'.state = core.state /\ core'.busy = core.busy /\ core'.wait = core.wait
        /\ phase' = phase
    BY <1>2, <1>5 DEF SetupCompletes, TunnelAfterSetup, Agreed, CoreType
  <2>2. QED
    BY <2>1 DEF Orderly
<1>6. QED
  BY <1>1, <1>3, <1>4, <1>5 DEF s

\* The cloud is entered from a setup that was not stopped.
LEMMA EnterIsOrderly ==
    ASSUME GInv, Orderly, ~AutoRetry, EnterCloud
    PROVE  Orderly'
<1> DEFINE c == [core EXCEPT !.fsm = "cloud"]
<1>1. /\ core.fsm = "entering" /\ core.state = "Setup" /\ ~core.busy /\ ~core.wait
      /\ core \in CoreType
  BY DEF GInv, Agreed, EnterCloud, Orderly
<1>2. /\ c \in CoreType /\ c.fsm = "cloud" /\ c.state = "Setup" /\ ~c.busy /\ ~c.wait
  BY <1>1 DEF CoreType, FsmStates
<1> HIDE DEF c
<1>3. PICK sig \in TP!Signals, r \in TP!Reactions :
        CoreHears(c, sig, r) /\ TP!Start(sig, r)
  BY SameTunnel, SameStart DEF EnterCloud, c
<1>4. sig \in {"none", "error"} /\ TP!CoreAnswers("started", r)
  BY <1>3, TP!StartSignals, ServiceAssumption
<1>5. CASE sig = "none"
  <2>1. core' = c /\ r = "none"
    BY <1>3, <1>5 DEF CoreHears
  <2>2. phase' = "started"
    BY <1>4, <2>1 DEF TP!CoreAnswers
  <2>3. QED
    BY <1>2, <2>1, <2>2 DEF Orderly
<1>6. CASE sig = "error"
  <2>1. r = StopOutcome /\ CoreFails(c, r)
    BY <1>3, <1>6, NotForced DEF CoreHears
  <2>2. r = "stopped"
    BY <1>1, <2>1 DEF StopOutcome
  <2>3. core'.state = "Error" /\ core'.fsm = "off" /\ ~core'.wait
    BY <1>2, <2>1, <2>2, FailedCore
  <2>4. phase' = "idle"
    BY <1>4, <2>2 DEF TP!CoreAnswers
  <2>5. QED
    BY <2>3, <2>4 DEF Orderly
<1>7. QED
  BY <1>4, <1>5, <1>6

LEMMA CloudIsOrderly ==
    ASSUME GInv, Orderly, ~AutoRetry, CloudEvent
    PROVE  Orderly'
<1>1. Agreed(core, setup, conf, phase) /\ core \in CoreType
  BY DEF GInv, Agreed
<1>2. CASE \E sig \in T!Signals, r \in T!Reactions :
              CoreHears(core, sig, r) /\ T!CloudEvent(sig, r)
  <2>1. PICK sig \in TP!Signals, r \in TP!Reactions :
          CoreHears(core, sig, r) /\ TP!CloudEvent(sig, r)
    BY <1>2, SameTunnel, SameEvent
  <2>2. TP!CoreAnswers(phase, r)
    BY <2>1, TP!EventAnswers, ServiceAssumption
  <2>3. phase = "idle" => sig = "none"
    BY <2>1, TP!IdleIsSilent, ServiceAssumption DEF GInv
  <2>4. CASE sig = "error"
    <3>1. r = ErrorOutcome /\ CoreFails(core, r)
      BY <2>1, <2>4 DEF CoreHears
    <3>2. r \in {"none", "closing", "stopped"}
      BY <3>1, Outcomes
    <3>3. phase' = IF r = "none" THEN phase ELSE IF r = "closing" THEN "closing" ELSE "idle"
      BY <2>2, <3>2 DEF TP!CoreAnswers
    <3>4. QED
      BY <3>1, <3>3, FailureIsOrderly
  <2>5. CASE sig = "none"
    <3>1. core' = core /\ phase' = phase
      BY <2>1, <2>2, <2>5 DEF CoreHears, TP!CoreAnswers
    <3>2. QED
      BY <3>1 DEF Orderly
  <2>6. CASE sig \in {"connect", "cloud"}
    <3>1. phase' = phase /\ phase # "idle"
      BY <2>1, <2>2, <2>3, <2>6 DEF CoreHears, TP!CoreAnswers
    <3>2. core' \in {[core EXCEPT !.state = "Connect"], [core EXCEPT !.state = "Cloud"]}
      BY <2>1, <2>6 DEF CoreHears
    <3>3. /\ core'.state \in {"Connect", "Cloud"}
          /\ core'.fsm = core.fsm /\ core'.busy = core.busy /\ core'.wait = core.wait
      BY <1>1, <3>2 DEF CoreType
    <3>4. QED
      BY <3>1, <3>3 DEF Orderly
  <2>7. QED
    BY <2>4, <2>5, <2>6 DEF TP!Signals
<1>3. CASE (T!ProcessExits \/ T!ConnTimerRuns) /\ UNCHANGED <<core, setup>>
  BY <1>3 DEF Orderly, T!ProcessExits, T!ConnTimerRuns
<1>4. QED
  BY <1>2, <1>3 DEF CloudEvent

LEMMA NextIsOrderly ==
    ASSUME ~AutoRetry, ~MayRestart
    PROVE  GInv /\ Orderly /\ [Next]_vars => Orderly'
<1> SUFFICES ASSUME GInv, Orderly, [Next]_vars PROVE Orderly'
  OBVIOUS
<1>1. Agreed(core, setup, conf, phase)
  BY DEF GInv
<1>2. CASE UNCHANGED <<core, phase>>
  BY <1>2 DEF Orderly
<1>3. CASE EnterCloud
  BY <1>3, EnterIsOrderly
<1>4. CASE Start \/ DelayedStart
  BY <1>4, StartIsOrderly
<1>5. CASE Stop
  <2>1. /\ StopOutcome \in {"closing", "stopped"} /\ ~core.busy
        /\ StopOutcome = "closing" => core.state \in {"Connect", "Cloud"}
    BY <1>5, Outcomes DEF Stop, StopOutcome
  <2>2. core' = Stopping(core, StopOutcome) /\ phase' \in {"closing", "idle"}
    BY <1>5, <2>1, CoreStopsCloud DEF Stop, CoreStops
  <2>3. core'.fsm = "off" /\ core'.state # "Error" /\ ~core'.wait
    BY <1>1, <2>1, <2>2 DEF Stopping, Agreed, CoreType
  <2>4. QED
    BY <2>2, <2>3 DEF Orderly
<1>6. CASE Reconfigure
  <2>1. /\ core'.fsm = "off" /\ phase' = phase
        /\ core'.state = core.state /\ core'.busy = core.busy /\ core'.wait = core.wait
    BY <1>1, <1>6 DEF Reconfigure, Agreed, CoreType
  <2>2. QED
    BY <2>1 DEF Orderly
<1>7. CASE \E own \in BOOLEAN : SetupReply(own)
  BY <1>7, ReplyIsOrderly
<1>8. CASE SetupRetry
  <2>1. CASE UNCHANGED <<core, tunnelVars>>
    BY <2>1 DEF Orderly, tunnelVars
  <2>2. CASE CoreFails(core, ErrorOutcome) /\ TunnelAfterSetup(setup', ErrorOutcome)
    <3>1. PICK r : r = ErrorOutcome
      OBVIOUS
    <3>2. QED
      BY <2>2, <3>1, SetupErrorIsOrderly
  <2>3. QED
    BY <1>8, <2>1, <2>2 DEF SetupRetry
<1>9. CASE CloseReply
  <2>1. core'.state = "Idle" /\ core'.fsm = "off" /\ ~core'.wait /\ phase' = "idle"
    BY <1>1, <1>9 DEF CloseReply, T!CloseReply, Agreed, CoreType, CoreStates
  <2>2. QED
    BY <2>1 DEF Orderly
<1>10. CASE CloudEvent
  BY <1>10, CloudIsOrderly
<1>11. QED
  BY <1>2, <1>3, <1>4, <1>5, <1>6, <1>7, <1>8, <1>9, <1>10
  DEF Next, Event, Login, CredentialsChange, vars, tunnelVars

LEMMA Order ==
    ASSUME ~AutoRetry, ~MayRestart
    PROVE  Spec => []Orderly
<1>1. Init => Orderly
  BY DEF Init, T!Init, Orderly
<1>2. QED
  BY <1>1, NextIsOrderly, Agreement, PTL DEF Spec

\* The application stops progress upon an error: in Error, Core's state machine
\* is off and the cloud is stopped or closing.  (Devices go on: for them the
\* statement says nothing.)  This takes clients that do not start a service that
\* is running: a start makes Core busy, and a busy Core does not stop.
THEOREM ErrorsStopProgress ==
    ASSUME ~MayRestart
    PROVE  Spec => []ErrorStopsProgress
<1>1. CASE AutoRetry
  <2>1. ErrorStopsProgress
    BY <1>1 DEF ErrorStopsProgress
  <2>2. QED
    BY <2>1, PTL
<1>2. CASE ~AutoRetry
  <2>1. GInv /\ Orderly => ErrorStopsProgress
    BY DEF GInv, Agreed, Orderly, ErrorStopsProgress, Phases
  <2>2. Spec => []Orderly
    BY <1>2, Order
  <2>3. QED
    BY <2>1, <2>2, Agreement, PTL
<1>3. QED
  BY <1>1, <1>2

-----------------------------------------------------------------------------
(* Core is an environment as Tunnel assumes it.                              *)

\* The client application, whose clients start the service only when it does
\* not run and configure it only before it does.
Plain == ~AutoRetry /\ ~MayRestart /\ ~MayReconfigure

\* A stop is one that Tunnel allows.
LEMMA StopIsAllowed ==
    ASSUME GInv, NEW r \in {"closing", "stopped"}, r = StopOutcome, T!Stop(r)
    PROVE  T!Next
<1>1. /\ phase # "closing" /\ phase \in Phases
      /\ phase = "idle" => r = "stopped"
  BY DEF GInv, Agreed, StopOutcome
<1>2. CASE phase = "idle"
  BY <1>1, <1>2 DEF T!Next
<1>3. CASE phase = "started"
  BY <1>3 DEF T!Next, T!Reactions
<1>4. QED
  BY <1>1, <1>2, <1>3 DEF Phases

\* The Setup module raises an error in s.
LEMMA ErrorIsAllowed ==
    ASSUME GInv, ~AutoRetry, NEW s, NEW r, r = ErrorOutcome, TunnelAfterSetup(s, r),
           s.fallback # NoUser \/ (r = "none" => s.fallback = setup.fallback)
    PROVE  [T!Next]_tunnelVars
<1>1. CASE r = "none"
  <2>1. /\ conf' = [conf EXCEPT !.fallback = s.fallback # NoUser]
        /\ UNCHANGED <<client, manager, socket, reattach, cloud, phase>>
    BY <1>1 DEF TunnelAfterSetup
  <2>2. CASE s.fallback # NoUser
    <3>1. conf' = [conf EXCEPT !.fallback = TRUE]
      BY <2>1, <2>2
    <3>2. QED
      BY <2>1, <3>1 DEF T!Next, T!Configure
  <2>3. CASE s.fallback = setup.fallback
    <3>1. conf' = conf
      BY <2>1, <2>3 DEF GInv, Agreed, ConfType
    <3>2. QED
      BY <2>1, <3>1 DEF tunnelVars
  <2>4. QED
    BY <1>1, <2>2, <2>3
<1>2. CASE r \in {"closing", "stopped"}
  <2>1. r = StopOutcome /\ T!Stop(r)
    BY <1>2, NotForced DEF TunnelAfterSetup
  <2>2. QED
    BY <1>2, <2>1, StopIsAllowed
<1>3. QED
  BY <1>1, <1>2, Outcomes

LEMMA ReplyIsAllowed ==
    ASSUME GInv, ~AutoRetry, NEW own \in BOOLEAN, SetupReply(own)
    PROVE  [T!Next]_tunnelVars
<1>1. PICK u \in Users, o \in S!Outcomes, fb \in BOOLEAN :
        /\ Awaited(own, u)
        /\ IF S!Fails(Taking(own, u), o) THEN SetupFails(Taking(own, u), u, o, fb)
                                        ELSE SetupCompletes(Taking(own, u), u, fb)
  BY DEF SetupReply, Awaited, Taking
<1>2. PICK s : s = Taking(own, u)
  OBVIOUS
<1>3. s \in SP!SetupType /\ s.cfg = setup.cfg /\ s.fallback = setup.fallback
  BY <1>1, <1>2, Taken
<1>4. u # NoUser
  BY ServiceAssumption
<1> DEFINE d == SP!Decode(s, u, fb)
<1>5. d \in SP!SetupType /\ d.fallback \in {u, setup.fallback}
  <2>1. d \in SP!SetupType
    BY <1>3, DecodeKeeps
  <2>2. QED
    BY <1>3, <2>1 DEF SP!Decode, SP!SetupType
<1> HIDE DEF d
<1>6. CASE SetupFails(s, u, o, fb) /\ o = "domains"
  BY <1>6 DEF SetupFails
<1>7. CASE SetupFails(s, u, o, fb) /\ o # "domains"
  <2> DEFINE t == IF o \in {"rejected", "domains"} THEN s ELSE d
  <2>1. PICK r : r = ErrorOutcome
    OBVIOUS
  <2>2. /\ setup' = SP!Raise(t, SetupAnswer(r))
        /\ TunnelAfterSetup(setup', r)
    BY <1>7, <2>1, SameReply DEF SetupFails, SP!AnswerFails, d
  <2>3. t \in SP!SetupType /\ t.fallback \in {u, setup.fallback}
    BY <1>3, <1>5
  <2> HIDE DEF t
  <2>4. r = "none" => setup'.fallback = t.fallback
    BY <2>2, <2>3, SP!RaiseFacts, Outcomes, ServiceAssumption
  <2>5. CASE r = "none"
    BY <1>4, <2>1, <2>2, <2>3, <2>4, <2>5, ErrorIsAllowed
  <2>6. CASE r # "none"
    BY <2>1, <2>2, <2>6, ErrorIsAllowed
  <2>7. QED
    BY <2>5, <2>6
<1>8. CASE SetupCompletes(s, u, fb)
  <2>1. PICK written \in SUBSET SP!Files : setup' = SP!Complete(d, written)
    BY <1>8, SameReply DEF SetupCompletes, d
  <2>2. setup'.fallback = d.fallback
    BY <1>5, <2>1, CompleteKeeps
  <2>3. /\ conf' = [conf EXCEPT !.fallback = setup'.fallback # NoUser]
        /\ UNCHANGED <<client, manager, socket, reattach, cloud, phase>>
    BY <1>8 DEF SetupCompletes, TunnelAfterSetup
  <2>4. CASE setup'.fallback = u
    <3>1. conf' = [conf EXCEPT !.fallback = TRUE]
      BY <1>4, <2>3, <2>4
    <3>2. QED
      BY <2>3, <3>1 DEF T!Next, T!Configure
  <2>5. CASE setup'.fallback = setup.fallback
    <3>1. conf' = conf
      BY <2>3, <2>5 DEF GInv, Agreed, ConfType
    <3>2. QED
      BY <2>3, <3>1 DEF tunnelVars
  <2>6. QED
    BY <1>5, <2>2, <2>4, <2>5
<1>9. QED
  BY <1>1, <1>2, <1>6, <1>7, <1>8

LEMMA RetryIsAllowed ==
    ASSUME GInv, ~AutoRetry, SetupRetry
    PROVE  [T!Next]_tunnelVars
<1> DEFINE s == [setup EXCEPT !.retry = FALSE]
<1>1. s \in SP!SetupType /\ s.fallback = setup.fallback
  BY DEF GInv, Agreed, SP!SetupType
<1> HIDE DEF s
<1>2. CASE UNCHANGED tunnelVars
  BY <1>2
<1>3. CASE setup' = S!Refuse(s, SetupAnswer(ErrorOutcome))
           /\ TunnelAfterSetup(setup', ErrorOutcome)
  <2> DEFINE t == SP!Unsent(s)
  <2>1. t \in SP!SetupType /\ t.fallback = setup.fallback
    BY <1>1, SP!UnsentFacts, ServiceAssumption
  <2>2. PICK r : r = ErrorOutcome
    OBVIOUS
  <2>3. setup' = SP!Raise(t, SetupAnswer(r)) /\ TunnelAfterSetup(setup', r)
    BY <1>3, <2>2, SameRefuse
  <2> HIDE DEF t
  <2>4. r = "none" => setup'.fallback = setup.fallback
    BY <2>1, <2>3, SP!RaiseFacts, Outcomes, ServiceAssumption
  <2>5. QED
    BY <2>2, <2>3, <2>4, ErrorIsAllowed
<1>4. QED
  BY <1>2, <1>3 DEF SetupRetry, s

\* What Core makes of the cloud's signal is what Tunnel expects.
LEMMA AnswerIsAllowed ==
    ASSUME GInv, Orderly, ~AutoRetry, NEW c, NEW sig \in T!Signals, NEW r,
           CoreHears(c, sig, r),
           phase = "idle" /\ core.fsm # "entering" => sig = "none"
    PROVE  T!CoreMayAnswer(sig, r)
<1>1. r = IF sig = "error" THEN StopOutcome ELSE "none"
  BY NotForced DEF CoreHears
<1>2. phase # "closing" /\ sig = "error" => StopOutcome \in {"closing", "stopped"}
  BY DEF GInv, Agreed, Phases, Orderly, StopOutcome
<1>3. phase = "closing" => StopOutcome = "none"
  BY DEF GInv, Agreed, StopOutcome
<1>4. QED
  BY <1>1, <1>2, <1>3, NotForced DEF T!CoreMayAnswer

LEMMA TunnelSteps ==
    ASSUME Plain
    PROVE  GInv /\ Orderly /\ [Next]_vars => [T!Next]_tunnelVars
<1> SUFFICES ASSUME GInv, Orderly, [Next]_vars PROVE [T!Next]_tunnelVars
  OBVIOUS
<1>1. ~AutoRetry /\ ~MayRestart /\ ~MayReconfigure
  BY DEF Plain
<1>2. CASE UNCHANGED tunnelVars
  BY <1>2
<1>3. CASE EnterCloud
  <2>1. PICK sig \in T!Signals, r \in T!Reactions :
          CoreHears([core EXCEPT !.fsm = "cloud"], sig, r) /\ T!Start(sig, r)
    BY <1>3 DEF EnterCloud
  <2>2. core.fsm = "entering" /\ phase = "idle"
    BY <1>3 DEF EnterCloud, Orderly
  <2>3. T!CoreMayAnswer(sig, r)
    BY <1>1, <2>1, <2>2, AnswerIsAllowed
  <2>4. QED
    BY <2>1, <2>2, <2>3 DEF T!Next
<1>4. CASE Start \/ DelayedStart
  <2>1. phase = "idle" /\ core.fsm = "off"
    BY <1>1, <1>4, StartsAtRest
  <2>2. UNCHANGED tunnelVars \/ TunnelAfterSetup(setup', "stopped")
    BY <1>1, <1>4, <2>1, NotForced DEF Start, DelayedStart, Begin
  <2>3. CASE TunnelAfterSetup(setup', "stopped")
    BY <2>1, <2>3 DEF TunnelAfterSetup, T!Next
  <2>4. QED
    BY <2>2, <2>3
<1>5. CASE Stop
  BY <1>5, Outcomes, StopIsAllowed DEF Stop
<1>6. CASE \E own \in BOOLEAN : SetupReply(own)
  BY <1>1, <1>6, ReplyIsAllowed
<1>7. CASE SetupRetry
  BY <1>1, <1>7, RetryIsAllowed
<1>8. CASE CloseReply
  BY <1>8 DEF CloseReply, T!Next
<1>9. CASE CloudEvent /\ core.fsm # "entering"
  <2>1. CASE \E sig \in T!Signals, r \in T!Reactions :
                CoreHears(core, sig, r) /\ T!CloudEvent(sig, r)
    <3>1. PICK sig \in T!Signals, r \in T!Reactions :
            CoreHears(core, sig, r) /\ T!CloudEvent(sig, r)
      BY <2>1
    <3>2. phase = "idle" => sig = "none"
      BY <3>1, SameTunnel, SameEvent, TP!IdleIsSilent, ServiceAssumption DEF GInv
    <3>3. T!CoreMayAnswer(sig, r)
      BY <1>1, <3>1, <3>2, AnswerIsAllowed
    <3>4. QED
      BY <3>1, <3>3 DEF T!Next
  <2>2. CASE T!ProcessExits \/ T!ConnTimerRuns
    BY <2>2 DEF T!Next
  <2>3. QED
    BY <1>9, <2>1, <2>2 DEF CloudEvent
<1>10. QED
  BY <1>1, <1>2, <1>3, <1>4, <1>5, <1>6, <1>7, <1>8, <1>9
  DEF Next, Event, Login, CredentialsChange, Reconfigure, vars

\* Core starts the cloud only when it is not started, stops it at every error it
\* hears of, and touches it in no other way: every theorem about Tunnel holds
\* inside the service.
THEOREM TunnelIsDrivenByCore ==
    ASSUME Plain
    PROVE  Spec => CoreDrivesTunnel
<1>1. Init => T!Init
  BY DEF Init
<1>2. GInv /\ Orderly /\ [Next]_vars => [T!Next]_T!vars
  BY TunnelSteps DEF tunnelVars, T!vars
<1>3. ~AutoRetry /\ ~MayRestart
  BY DEF Plain
<1>4. Spec => []Orderly
  BY <1>3, Order
<1>5. QED
  BY <1>1, <1>2, <1>4, Agreement, PTL DEF Spec, CoreDrivesTunnel, T!Spec

LEMMA SameTunnelNext == T!Next <=> TP!Next
BY SameTunnel, SameStop, SameStart, SameEvent
DEF T!Next, TP!Next, T!Configure, TP!Configure, T!CoreMayAnswer, TP!CoreMayAnswer

\* So what is proved of Tunnel holds in the application's service: a retry finds
\* no process, a started cloud waits for something that is due, and the fallback
\* is used only while there is one.
THEOREM TunnelIsSafeInService ==
    ASSUME Plain
    PROVE  Spec => [](T!RetryWithoutProcess /\ T!Watched /\ T!FallbackIsConfigured)
<1>1. Init => TP!IInv
  BY SameTunnel, TP!InitInv, ServiceAssumption DEF Init
<1>2. TP!IInv /\ GInv /\ Orderly /\ [Next]_vars => TP!IInv'
  <2> SUFFICES ASSUME TP!IInv, GInv, Orderly, [Next]_vars PROVE TP!IInv'
    OBVIOUS
  <2>1. [TP!Next]_TP!vars
    BY TunnelSteps, SameTunnelNext DEF tunnelVars, TP!vars
  <2>2. QED
    BY <2>1, TP!NextInv, ServiceAssumption
<1>3. TP!IInv => T!RetryWithoutProcess /\ T!Watched /\ T!FallbackIsConfigured
  BY DEF TP!IInv, TP!Inductive, T!RetryWithoutProcess, T!Watched, T!FallbackIsConfigured,
     TP!RetryWithoutProcess, TP!Watched, TP!FallbackIsConfigured
<1>4. ~AutoRetry /\ ~MayRestart
  BY DEF Plain
<1>5. Spec => []Orderly
  BY <1>4, Order
<1>6. QED
  BY <1>1, <1>2, <1>3, <1>5, Agreement, PTL DEF Spec

-----------------------------------------------------------------------------
(* Core is an environment as QccSetup assumes it.                            *)

\* A setup halted to ask for an organization has kept its Config.
HaltedHasConfig == core.state = "Setup" /\ phase = "idle" => setup.cfg

\* The session as a value of what it is made of.
LEMMA SessionIs ==
    ASSUME GInv
    PROVE  /\ phase = "closing" => Session = "closing"
           /\ phase = "started" => Session = "online"
           /\ phase = "idle" /\ core.fsm = "entering" => Session = "online"
           /\ phase = "idle" /\ core.fsm = "setup" => Session = "setup"
           /\ phase = "idle" /\ core.fsm = "off" /\ core.state = "Setup" => Session = "halted"
           /\ phase = "idle" /\ core.fsm = "off" /\ core.state = "Error" =>
                Session = IF setup.cfg THEN "halted" ELSE "idle"
           /\ core.state = "Idle" => Session = "idle"
           /\ phase = "idle" /\ core.fsm = "off" => core.state \in {"Idle", "Setup", "Error"}
           /\ phase \in Phases /\ core.fsm \in FsmStates /\ (phase = "idle" => core.fsm # "cloud")
BY DEF Session, GInv, Agreed, CoreType, CoreStates, FsmStates, Phases

LEMMA SessionNext ==
    ASSUME GInv'
    PROVE  /\ phase' = "closing" => Session' = "closing"
           /\ phase' = "started" => Session' = "online"
           /\ phase' = "idle" /\ core'.fsm = "entering" => Session' = "online"
           /\ phase' = "idle" /\ core'.fsm = "setup" => Session' = "setup"
           /\ phase' = "idle" /\ core'.fsm = "off" /\ core'.state = "Setup" =>
                Session' = "halted"
           /\ phase' = "idle" /\ core'.fsm = "off" /\ core'.state = "Error" =>
                Session' = IF setup'.cfg THEN "halted" ELSE "idle"
           /\ core'.state = "Idle" => Session' = "idle"
BY DEF Session, GInv, Agreed, CoreType, CoreStates, FsmStates, Phases

\* Nothing the session is made of changes.
LEMMA SessionStays ==
    ASSUME phase' = phase, core'.fsm = core.fsm, core'.state = core.state, setup'.cfg = setup.cfg
    PROVE  Session' = Session
BY DEF Session

\* Core's answers as QccSetup knows them.
LEMMA SetupAnswers ==
    ASSUME NEW s
    PROVE  /\ S!Answered(s, SetupAnswer("none")) = s
           /\ S!Answered(s, SetupAnswer("stopped")) = S!Stop(s)
           /\ S!Answered(s, SetupAnswer("closing")) = S!Close(s)
           /\ S!Stop(s) = SP!Stop(s)
BY DEF S!Answered, SetupAnswer, S!Stop, SP!Stop, S!Deinit, SP!Deinit, S!ClearMsg, SP!ClearMsg

\* An error of the Setup module in s is answered as QccSetup assumes it is.
LEMMA SetupErrorMaps ==
    ASSUME GInv, GInv', Orderly, HaltedHasConfig, ~AutoRetry, core.fsm # "entering",
           NEW s \in SP!SetupType, s.cfg = setup.cfg, core.state = "Idle" => ~s.cfg,
           NEW o, o # "domains", NEW r, r = ErrorOutcome,
           setup' = SP!Raise(s, SetupAnswer(r)),
           CoreFails(core, r), TunnelAfterSetup(setup', r)
    PROVE  /\ SetupAnswer(r) \in S!CoreAnswers(o)
           /\ Session' = S!After(SetupAnswer(r))
           /\ HaltedHasConfig'
<1>1. r = StopOutcome /\ r \in {"none", "closing", "stopped"} /\ ~setup.autoRetry
  BY NotForced, Outcomes DEF GInv, Agreed
<1>2. core'.state = "Error" /\ core'.fsm = IF r = "none" THEN core.fsm ELSE "off"
  BY <1>1, FailedCore DEF GInv, Agreed
<1>3. phase' = IF r = "none" THEN phase ELSE IF r = "closing" THEN "closing" ELSE "idle"
  BY <1>1, CoreStopsCloud DEF TunnelAfterSetup
<1>4. /\ Session = "setup" => r = "stopped"
      /\ Session = "online" => r \in {"closing", "stopped"}
      /\ Session \in {"idle", "halted"} => r \in {"none", "stopped"}
      /\ Session = "closing" => r = "none"
      /\ Session \in S!Sessions
  BY <1>1, SessionIs
  DEF Orderly, StopOutcome, GInv, Agreed, Phases, FsmStates, S!Sessions
<1>5. SetupAnswer(r) \in S!CoreAnswers(o)
  BY <1>1, <1>4 DEF S!CoreAnswers, SetupAnswer, S!Sessions
<1>6. CASE r = "none"
  <2>1. setup'.cfg = s.cfg
    BY <1>6, SP!RaiseFacts, Outcomes, ServiceAssumption
  <2>2. (core.state \in {"Idle", "Setup", "Error"} /\ core.fsm = "off") \/ phase = "closing"
    BY <1>4, <1>6, SessionIs DEF Phases, FsmStates
  <2>3. phase = "closing" \/ (phase = "idle" /\ core.fsm = "off")
    BY <1>4, <1>6, SessionIs DEF Phases, FsmStates
  <2>4. Session' = Session
    BY <1>2, <1>3, <1>6, <2>1, <2>2, <2>3, SessionIs, SessionNext DEF HaltedHasConfig
  <2>5. QED
    BY <1>2, <1>5, <1>6, <2>4 DEF HaltedHasConfig, S!After, SetupAnswer
<1>7. CASE r = "stopped"
  <2>1. setup' = SP!Stop(s)
    BY <1>7, SP!RaiseFacts, Outcomes, SameAnswered, SetupAnswers, ServiceAssumption
  <2>2. ~setup'.cfg
    BY <2>1, SP!StopFacts, ServiceAssumption
  <2>3. Session' = "idle"
    BY <1>2, <1>3, <1>7, <2>2, SessionNext
  <2>4. QED
    BY <1>2, <1>5, <1>7, <2>3 DEF HaltedHasConfig, S!After, SetupAnswer
<1>8. CASE r = "closing"
  <2>1. Session' = "closing"
    BY <1>3, <1>8, SessionNext
  <2>2. QED
    BY <1>2, <1>5, <1>8, <2>1 DEF HaltedHasConfig, S!After, SetupAnswer
<1>9. QED
  BY <1>1, <1>6, <1>7, <1>8

\* An answer.
LEMMA ReplyMaps ==
    ASSUME GInv, GInv', Orderly, HaltedHasConfig, ~AutoRetry, core.fsm # "entering",
           NEW own \in BOOLEAN, SetupReply(own)
    PROVE  S!Reply(own) /\ HaltedHasConfig'
<1>1. PICK u \in Users, o \in S!Outcomes, fb \in BOOLEAN :
        /\ Awaited(own, u)
        /\ IF S!Fails(Taking(own, u), o) THEN SetupFails(Taking(own, u), u, o, fb)
                                        ELSE SetupCompletes(Taking(own, u), u, fb)
  BY DEF SetupReply, Awaited, Taking
<1>2. PICK s : s = Taking(own, u)
  OBVIOUS
<1>3. /\ s \in SP!SetupType /\ s.cfg = setup.cfg
      /\ core.state = "Idle" => ~s.cfg
  BY <1>1, <1>2, Taken
<1>4. Agreed(core, setup, conf, phase)
  BY DEF GInv
<1>5. SUFFICES /\ HaltedHasConfig'
               /\ IF S!Fails(s, o)
                  THEN \E r \in S!CoreAnswers(o) :
                          setup' = S!AnswerFails(s, u, o, fb, r) /\ Session' = S!After(r)
                  ELSE /\ \E written \in SUBSET S!Files :
                             setup' = S!AnswerCompletes(s, u, fb, written)
                       /\ Session' = IF Session = "setup" THEN "online" ELSE Session
  BY <1>1, <1>2 DEF S!Reply, Awaited, Taking
<1>6. CASE S!Fails(s, o) /\ o = "domains"
  <2>1. /\ setup' = S!AnswerFails(s, u, o, fb, "halt")
        /\ core' = [core EXCEPT !.fsm = "off"] /\ phase' = phase
    BY <1>1, <1>2, <1>6 DEF SetupFails, tunnelVars
  <2>2. core'.fsm = "off" /\ core'.state = core.state
    BY <1>4, <2>1 DEF Agreed, CoreType
  <2>3. setup' = SP!Deinit(s) /\ setup'.cfg = setup.cfg
    <3>1. setup' = SP!Raise(s, "halt")
      BY <1>6, <2>1, SameReply DEF SP!AnswerFails
    <3>2. setup' = SP!Answered(s, "halt")
      BY <1>3, <3>1, SP!RaiseFacts, Outcomes, ServiceAssumption
    <3>3. setup' = SP!Deinit(s)
      BY <3>2 DEF SP!Answered, SP!Halt
    <3>4. QED
      BY <1>3, <3>3, SP!DeinitFacts, ServiceAssumption
  <2>4. "halt" \in S!CoreAnswers(o)
    BY <1>6 DEF S!CoreAnswers
  <2>5. Session' = S!After("halt")
    <3>1. CASE Session = "setup"
      <4>1. phase = "idle" /\ core.state = "Setup"
        BY <3>1, SessionIs DEF Orderly, Phases, FsmStates
      <4>2. QED
        BY <2>1, <2>2, <3>1, <4>1, SessionNext DEF S!After
    <3>2. CASE Session # "setup"
      <4>1. core.fsm = "off" \/ phase # "idle"
        BY <3>2, SessionIs DEF FsmStates
      <4>2. Session' = Session
        BY <2>1, <2>2, <2>3, <4>1, SessionIs, SessionNext DEF Phases
      <4>3. QED
        BY <3>2, <4>2 DEF S!After
    <3>3. QED
      BY <3>1, <3>2
  <2>6. QED
    BY <1>6, <2>1, <2>2, <2>3, <2>4, <2>5 DEF HaltedHasConfig
<1>7. CASE S!Fails(s, o) /\ o # "domains"
  <2>1. PICK r : r = ErrorOutcome
    OBVIOUS
  <2>2. /\ setup' = S!AnswerFails(s, u, o, fb, SetupAnswer(r))
        /\ CoreFails(core, r) /\ TunnelAfterSetup(setup', r)
    BY <1>1, <1>2, <1>7, <2>1 DEF SetupFails
  <2> DEFINE t == IF o \in {"rejected", "domains"} THEN s ELSE SP!Decode(s, u, fb)
  <2>3. setup' = SP!Raise(t, SetupAnswer(r))
    BY <2>2, SameReply DEF SP!AnswerFails
  <2>4. t \in SP!SetupType /\ t.cfg = s.cfg
    BY <1>3, DecodeKeeps
  <2> HIDE DEF t
  <2>5. SetupAnswer(r) \in S!CoreAnswers(o) /\ Session' = S!After(SetupAnswer(r))
        /\ HaltedHasConfig'
    BY <1>3, <1>7, <2>1, <2>2, <2>3, <2>4, SetupErrorMaps
  <2>6. QED
    BY <1>7, <2>2, <2>5
<1>8. CASE ~S!Fails(s, o)
  <2>1. SetupCompletes(s, u, fb)
    BY <1>1, <1>2, <1>8
  <2>2. /\ core'.state = core.state /\ phase' = phase
        /\ core'.fsm = IF core.fsm = "setup" THEN "entering" ELSE core.fsm
    BY <1>4, <2>1 DEF SetupCompletes, TunnelAfterSetup, Agreed, CoreType
  <2>3. setup'.cfg /\ s.cfg
    <3>1. s.cfg
      BY <1>8 DEF S!Fails
    <3>2. PICK written \in SUBSET SP!Files : setup' = SP!Complete(SP!Decode(s, u, fb), written)
      BY <2>1, SameReply DEF SetupCompletes
    <3>3. PICK d : d = SP!Decode(s, u, fb)
      OBVIOUS
    <3>4. d \in SP!SetupType /\ d.cfg = s.cfg /\ setup' = SP!Complete(d, written)
      BY <1>3, <3>2, <3>3, DecodeKeeps
    <3>5. QED
      BY <3>1, <3>4, CompleteKeeps
  <2>4. Session' = IF Session = "setup" THEN "online" ELSE Session
    <3>1. CASE core.fsm = "setup" /\ phase = "idle"
      BY <2>2, <3>1, SessionIs, SessionNext
    <3>2. CASE phase # "idle"
      BY <2>2, <3>2, SessionIs, SessionNext DEF Phases
    <3>3. CASE core.fsm # "setup"
      <4>1. Session' = Session
        BY <1>3, <2>2, <2>3, <3>3, SessionStays
      <4>2. QED
        BY <3>3, <4>1, SessionIs DEF Phases, FsmStates
    <3>4. QED
      BY <3>1, <3>2, <3>3
  <2>5. QED
    BY <1>8, <2>1, <2>3, <2>4 DEF SetupCompletes, HaltedHasConfig
<1>9. QED
  BY <1>6, <1>7, <1>8

LEMMA RetryMaps ==
    ASSUME GInv, GInv', Orderly, HaltedHasConfig, ~AutoRetry, core.fsm # "entering", SetupRetry
    PROVE  S!RetryTimeout /\ HaltedHasConfig'
<1> DEFINE s == [setup EXCEPT !.retry = FALSE]
<1>1. Agreed(core, setup, conf, phase) /\ setup.retry
  BY DEF GInv, SetupRetry
<1>2. s \in SP!SetupType /\ s.cfg = setup.cfg
  BY <1>1 DEF Agreed, SP!SetupType
<1>3. core.state # "Idle"
  BY <1>1 DEF Agreed, SP!Resting
<1> HIDE DEF s
<1>4. CASE s.fsm # "error" /\ setup' = s /\ UNCHANGED <<core, tunnelVars>>
  <2>1. Session' = Session
    BY <1>2, <1>4, SessionStays DEF tunnelVars
  <2>2. QED
    BY <1>1, <1>2, <1>4, <2>1 DEF S!RetryTimeout, HaltedHasConfig, tunnelVars, s
<1>5. CASE s.fsm = "error" /\ S!CanSend(s) /\ setup' = S!Send(s) /\ UNCHANGED <<core, tunnelVars>>
  <2>1. setup'.cfg = setup.cfg
    BY <1>2, <1>5, SP!SendFacts, SameStarted, ServiceAssumption DEF S!CanSend
  <2>2. Session' = Session
    BY <1>5, <2>1, SessionStays DEF tunnelVars
  <2>3. QED
    BY <1>1, <1>5, <2>1, <2>2 DEF S!RetryTimeout, HaltedHasConfig, tunnelVars, s
<1>6. CASE /\ s.fsm = "error" /\ ~S!CanSend(s)
           /\ setup' = S!Refuse(s, SetupAnswer(ErrorOutcome))
           /\ CoreFails(core, ErrorOutcome)
           /\ TunnelAfterSetup(setup', ErrorOutcome)
  <2>1. PICK r : r = ErrorOutcome
    OBVIOUS
  <2> DEFINE t == SP!Unsent(s)
  <2>2. t \in SP!SetupType /\ t.cfg = setup.cfg
    BY <1>2, SP!UnsentFacts, ServiceAssumption
  <2>3. setup' = SP!Raise(t, SetupAnswer(r))
    BY <1>6, <2>1, SameRefuse
  <2> HIDE DEF t
  <2>4. /\ SetupAnswer(r) \in S!CoreAnswers("rejected")
        /\ Session' = S!After(SetupAnswer(r))
        /\ HaltedHasConfig'
    BY <1>3, <1>6, <2>1, <2>2, <2>3, SetupErrorMaps
  <2>5. QED
    BY <1>1, <1>6, <2>1, <2>4 DEF S!RetryTimeout, s
<1>7. QED
  BY <1>4, <1>5, <1>6 DEF SetupRetry, s

\* A start.
LEMMA BeginMaps ==
    ASSUME GInv, GInv', ~AutoRetry, phase = "idle", core.fsm = "off", Begin(core)
    PROVE  S!Start /\ HaltedHasConfig'
<1> DEFINE d == [core EXCEPT !.busy = FALSE, !.wait = FALSE, !.fsm = "setup", !.state = "Setup"]
           s == S!Started(setup)
<1>1. Agreed(core, setup, conf, phase)
  BY DEF GInv
<1>2. d \in CoreType /\ d.fsm = "setup" /\ d.state = "Setup"
  BY <1>1 DEF Agreed, CoreType, CoreStates, FsmStates
<1>3. s \in SP!SetupType /\ s.cfg /\ ~s.autoRetry
  BY <1>1, SP!StartedFacts, SameStarted, ServiceAssumption DEF Agreed
<1>4. Session \in {"idle", "halted"}
  BY SessionIs
<1> HIDE DEF d, s
<1>5. CASE S!CanSend(s) /\ core' = d /\ setup' = S!Send(s) /\ UNCHANGED tunnelVars
  <2>1. Session' = "setup"
    BY <1>2, <1>5, SessionNext DEF tunnelVars
  <2>2. setup'.cfg
    BY <1>3, <1>5, SP!SendFacts, SameStarted, ServiceAssumption DEF S!CanSend
  <2>3. QED
    BY <1>4, <1>5, <2>1, <2>2 DEF S!Start, HaltedHasConfig, s
<1>6. CASE /\ ~S!CanSend(s) /\ CoreFails(d, "stopped")
           /\ setup' = S!Refuse(s, "stop")
           /\ TunnelAfterSetup(setup', "stopped")
  <2>1. core'.state = "Error" /\ core'.fsm = "off"
    BY <1>2, <1>6, FailedCore
  <2>2. phase' = "idle"
    BY <1>6, CoreStopsCloud DEF TunnelAfterSetup
  <2>3. ~setup'.cfg
    <3> DEFINE t == SP!Unsent(s)
    <3>1. t \in SP!SetupType
      BY <1>3, SP!UnsentFacts, ServiceAssumption
    <3>2. setup' = SP!Raise(t, "stop")
      BY <1>6, SameRefuse
    <3> HIDE DEF t
    <3>3. setup' = SP!Answered(t, "stop")
      BY <3>1, <3>2, SP!RaiseFacts, Outcomes, ServiceAssumption
    <3>4. QED
      BY <3>1, <3>3, SP!StopFacts, ServiceAssumption DEF SP!Answered
  <2>4. Session' = "idle"
    BY <2>1, <2>2, <2>3, SessionNext
  <2>5. QED
    BY <1>3, <1>4, <1>6, <2>1, <2>4 DEF S!Start, HaltedHasConfig, s
<1>7. QED
  BY <1>5, <1>6, NotForced, Outcomes DEF Begin, d, s

\* A stop, or an error of the cloud that stops Core.
LEMMA StopMaps ==
    ASSUME GInv, GInv', NEW r \in {"closing", "stopped"},
           setup' = S!Answered(setup, SetupAnswer(r)),
           core'.fsm = "off",
           r = "stopped" => core'.state \in {"Idle", "Error"},
           phase' = IF r = "closing" THEN "closing" ELSE "idle",
           Session # "closing", r = "closing" => Session = "online"
    PROVE  S!UserStop /\ HaltedHasConfig'
<1>1. CASE r = "stopped"
  <2>1. setup' = S!Stop(setup) /\ setup' = SP!Stop(setup)
    BY <1>1, SetupAnswers
  <2>2. ~setup'.cfg
    BY <2>1, SP!StopFacts, ServiceAssumption DEF GInv, Agreed
  <2>3. Session' = "idle"
    BY <1>1, <2>2, SessionNext
  <2>4. QED
    BY <1>1, <2>1, <2>3 DEF S!UserStop, HaltedHasConfig
<1>2. CASE r = "closing"
  <2>1. setup' = S!Close(setup) /\ Session' = "closing"
    BY <1>2, SetupAnswers, SessionNext
  <2>2. QED
    BY <1>2, <2>1 DEF S!UserStop, HaltedHasConfig
<1>3. QED
  BY <1>1, <1>2

\* The cloud is entered, or refuses to start.
LEMMA EnterMaps ==
    ASSUME GInv, GInv', Orderly, ~AutoRetry, EnterCloud
    PROVE  [S!Next]_S!vars /\ HaltedHasConfig'
<1> DEFINE c == [core EXCEPT !.fsm = "cloud"]
<1>1. /\ core.fsm = "entering" /\ core.state = "Setup" /\ ~core.busy /\ phase = "idle"
      /\ core \in CoreType
  BY DEF GInv, Agreed, EnterCloud, Orderly
<1>2. c \in CoreType
  BY <1>1 DEF CoreType, FsmStates
<1>3. Session = "online"
  BY <1>1, SessionIs
<1> HIDE DEF c
<1>4. PICK sig \in TP!Signals, r \in TP!Reactions :
        CoreHears(c, sig, r) /\ TP!Start(sig, r)
  BY SameTunnel, SameStart DEF EnterCloud, c
<1>5. sig \in {"none", "error"} /\ TP!CoreAnswers("started", r)
  BY <1>4, TP!StartSignals, ServiceAssumption
<1>6. CASE sig = "none"
  <2>1. r = "none" /\ setup' = setup
    BY <1>4, <1>6, SetupAnswers DEF CoreHears
  <2>2. phase' = "started"
    BY <1>5, <2>1 DEF TP!CoreAnswers
  <2>3. Session' = "online"
    BY <2>2, SessionNext
  <2>4. QED
    BY <1>3, <2>1, <2>2, <2>3 DEF S!vars, HaltedHasConfig
<1>7. CASE sig = "error"
  <2>1. r = "stopped" /\ CoreFails(c, r)
    BY <1>1, <1>4, <1>7, NotForced DEF CoreHears, StopOutcome
  <2>2. core'.state = "Error" /\ core'.fsm = "off"
    BY <1>2, <2>1, FailedCore
  <2>3. phase' = "idle" /\ setup' = S!Answered(setup, SetupAnswer(r))
    BY <1>4, <1>5, <2>1 DEF TP!CoreAnswers, CoreHears
  <2>4. S!UserStop /\ HaltedHasConfig'
    BY <1>3, <2>1, <2>2, <2>3, StopMaps
  <2>5. QED
    BY <2>4 DEF S!Next
<1>8. QED
  BY <1>5, <1>6, <1>7

\* The cloud's events reach the Setup module as a stop, or not at all.
LEMMA CloudMaps ==
    ASSUME GInv, GInv', Orderly, HaltedHasConfig, ~AutoRetry, core.fsm # "entering", CloudEvent
    PROVE  [S!Next]_S!vars /\ HaltedHasConfig'
<1>1. Agreed(core, setup, conf, phase) /\ core \in CoreType /\ phase \in Phases
  BY DEF GInv, Agreed
<1>2. CASE \E sig \in T!Signals, r \in T!Reactions :
              CoreHears(core, sig, r) /\ T!CloudEvent(sig, r)
  <2>1. PICK sig \in TP!Signals, r \in TP!Reactions :
          CoreHears(core, sig, r) /\ TP!CloudEvent(sig, r)
    BY <1>2, SameTunnel, SameEvent
  <2>2. TP!CoreAnswers(phase, r)
    BY <2>1, TP!EventAnswers, ServiceAssumption
  <2>3. CASE phase = "idle"
    <3>1. sig = "none" /\ r = "none" /\ phase' = phase
      BY <2>1, <2>3, TP!IdleIsSilent, ServiceAssumption DEF GInv
    <3>2. core' = core /\ setup' = setup
      BY <2>1, <3>1, SetupAnswers DEF CoreHears
    <3>3. Session' = Session
      BY <3>1, <3>2, SessionStays
    <3>4. QED
      BY <3>1, <3>2, <3>3 DEF S!vars, HaltedHasConfig
  <2>4. CASE phase # "idle" /\ r = "none"
    <3>1. setup' = setup /\ phase' = phase
      BY <2>1, <2>2, <2>4, SetupAnswers DEF CoreHears, TP!CoreAnswers
    <3>2. Session' = Session
      BY <1>1, <2>4, <3>1, SessionIs, SessionNext DEF Phases
    <3>3. QED
      BY <2>4, <3>1, <3>2 DEF S!vars, HaltedHasConfig
  <2>5. CASE phase # "idle" /\ r \in {"closing", "stopped"}
    <3>1. r = StopOutcome /\ CoreFails(core, r)
      BY <2>1, <2>5, NotForced DEF CoreHears, TP!Signals
    <3>2. phase = "started" /\ Session = "online"
      BY <1>1, <2>5, <3>1, Outcomes, SessionIs DEF Agreed, Phases
    <3>3. core'.state = "Error" /\ core'.fsm = "off"
      BY <1>1, <2>5, <3>1, FailedCore
    <3>4. /\ phase' = IF r = "closing" THEN "closing" ELSE "idle"
          /\ setup' = S!Answered(setup, SetupAnswer(r))
      BY <2>1, <2>2, <2>5 DEF TP!CoreAnswers, CoreHears
    <3>5. S!UserStop /\ HaltedHasConfig'
      BY <2>5, <3>2, <3>3, <3>4, StopMaps
    <3>6. QED
      BY <3>5 DEF S!Next
  <2>6. QED
    BY <2>3, <2>4, <2>5, Outcomes
<1>3. CASE (T!ProcessExits \/ T!ConnTimerRuns) /\ UNCHANGED <<core, setup>>
  <2>1. phase' = phase /\ core' = core /\ setup' = setup
    BY <1>3 DEF T!ProcessExits, T!ConnTimerRuns
  <2>2. Session' = Session
    BY <2>1, SessionStays
  <2>3. QED
    BY <2>1, <2>2 DEF S!vars, HaltedHasConfig
<1>4. QED
  BY <1>2, <1>3 DEF CloudEvent

LEMMA SetupSteps ==
    ASSUME Plain
    PROVE  GInv /\ GInv' /\ Orderly /\ HaltedHasConfig /\ [Next]_vars =>
              [S!Next]_S!vars /\ HaltedHasConfig'
<1> SUFFICES ASSUME GInv, GInv', Orderly, HaltedHasConfig, [Next]_vars
             PROVE  [S!Next]_S!vars /\ HaltedHasConfig'
  OBVIOUS
<1>1. ~AutoRetry /\ ~MayRestart /\ ~MayReconfigure
  BY DEF Plain
<1>2. Agreed(core, setup, conf, phase)
  BY DEF GInv
<1>3. CASE phase' = phase /\ core'.fsm = core.fsm /\ core'.state = core.state /\ setup' = setup
  <2>1. Session' = Session
    BY <1>3, SessionStays
  <2>2. QED
    BY <1>3, <2>1 DEF S!vars, HaltedHasConfig
<1>4. CASE EnterCloud
  BY <1>1, <1>4, EnterMaps
<1>5. CASE \E u \in Users : Login(u)
  <2>1. /\ setup'.cfg = setup.cfg /\ core' = core /\ phase' = phase
        /\ \E u \in Users : setup' = [setup EXCEPT !.auth = u, !.closeAuth = u]
    BY <1>2, <1>5 DEF Login, Agreed, SP!SetupType, tunnelVars
  <2>2. Session' = Session
    BY <2>1, SessionStays
  <2>3. QED
    BY <2>1, <2>2 DEF S!Next, S!Login, HaltedHasConfig
<1>6. CASE Start \/ DelayedStart
  <2>1. phase = "idle" /\ core.fsm = "off"
    BY <1>1, <1>6, StartsAtRest
  <2>2. CASE Begin(core)
    BY <1>1, <2>1, <2>2, BeginMaps DEF S!Next
  <2>3. CASE /\ core' = [core EXCEPT !.busy = TRUE,
                                      !.wait = core.state \notin {"Connect", "Cloud"}]
             /\ UNCHANGED <<setup, tunnelVars>>
    BY <1>2, <1>3, <2>3 DEF Agreed, CoreType, tunnelVars
  <2>4. QED
    BY <1>6, <2>2, <2>3 DEF Start, DelayedStart
<1>7. CASE Stop
  <2>1. PICK r : r = StopOutcome
    OBVIOUS
  <2>2. /\ r \in {"closing", "stopped"} /\ ~core.busy
        /\ r = "closing" => core.state \in {"Connect", "Cloud"}
    BY <1>7, <2>1, Outcomes DEF Stop, StopOutcome
  <2>3. phase # "closing" /\ (r = "closing" => phase = "started")
    BY <1>2, <2>2 DEF Agreed, Phases
  <2>4. Session # "closing" /\ (r = "closing" => Session = "online")
    BY <2>3, SessionIs DEF Phases, FsmStates
  <2>5. core' = Stopping(core, r) /\ setup' = S!Answered(setup, SetupAnswer(r)) /\ T!Stop(r)
    BY <1>7, <2>1 DEF Stop, CoreStops
  <2>6. /\ core'.fsm = "off"
        /\ r = "stopped" => core'.state = "Idle"
    BY <1>2, <2>2, <2>5 DEF Stopping, Agreed, CoreType
  <2>7. phase' = IF r = "closing" THEN "closing" ELSE "idle"
    BY <2>2, <2>5, CoreStopsCloud
  <2>8. S!UserStop /\ HaltedHasConfig'
    BY <2>2, <2>4, <2>5, <2>6, <2>7, StopMaps
  <2>9. QED
    BY <2>8 DEF S!Next
<1>8. CASE core.fsm # "entering" /\ \E own \in BOOLEAN : SetupReply(own)
  <2>1. PICK own \in BOOLEAN : SetupReply(own)
    BY <1>8
  <2>2. S!Reply(own) /\ HaltedHasConfig'
    BY <1>1, <1>8, <2>1, ReplyMaps
  <2>3. QED
    BY <2>2 DEF S!Next
<1>9. CASE core.fsm # "entering" /\ SetupRetry
  BY <1>1, <1>9, RetryMaps DEF S!Next
<1>10. CASE CloseReply
  <2>1. core'.state = "Idle" /\ setup.closing /\ setup' = S!Closed(setup)
    BY <1>2, <1>10 DEF CloseReply, Agreed, CoreType, CoreStates
  <2>2. Session' = "idle"
    BY <2>1, SessionNext
  <2>3. QED
    BY <2>1, <2>2 DEF S!Next, S!CloseReply, HaltedHasConfig
<1>11. CASE core.fsm # "entering" /\ CloudEvent
  BY <1>1, <1>11, CloudMaps
<1>12. CASE UNCHANGED vars
  BY <1>3, <1>12 DEF vars, tunnelVars
<1>13. CASE CredentialsChange
  <2>1. /\ setup'.cfg = setup.cfg /\ core' = core /\ phase' = phase
        /\ setup' = [setup EXCEPT !.usable = ~setup.usable]
    BY <1>2, <1>13 DEF CredentialsChange, Agreed, SP!SetupType, tunnelVars
  <2>2. Session' = Session
    BY <2>1, SessionStays
  <2>3. QED
    BY <2>1, <2>2 DEF S!Next, S!CredentialsChange, HaltedHasConfig
<1>14. QED
  BY <1>1, <1>4, <1>5, <1>6, <1>7, <1>8, <1>9, <1>10, <1>11, <1>12, <1>13
  DEF Next, Event, Reconfigure

\* Core starts the Setup module only from rest, answers its errors as it was
\* assumed to, and changes it in no other way: every theorem about QccSetup
\* holds inside the service.
THEOREM SetupIsDrivenByCore ==
    ASSUME Plain
    PROVE  Spec => CoreDrivesSetup
<1>1. Init => S!Init /\ HaltedHasConfig
  BY ServiceAssumption DEF Init, T!Init, S!Init, Session, HaltedHasConfig
<1>2. GInv /\ GInv' /\ Orderly /\ HaltedHasConfig /\ [Next]_vars =>
         [S!Next]_S!vars /\ HaltedHasConfig'
  BY SetupSteps
<1>3. ~AutoRetry /\ ~MayRestart
  BY DEF Plain
<1>4. Spec => []Orderly
  BY <1>3, Order
<1>5. QED
  BY <1>1, <1>2, <1>4, Agreement, PTL DEF Spec, CoreDrivesSetup, S!Spec

-----------------------------------------------------------------------------
(* The states of the status are those of the life cycle.                     *)

\* The stage as a value of what it is made of.
LEMMA StageIs ==
    ASSUME GInv, Orderly
    PROVE  /\ phase = "closing" => Stage = "closing"
           /\ phase = "started" => Stage = "cloud"
           /\ phase = "idle" /\ core.fsm = "entering" => Stage = "cloud"
           /\ phase = "idle" /\ core.fsm = "setup" => Stage = "setup"
           /\ phase = "idle" /\ core.fsm = "off" => Stage = "none"
           /\ core.fsm \in FsmStates /\ phase \in Phases
           /\ core.fsm \in {"setup", "entering"} => phase = "idle"
           /\ core.fsm = "cloud" => phase = "started"
BY DEF Stage, GInv, Agreed, Orderly, CoreType, FsmStates, Phases

LEMMA StageNext ==
    ASSUME GInv'
    PROVE  /\ phase' = "closing" => Stage' = "closing"
           /\ phase' = "started" => Stage' = "cloud"
           /\ phase' = "idle" /\ core'.fsm = "entering" => Stage' = "cloud"
           /\ phase' = "idle" /\ core'.fsm = "setup" => Stage' = "setup"
           /\ phase' = "idle" /\ core'.fsm = "off" => Stage' = "none"
BY DEF Stage, GInv, Agreed, CoreType, FsmStates, Phases

LEMMA StageStays ==
    ASSUME phase' = phase, core'.fsm = core.fsm
    PROVE  Stage' = Stage
BY DEF Stage

\* An error ends what was started, or finds the service at rest or closing.
LEMMA FailureFollows ==
    ASSUME GInv, GInv', Orderly, ~AutoRetry, core.fsm # "entering",
           NEW r, r = ErrorOutcome, CoreFails(core, r),
           phase' = IF r = "none" THEN phase ELSE IF r = "closing" THEN "closing" ELSE "idle"
    PROVE  L!Fail
<1>1. r = StopOutcome /\ r \in {"none", "closing", "stopped"}
  BY NotForced, Outcomes
<1>2. core'.state = "Error" /\ core'.fsm = IF r = "none" THEN core.fsm ELSE "off"
  BY <1>1, FailedCore DEF GInv, Agreed
<1>3. CASE r = "none"
  <2>1. Stage' = Stage
    BY <1>2, <1>3, StageStays
  <2>2. core.state = "Idle" \/ core.busy
    BY <1>1, <1>3 DEF StopOutcome
  <2>3. Stage \notin {"setup", "cloud"}
    BY <2>2, StageIs DEF Orderly, Phases, FsmStates
  <2>4. QED
    BY <1>2, <2>1, <2>3 DEF L!Fail
<1>4. CASE r = "closing"
  <2>1. core.state \in {"Connect", "Cloud"} /\ ~core.busy
    BY <1>1, <1>4 DEF StopOutcome
  <2>2. phase = "started"
    BY <2>1 DEF GInv, Agreed, Phases
  <2>3. Stage = "cloud" /\ Stage' = "closing"
    BY <1>4, <2>2, StageIs, StageNext
  <2>4. QED
    BY <1>2, <2>1, <2>3 DEF L!Fail, L!Ends, L!Online
<1>5. CASE r = "stopped"
  <2>1. core.state \notin {"Connect", "Cloud"} /\ ~core.busy
    BY <1>1, <1>5 DEF StopOutcome
  <2>2. phase # "closing"
    BY <2>1 DEF GInv, Agreed
  <2>3. Stage \in {"none", "setup", "cloud"}
    BY <2>2, StageIs DEF Phases, FsmStates
  <2>4. Stage' = "none"
    BY <1>2, <1>5, StageNext
  <2>5. QED
    BY <1>2, <2>1, <2>3, <2>4 DEF L!Fail, L!Ends, L!Online
<1>6. QED
  BY <1>1, <1>3, <1>4, <1>5

LEMMA SetupErrorFollows ==
    ASSUME GInv, GInv', Orderly, ~AutoRetry, core.fsm # "entering",
           NEW r, r = ErrorOutcome, NEW s, CoreFails(core, r), TunnelAfterSetup(s, r)
    PROVE  L!Fail
<1>1. r \in {"none", "closing", "stopped"}
  BY Outcomes
<1>2. phase' = IF r = "none" THEN phase ELSE IF r = "closing" THEN "closing" ELSE "idle"
  BY <1>1, CoreStopsCloud DEF TunnelAfterSetup
<1>3. QED
  BY <1>2, FailureFollows

\* A start from rest begins a session, or fails at once.
LEMMA BeginFollows ==
    ASSUME GInv, GInv', Orderly, ~AutoRetry, phase = "idle", core.fsm = "off", Begin(core)
    PROVE  L!Start \/ L!Fail
<1> DEFINE d == [core EXCEPT !.busy = FALSE, !.wait = FALSE, !.fsm = "setup", !.state = "Setup"]
<1>1. d \in CoreType /\ d.fsm = "setup" /\ d.state = "Setup"
  BY DEF GInv, Agreed, CoreType, CoreStates, FsmStates
<1>2. Stage = "none"
  BY StageIs
<1>3. CASE core' = d /\ UNCHANGED tunnelVars
  <2>1. Stage' = "setup"
    BY <1>1, <1>3, StageNext DEF tunnelVars
  <2>2. QED
    BY <1>1, <1>2, <1>3, <2>1 DEF L!Start
<1>4. CASE CoreFails(d, "stopped") /\ TunnelAfterSetup(setup', "stopped")
  <2> HIDE DEF d
  <2>1. core'.state = "Error" /\ core'.fsm = "off"
    BY <1>1, <1>4, FailedCore
  <2>2. phase' = "idle"
    BY <1>4, CoreStopsCloud DEF TunnelAfterSetup
  <2>3. Stage' = "none"
    BY <2>1, <2>2, StageNext
  <2>4. QED
    BY <1>2, <2>1, <2>3 DEF L!Fail
<1>5. QED
  BY <1>3, <1>4, NotForced DEF Begin

\* Core's state machine is stopped, and nothing else of what is shown changes.
LEMMA HaltFollows ==
    ASSUME GInv, GInv', Orderly, core.fsm # "entering",
           core'.fsm = "off", core'.state = core.state, phase' = phase
    PROVE  L!Halt \/ UNCHANGED <<core.state, Stage>>
<1>1. CASE core.fsm = "setup"
  <2>1. Stage = "setup" /\ Stage' = "none"
    BY <1>1, StageIs, StageNext
  <2>2. QED
    BY <2>1 DEF L!Halt
<1>2. CASE core.fsm # "setup"
  <2>1. Stage' = Stage
    BY <1>2, StageIs, StageNext DEF Phases, FsmStates
  <2>2. QED
    BY <2>1
<1>3. QED
  BY <1>1, <1>2

LEMMA ReplyFollows ==
    ASSUME GInv, GInv', Orderly, ~AutoRetry, core.fsm # "entering",
           NEW own \in BOOLEAN, SetupReply(own)
    PROVE  [L!Next]_<<core.state, Stage>>
<1>1. PICK u \in Users, o \in S!Outcomes, fb \in BOOLEAN :
        \/ SetupFails(Taking(own, u), u, o, fb)
        \/ SetupCompletes(Taking(own, u), u, fb)
  BY DEF SetupReply, Taking
<1> DEFINE s == Taking(own, u)
<1> HIDE DEF s
<1>2. core \in CoreType
  BY DEF GInv, Agreed
<1>3. CASE SetupFails(s, u, o, fb) /\ o = "domains"
  <2>1. core'.fsm = "off" /\ phase' = phase /\ core'.state = core.state
    BY <1>2, <1>3 DEF SetupFails, CoreType, tunnelVars
  <2>2. QED
    BY <2>1, HaltFollows DEF L!Next
<1>4. CASE SetupFails(s, u, o, fb) /\ o # "domains"
  <2>1. PICK r : r = ErrorOutcome
    OBVIOUS
  <2>2. CoreFails(core, r) /\ TunnelAfterSetup(setup', r)
    BY <1>4, <2>1 DEF SetupFails
  <2>3. QED
    BY <2>1, <2>2, SetupErrorFollows DEF L!Next
<1>5. CASE SetupCompletes(s, u, fb)
  <2>1. /\ core'.fsm = IF core.fsm = "setup" THEN "entering" ELSE core.fsm
        /\ core'.state = core.state /\ phase' = phase
    BY <1>2, <1>5 DEF SetupCompletes, TunnelAfterSetup, CoreType
  <2>2. CASE core.fsm = "setup"
    <3>1. Stage = "setup" /\ Stage' = "cloud"
      BY <2>1, <2>2, StageIs, StageNext
    <3>2. QED
      BY <2>1, <3>1 DEF L!Next, L!Complete
  <2>3. CASE core.fsm # "setup"
    BY <2>1, <2>3, StageStays
  <2>4. QED
    BY <2>2, <2>3
<1>6. QED
  BY <1>1, <1>3, <1>4, <1>5 DEF s

LEMMA EnterFollows ==
    ASSUME GInv, GInv', Orderly, ~AutoRetry, EnterCloud
    PROVE  [L!Next]_<<core.state, Stage>>
<1> DEFINE c == [core EXCEPT !.fsm = "cloud"]
<1>1. /\ core.fsm = "entering" /\ core.state = "Setup" /\ ~core.busy /\ phase = "idle"
      /\ core \in CoreType
  BY DEF GInv, Agreed, EnterCloud, Orderly
<1>2. c \in CoreType /\ c.state = "Setup" /\ ~c.busy
  BY <1>1 DEF CoreType, FsmStates
<1>3. Stage = "cloud"
  BY <1>1, StageIs
<1> HIDE DEF c
<1>4. PICK sig \in TP!Signals, r \in TP!Reactions :
        CoreHears(c, sig, r) /\ TP!Start(sig, r)
  BY SameTunnel, SameStart DEF EnterCloud, c
<1>5. sig \in {"none", "error"} /\ TP!CoreAnswers("started", r)
  BY <1>4, TP!StartSignals, ServiceAssumption
<1>6. CASE sig = "none"
  <2>1. r = "none" /\ core' = c
    BY <1>4, <1>6 DEF CoreHears
  <2>2. Stage' = "cloud"
    BY <1>5, <2>1, StageNext DEF TP!CoreAnswers
  <2>3. QED
    BY <1>1, <1>2, <1>3, <2>1, <2>2
<1>7. CASE sig = "error"
  <2>1. r = "stopped" /\ CoreFails(c, r)
    BY <1>1, <1>4, <1>7, NotForced DEF CoreHears, StopOutcome
  <2>2. core'.state = "Error" /\ core'.fsm = "off"
    BY <1>2, <2>1, FailedCore
  <2>3. phase' = "idle"
    BY <1>5, <2>1 DEF TP!CoreAnswers
  <2>4. Stage' = "none"
    BY <2>2, <2>3, StageNext
  <2>5. L!Fail
    BY <1>1, <1>3, <2>2, <2>4 DEF L!Fail, L!Ends, L!Online
  <2>6. QED
    BY <2>5 DEF L!Next
<1>8. QED
  BY <1>5, <1>6, <1>7

LEMMA CloudFollows ==
    ASSUME GInv, GInv', Orderly, ~AutoRetry, core.fsm # "entering", CloudEvent
    PROVE  [L!Next]_<<core.state, Stage>>
<1>1. core \in CoreType /\ phase \in Phases
  BY DEF GInv, Agreed
<1>2. CASE \E sig \in T!Signals, r \in T!Reactions :
              CoreHears(core, sig, r) /\ T!CloudEvent(sig, r)
  <2>1. PICK sig \in TP!Signals, r \in TP!Reactions :
          CoreHears(core, sig, r) /\ TP!CloudEvent(sig, r)
    BY <1>2, SameTunnel, SameEvent
  <2>2. TP!CoreAnswers(phase, r)
    BY <2>1, TP!EventAnswers, ServiceAssumption
  <2>3. phase = "idle" => sig = "none"
    BY <2>1, TP!IdleIsSilent, ServiceAssumption DEF GInv
  <2>4. CASE sig = "error"
    <3>1. r = ErrorOutcome /\ CoreFails(core, r)
      BY <2>1, <2>4 DEF CoreHears
    <3>2. r \in {"none", "closing", "stopped"}
      BY <3>1, Outcomes
    <3>3. phase' = IF r = "none" THEN phase ELSE IF r = "closing" THEN "closing" ELSE "idle"
      BY <2>2, <3>2 DEF TP!CoreAnswers
    <3>4. QED
      BY <3>1, <3>3, FailureFollows DEF L!Next
  <2>5. CASE sig = "none"
    <3>1. core' = core /\ phase' = phase
      BY <2>1, <2>2, <2>5 DEF CoreHears, TP!CoreAnswers
    <3>2. QED
      BY <3>1, StageStays
  <2>6. CASE sig \in {"connect", "cloud"}
    <3>1. phase' = phase /\ phase # "idle"
      BY <2>1, <2>2, <2>3, <2>6 DEF CoreHears, TP!CoreAnswers
    <3>2. core' \in {[core EXCEPT !.state = "Connect"], [core EXCEPT !.state = "Cloud"]}
      BY <2>1, <2>6 DEF CoreHears
    <3>3. core'.state \in {"Connect", "Cloud"} /\ core'.fsm = core.fsm
      BY <1>1, <3>2 DEF CoreType
    <3>4. Stage' = Stage /\ Stage \in {"cloud", "closing"}
      BY <1>1, <3>1, <3>3, StageStays, StageIs DEF Phases
    <3>5. QED
      BY <3>3, <3>4 DEF L!Next, L!Connect
  <2>7. QED
    BY <2>4, <2>5, <2>6 DEF TP!Signals
<1>3. CASE (T!ProcessExits \/ T!ConnTimerRuns) /\ UNCHANGED <<core, setup>>
  BY <1>3, StageStays DEF T!ProcessExits, T!ConnTimerRuns
<1>4. QED
  BY <1>2, <1>3 DEF CloudEvent

LEMMA LifecycleSteps ==
    ASSUME ~AutoRetry, ~MayRestart
    PROVE  GInv /\ GInv' /\ Orderly /\ [Next]_vars => [L!Next]_L!vars
<1> SUFFICES ASSUME GInv, GInv', Orderly, [Next]_vars
             PROVE  [L!Next]_<<core.state, Stage>>
  BY DEF L!vars
<1>1. Agreed(core, setup, conf, phase)
  BY DEF GInv
<1>2. CASE UNCHANGED <<core, phase>>
  BY <1>2, StageStays
<1>3. CASE EnterCloud
  BY <1>3, EnterFollows
<1>4. CASE Start \/ DelayedStart
  <2>1. phase = "idle" /\ core.fsm = "off"
    BY <1>4, StartsAtRest
  <2>2. CASE Begin(core)
    BY <2>1, <2>2, BeginFollows DEF L!Next
  <2>3. CASE /\ core' = [core EXCEPT !.busy = TRUE,
                                      !.wait = core.state \notin {"Connect", "Cloud"}]
             /\ UNCHANGED tunnelVars
    <3>1. core'.fsm = core.fsm /\ core'.state = core.state /\ phase' = phase
      BY <1>1, <2>3 DEF Agreed, CoreType, tunnelVars
    <3>2. QED
      BY <3>1, StageStays
  <2>4. QED
    BY <1>4, <2>2, <2>3 DEF Start, DelayedStart
<1>5. CASE Stop
  <2>1. PICK r : r = StopOutcome
    OBVIOUS
  <2>2. /\ r \in {"closing", "stopped"} /\ ~core.busy /\ core.state # "Idle"
        /\ r = "closing" <=> core.state \in {"Connect", "Cloud"}
    BY <1>5, <2>1, Outcomes DEF Stop, StopOutcome
  <2>3. core' = Stopping(core, r) /\ T!Stop(r)
    BY <1>5, <2>1 DEF Stop, CoreStops
  <2>4. /\ core'.fsm = "off"
        /\ core'.state = IF r = "closing" THEN core.state ELSE "Idle"
    BY <1>1, <2>2, <2>3 DEF Stopping, Agreed, CoreType
  <2>5. phase' = IF r = "closing" THEN "closing" ELSE "idle"
    BY <2>2, <2>3, CoreStopsCloud
  <2>6. Stage' = IF r = "closing" THEN "closing" ELSE "none"
    BY <2>2, <2>4, <2>5, StageNext
  <2>7. Stage # "closing"
    BY <1>1, <2>2, StageIs DEF Agreed, Phases, FsmStates
  <2>8. QED
    BY <2>2, <2>4, <2>6, <2>7 DEF L!Next, L!Stop, L!Ends, L!Online
<1>6. CASE core.fsm # "entering" /\ Reconfigure
  <2>1. core'.fsm = "off" /\ core'.state = core.state /\ phase' = phase
    BY <1>1, <1>6 DEF Reconfigure, Agreed, CoreType
  <2>2. QED
    BY <1>6, <2>1, HaltFollows DEF L!Next
<1>7. CASE core.fsm # "entering" /\ \E own \in BOOLEAN : SetupReply(own)
  BY <1>7, ReplyFollows
<1>8. CASE core.fsm # "entering" /\ SetupRetry
  <2>1. CASE UNCHANGED <<core, tunnelVars>>
    BY <1>2, <2>1 DEF tunnelVars
  <2>2. CASE CoreFails(core, ErrorOutcome) /\ TunnelAfterSetup(setup', ErrorOutcome)
    <3>1. PICK r : r = ErrorOutcome
      OBVIOUS
    <3>2. QED
      BY <1>8, <2>2, <3>1, SetupErrorFollows DEF L!Next
  <2>3. QED
    BY <1>8, <2>1, <2>2 DEF SetupRetry
<1>9. CASE CloseReply
  <2>1. phase = "closing" /\ phase' = "idle" /\ core'.state = "Idle" /\ core'.fsm = "off"
    BY <1>1, <1>9 DEF CloseReply, T!CloseReply, Agreed, CoreType, CoreStates
  <2>2. Stage = "closing" /\ Stage' = "none"
    BY <2>1, StageIs, StageNext
  <2>3. QED
    BY <2>1, <2>2 DEF L!Next, L!Closed
<1>10. CASE core.fsm # "entering" /\ CloudEvent
  BY <1>10, CloudFollows
<1>11. QED
  BY <1>2, <1>3, <1>4, <1>5, <1>6, <1>7, <1>8, <1>9, <1>10
  DEF Next, Event, Login, CredentialsChange, vars, tunnelVars

\* Service implements Lifecycle: whatever answers come late, whatever the
\* cloud does while the session closes, and also when clients reconfigure it at
\* any time, the status goes through the states of one session after the other.
\* It is about applications whose clients do not start a service that runs.
THEOREM ServiceFollowsLifecycle ==
    ASSUME ~AutoRetry, ~MayRestart
    PROVE  Spec => FollowsLifecycle
<1>1. Init => L!Init
  BY DEF Init, T!Init, L!Init, Stage
<1>2. GInv /\ GInv' /\ Orderly /\ [Next]_vars => [L!Next]_L!vars
  BY LifecycleSteps
<1>3. QED
  BY <1>1, <1>2, Order, Agreement, PTL DEF Spec, FollowsLifecycle, L!Spec

=============================================================================
