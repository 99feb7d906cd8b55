---------------------------- MODULE TunnelProofs ----------------------------
(***************************************************************************)
(* Proofs about Tunnel, for every value of its constants.  The invariant   *)
(* Inductive is preserved by each event: most events either leave the      *)
(* manager attached to the same process, or end in one of the two ways of  *)
(* giving a connection up, Cloud::stop and Cloud::_restart, whose common   *)
(* effect is stated once, as AtRest.                                       *)
(***************************************************************************)
EXTENDS Tunnel, TLAPS

ClientType == [st : ClientStates, process : ProcessStates]
ManagerType == [st : ManagerStates, err : ManagerErrors, polling : BOOLEAN,
                connTimer : TimerStates, retries : 0 .. AttachRetries]
SocketType == [st : SocketStates, asked : BOOLEAN]
CloudType == [isFallback : BOOLEAN, retry : BOOLEAN, backoff : Exponents]

\* No process, in a state that allows a start; a quiet manager, no socket.
AtRest ==
    /\ client \in ClientType
    /\ client.process = "none" /\ client.st \in {"Idle", "Configured"}
    /\ manager \in ManagerType
    /\ manager.st = "Detached"
    /\ socket \in SocketType /\ socket = NoSocket
    /\ ~manager.polling /\ manager.connTimer = "off" /\ manager.err = "none"

\* A client record and a manager record a handler may have made so far.
Sound(c, m) ==
    /\ c \in ClientType
    /\ c.process = "none" <=> c.st \in {"Idle", "Configured"}
    /\ m \in ManagerType
    /\ m.st = "Detached" =>
          socket = NoSocket /\ ~m.polling /\ m.connTimer = "off" /\ m.err = "none"

\* Detaching brings the manager to rest.
LEMMA DetachRests ==
    ASSUME NEW m \in ManagerType, socket \in SocketType,
           m.st = "Detached" =>
              socket = NoSocket /\ ~m.polling /\ m.connTimer = "off" /\ m.err = "none",
           Detach(m)
    PROVE  /\ manager' \in ManagerType
           /\ manager'.st = "Detached"
           /\ ~manager'.polling /\ manager'.connTimer = "off" /\ manager'.err = "none"
           /\ socket' = NoSocket /\ socket' \in SocketType
<1>1. NoSocket \in SocketType
  BY DEF NoSocket, SocketType, SocketStates
<1>2. CASE m.st = "Detached"
  BY <1>1, <1>2 DEF Detach, Detached
<1>3. CASE m.st # "Detached"
  BY <1>1, <1>3, TunnelAssumption
  DEF Detach, Detached, ManagerType, ManagerStates, ManagerErrors, TimerStates
<1>4. QED
  BY <1>2, <1>3

\* Stopping leaves the client without a process, ready for a start.
LEMMA StopRests ==
    ASSUME NEW c \in ClientType,
           c.process = "none" <=> c.st \in {"Idle", "Configured"}
    PROVE  /\ Stopped(c) \in ClientType
           /\ Stopped(c).process = "none"
           /\ Stopped(c).st \in {"Idle", "Configured"}
BY DEF Stopped, ClientType, ClientStates, ProcessStates

\* A Retry starts from the first exponent and takes the next ones it reaches.
LEMMA OneIsReached == 1 \in Exponents
BY DEF Exponents

LEMMA BackoffType == ASSUME NEW n \in Exponents PROVE Backoff(n) \in Exponents
<1>1. n \in Nat \ {0}
  BY DEF Exponents
<1>2. CASE 2 ^ n < DelayMax
  <2>1. n + 1 \in Nat \ {0} /\ (n + 1) - 1 = n
    BY <1>1
  <2>2. QED
    BY <1>2, <2>1 DEF Backoff, Exponents
<1>3. CASE ~(2 ^ n < DelayMax)
  BY <1>3 DEF Backoff
<1>4. QED
  BY <1>2, <1>3

\* Cloud::stop leaves everything at rest, without a retry.
LEMMA StopAllRests ==
    ASSUME NEW c, NEW m, NEW fb \in BOOLEAN, socket \in SocketType,
           Sound(c, m), StopAll(c, m, fb)
    PROVE  AtRest' /\ cloud' \in CloudType /\ ~cloud'.retry /\ cloud'.isFallback = fb
<1>1. client' \in ClientType /\ client'.process = "none" /\ client'.st \in {"Idle", "Configured"}
  BY StopRests DEF StopAll, Sound
<1>2. AtRest'
  BY <1>1, DetachRests DEF StopAll, Sound, AtRest
<1>3. QED
  BY <1>2, OneIsReached DEF StopAll, CloudType

\* Cloud::_restart leaves everything at rest, with a retry to come.
LEMMA RestartRests ==
    ASSUME NEW c, NEW m, NEW k \in CloudType, NEW fb \in BOOLEAN, socket \in SocketType,
           Sound(c, m), Restart(c, m, k, fb)
    PROVE  AtRest' /\ cloud' \in CloudType /\ cloud'.retry /\ cloud'.isFallback = fb
<1>1. client' \in ClientType /\ client'.process = "none" /\ client'.st \in {"Idle", "Configured"}
  BY StopRests DEF Restart, Sound
<1>2. AtRest'
  BY <1>1, DetachRests DEF Restart, Sound, AtRest
<1>3. k.backoff \in Exponents
  BY DEF CloudType
<1>4. Backoff(k.backoff) \in Exponents
  BY <1>3, BackoffType
<1>5. QED
  BY <1>2, <1>4 DEF Restart, CloudType

-----------------------------------------------------------------------------

IInv == TypeOK /\ Inductive

\* The records a handler has made satisfy the invariant's conditions on them.
Fits(c, m, x, k) ==
    /\ Sound(c, m)
    /\ x \in SocketType
    /\ m.st # "Detached"
    /\ c.process # "none" /\ c.process # "starting"
    /\ x.st = "connecting" => m.st = "Attaching"
    /\ x.st = "open" => m.st = "Attached"
    /\ ~k.retry

\* The same for a manager that is detached.
FitsDetached(c, m, x, k) ==
    /\ Sound(c, m)
    /\ m.st = "Detached"
    /\ x = socket
    /\ k.retry => c.process = "none"

\* At rest with a retry to come, in a phase that is not idle.
LEMMA RestartStep ==
    ASSUME NEW fb \in BOOLEAN,
           AtRest', cloud' \in CloudType, cloud'.retry, cloud'.isFallback = fb,
           conf' \in [agent : BOOLEAN, fallback : BOOLEAN],
           reattach' \in 0 .. MaxTimers,
           phase' \in {"started", "closing"},
           phase' = "started" /\ fb => conf'.fallback
    PROVE  IInv'
<1>1. TypeOK'
  BY DEF AtRest, TypeOK, ClientType, ManagerType, SocketType, CloudType
<1>2. Inductive'
  BY DEF AtRest, Inductive, ClientConsistent, ManagerNeedsProcess, DetachedIsQuiet,
         SocketFollowsManager, LaunchIsUnmanaged, RetryWithoutProcess, IdleIsStopped,
         Watched, FallbackIsConfigured, NoSocket
<1>3. QED
  BY <1>1, <1>2 DEF IInv

\* At rest without a retry, because Core has stopped.
LEMMA StopStep ==
    ASSUME AtRest', cloud' \in CloudType, ~cloud'.retry,
           conf' \in [agent : BOOLEAN, fallback : BOOLEAN],
           reattach' \in 0 .. MaxTimers,
           phase' = "idle"
    PROVE  IInv'
<1>1. TypeOK'
  BY DEF AtRest, TypeOK, ClientType, ManagerType, SocketType, CloudType
<1>2. Inductive'
  BY DEF AtRest, Inductive, ClientConsistent, ManagerNeedsProcess, DetachedIsQuiet,
         SocketFollowsManager, LaunchIsUnmanaged, RetryWithoutProcess, IdleIsStopped,
         Watched, FallbackIsConfigured, NoSocket
<1>3. QED
  BY <1>1, <1>2 DEF IInv

\* Nothing is given up yet: Core is closing.
LEMMA ClosingStep ==
    ASSUME NEW c, NEW m, NEW x, NEW k \in CloudType, NEW fb \in BOOLEAN,
           IInv,
           Fits(c, m, x, k) \/ FitsDetached(c, m, x, k),
           client' = c, manager' = m, socket' = x,
           cloud' = [k EXCEPT !.isFallback = fb],
           conf' \in [agent : BOOLEAN, fallback : BOOLEAN],
           reattach' \in 0 .. MaxTimers,
           phase' = "closing"
    PROVE  IInv'
<1>1. cloud' \in CloudType /\ cloud'.retry = k.retry
  BY DEF CloudType
<1>2. socket \in SocketType
  BY DEF IInv, TypeOK, SocketType
<1>3. TypeOK'
  BY <1>1, <1>2 DEF Fits, FitsDetached, Sound, TypeOK, ClientType, ManagerType, SocketType, CloudType
<1>4. Inductive'
  BY <1>1, <1>2 DEF Fits, FitsDetached, Sound, Inductive, ClientConsistent, ManagerNeedsProcess,
         DetachedIsQuiet, SocketFollowsManager, LaunchIsUnmanaged, RetryWithoutProcess,
         IdleIsStopped, Watched, FallbackIsConfigured, NoSocket, ClientType, ManagerType
<1>5. QED
  BY <1>3, <1>4 DEF IInv

\* What Core's answer does to the configuration and to the phase.
LEMMA CoreAnswersType ==
    ASSUME NEW p \in {"idle", "started", "closing"}, NEW r \in Reactions,
           TypeOK, CoreAnswers(p, r)
    PROVE  /\ conf' \in [agent : BOOLEAN, fallback : BOOLEAN]
           /\ r = "none" => phase' = p /\ conf' = conf
           /\ r = "closing" => phase' = "closing"
           /\ r = "stopped" => phase' = "idle"
BY DEF CoreAnswers, TypeOK, Reactions

\* An error that Cloud reports to Core and acts upon.
LEMMA FailStep ==
    ASSUME NEW c, NEW m, NEW x, NEW k \in CloudType, NEW fb \in BOOLEAN,
           NEW sig \in Signals, NEW r \in Reactions, NEW p \in {"started", "closing"},
           IInv,
           Fits(c, m, x, k) \/ FitsDetached(c, m, x, k),
           p = "closing" <=> phase = "closing",
           p = "started" /\ fb => conf.fallback,
           CoreMayAnswer(sig, r),
           Fail(c, m, x, k, fb, sig, r),
           CoreAnswers(p, r),
           reattach' = reattach
    PROVE  IInv'
<1>1. socket \in SocketType /\ TypeOK /\ reattach' \in 0 .. MaxTimers
  BY DEF IInv, TypeOK, SocketType
<1>2. Sound(c, m)
  BY DEF Fits, FitsDetached
<1>3. /\ conf' \in [agent : BOOLEAN, fallback : BOOLEAN]
      /\ r = "none" => phase' = p /\ conf' = conf
      /\ r = "closing" => phase' = "closing"
      /\ r = "stopped" => phase' = "idle"
  BY <1>1, CoreAnswersType
<1>4. CASE Forced /\ r = "none" /\ Restart(c, m, k, fb)
  <2>1. AtRest' /\ cloud' \in CloudType /\ cloud'.retry /\ cloud'.isFallback = fb
    BY <1>1, <1>2, <1>4, RestartRests
  <2>2. QED
    BY <1>1, <1>3, <1>4, <2>1, RestartStep
<1>5. CASE ~Forced /\ r = "stopped" /\ StopAll(c, m, fb)
  <2>1. AtRest' /\ cloud' \in CloudType /\ ~cloud'.retry
    BY <1>1, <1>2, <1>5, StopAllRests
  <2>2. QED
    BY <1>1, <1>3, <1>5, <2>1, StopStep
<1>6. CASE /\ ~Forced /\ r # "stopped"
           /\ manager' = m /\ client' = c
           /\ socket' = x
           /\ cloud' = [k EXCEPT !.isFallback = fb]
  <2>1. sig = "error"
    BY DEF Fail
  <2>2. phase' = "closing"
    BY <1>3, <1>6, <2>1 DEF CoreMayAnswer, Reactions
  <2>3. QED
    BY <1>1, <1>3, <1>6, <2>2, ClosingStep
<1>7. QED
  BY <1>4, <1>5, <1>6 DEF Fail

\* An error upon which Cloud moves to the fallback configuration.
LEMMA FallBackStep ==
    ASSUME NEW c, NEW m, NEW k \in CloudType, NEW sig, NEW r \in Reactions,
           NEW p \in {"started", "closing"},
           IInv, Sound(c, m), conf.fallback,
           FallBack(c, m, k, sig, r),
           CoreAnswers(p, r),
           reattach' = reattach
    PROVE  IInv'
<1>1. socket \in SocketType /\ TypeOK /\ reattach' \in 0 .. MaxTimers
  BY DEF IInv, TypeOK, SocketType
<1>2. AtRest' /\ cloud' \in CloudType /\ cloud'.retry /\ cloud'.isFallback = TRUE
  BY <1>1, RestartRests DEF FallBack
<1>3. conf' \in [agent : BOOLEAN, fallback : BOOLEAN] /\ phase' = p /\ conf' = conf
  BY <1>1, CoreAnswersType DEF FallBack
<1>4. QED
  BY <1>1, <1>2, <1>3, RestartStep

\* Cloud::_vpnClientErr
LEMMA ClientErrStep ==
    ASSUME NEW c, NEW k \in CloudType,
           NEW sig \in Signals, NEW r \in Reactions, NEW p \in {"started", "closing"},
           IInv,
           Fits(c, manager, socket, k) \/ FitsDetached(c, manager, socket, k),
           p = "closing" <=> phase = "closing",
           p = "started" /\ k.isFallback => conf.fallback,
           CoreMayAnswer(sig, r),
           ClientErr(c, k, sig, r),
           CoreAnswers(p, r),
           reattach' = reattach
    PROVE  IInv'
<1>1. Sound(c, manager) /\ k.isFallback \in BOOLEAN
  BY DEF Fits, FitsDetached, CloudType
<1>2. CASE FallsBack(k)
  BY <1>1, <1>2, FallBackStep DEF ClientErr, FallsBack
<1>3. CASE ~FallsBack(k)
  <2>1. Fail(c, manager, socket, k, k.isFallback, sig, r)
    BY <1>3 DEF ClientErr
  <2>2. QED
    BY <1>1, <2>1, FailStep
<1>4. QED
  BY <1>2, <1>3

\* Cloud::_vpnManagerErr
LEMMA ManagerErrStep ==
    ASSUME NEW m, NEW x, NEW sig \in Signals, NEW r \in Reactions,
           IInv, phase # "idle",
           Fits(client, m, x, cloud),
           CoreMayAnswer(sig, r),
           ManagerErr(m, x, sig, r),
           CoreAnswers(phase, r),
           reattach' = reattach
    PROVE  IInv'
<1>1. Sound(client, m) /\ cloud \in CloudType /\ phase \in {"started", "closing"}
  BY DEF Fits, IInv, TypeOK, CloudType
<1>2. CASE m.err = "ConnTimeout" /\ FallsBack(cloud)
  <2>1. FallBack(client, m, cloud, sig, r) /\ conf.fallback
    BY <1>2 DEF ManagerErr, FallsBack
  <2>2. QED
    BY <1>1, <2>1, FallBackStep
<1>3. CASE ~(m.err = "ConnTimeout" /\ FallsBack(cloud))
  <2>1. Fail(client, m, x, cloud, FALSE, sig, r)
    BY <1>3 DEF ManagerErr
  <2>2. QED
    BY <1>1, <2>1, FailStep
<1>4. QED
  BY <1>2, <1>3

\* What the invariant says of the records as they are.
LEMMA Records ==
    ASSUME IInv
    PROVE  /\ client \in ClientType /\ manager \in ManagerType
           /\ socket \in SocketType /\ cloud \in CloudType
           /\ Sound(client, manager)
           /\ phase \in {"idle", "started", "closing"}
BY DEF IInv, TypeOK, Inductive, ClientConsistent, DetachedIsQuiet, Sound,
       ClientType, ManagerType, SocketType, CloudType

\* With the manager attached or attaching, the process has been up and no
\* retry is pending.
LEMMA Managed ==
    ASSUME IInv, manager.st # "Detached"
    PROVE  /\ client.process # "none" /\ client.process # "starting"
           /\ ~cloud.retry
           /\ phase # "idle"
BY DEF IInv, TypeOK, Inductive, ManagerNeedsProcess, LaunchIsUnmanaged, RetryWithoutProcess,
       IdleIsStopped

-----------------------------------------------------------------------------
(* One lemma per event. *)

LEMMA ConfigureStep ==
    ASSUME IInv, Configure
    PROVE  IInv'
BY DEF Configure, IInv, TypeOK, Inductive, ClientConsistent, ManagerNeedsProcess,
       DetachedIsQuiet, SocketFollowsManager, LaunchIsUnmanaged, RetryWithoutProcess,
       IdleIsStopped, Watched, FallbackIsConfigured

LEMMA LaunchStep ==
    ASSUME IInv, NEW k \in CloudType, NEW sig \in Signals, NEW r \in Reactions,
           NEW p \in {"started", "closing"},
           CoreMayAnswer(sig, r),
           client.process = "none", ~k.retry,
           p = "closing" <=> phase = "closing",
           p = "started" /\ k.isFallback => conf.fallback,
           Launch(k, sig, r), CoreAnswers(p, r), reattach' = reattach
    PROVE  IInv'
<1>1. manager.st = "Detached" /\ Sound(client, manager)
  BY Records DEF IInv, Inductive, ManagerNeedsProcess
<1>2. CASE ClientErr(client, k, sig, r)
  <2>1. FitsDetached(client, manager, socket, k)
    BY <1>1 DEF FitsDetached
  <2>2. QED
    BY <1>2, <2>1, ClientErrStep
<1>3. CASE /\ Silent(sig, r)
           /\ client' = [st |-> "Starting", process |-> "starting"]
           /\ cloud' = k
           /\ UNCHANGED <<manager, socket>>
  <2>1. conf' = conf /\ phase' = p
    BY <1>3, CoreAnswersType DEF Silent, IInv
  <2>2. TypeOK'
    BY <1>3, <2>1 DEF IInv, TypeOK, ClientStates, ProcessStates, CloudType
  <2>3. Inductive'
    BY <1>1, <1>3, <2>1 DEF IInv, Inductive, ClientConsistent, ManagerNeedsProcess,
       DetachedIsQuiet, SocketFollowsManager, LaunchIsUnmanaged, RetryWithoutProcess,
       IdleIsStopped, Watched, FallbackIsConfigured
  <2>4. QED
    BY <2>2, <2>3 DEF IInv
<1>4. QED
  BY <1>2, <1>3 DEF Launch

LEMMA StartStep ==
    ASSUME IInv, NEW sig \in Signals, NEW r \in Reactions,
           CoreMayAnswer(sig, r), phase = "idle", Start(sig, r)
    PROVE  IInv'
<1> DEFINE k == [cloud EXCEPT !.isFallback = FALSE]
<1>1. k \in CloudType /\ k.retry = cloud.retry /\ ~k.isFallback
  BY Records DEF CloudType
<1>2. client.process = "none" /\ ~cloud.retry
  BY DEF IInv, Inductive, IdleIsStopped
<1>3. Launch(k, sig, r) /\ CoreAnswers("started", r) /\ reattach' = reattach
  BY DEF Start
<1> HIDE DEF k
<1>4. QED
  BY <1>1, <1>2, <1>3, LaunchStep

LEMMA OnRetryStep ==
    ASSUME IInv, NEW sig \in Signals, NEW r \in Reactions,
           CoreMayAnswer(sig, r), OnRetry(sig, r)
    PROVE  IInv'
<1> DEFINE k == [cloud EXCEPT !.retry = FALSE]
<1>1. k \in CloudType /\ ~k.retry /\ k.isFallback = cloud.isFallback
  BY Records DEF CloudType
<1>2. client.process = "none" /\ phase \in {"started", "closing"}
  BY DEF OnRetry, IInv, TypeOK, Inductive, IdleIsStopped, RetryWithoutProcess
<1>3. phase = "started" /\ k.isFallback => conf.fallback
  BY <1>1 DEF IInv, Inductive, FallbackIsConfigured
<1>4. Launch(k, sig, r) /\ CoreAnswers(phase, r) /\ reattach' = reattach
  BY DEF OnRetry
<1> HIDE DEF k
<1>5. QED
  BY <1>1, <1>2, <1>3, <1>4, LaunchStep

\* The cloud as it is, stopped for good.
LEMMA StoppedStep ==
    ASSUME IInv, StopAll(client, manager, cloud.isFallback), phase' = "idle",
           conf' \in [agent : BOOLEAN, fallback : BOOLEAN], reattach' = reattach
    PROVE  IInv'
<1>1. reattach' \in 0 .. MaxTimers
  BY DEF IInv, TypeOK
<1>2. cloud.isFallback \in BOOLEAN /\ socket \in SocketType /\ Sound(client, manager)
  BY Records DEF CloudType
<1>3. AtRest' /\ cloud' \in CloudType /\ ~cloud'.retry
  BY <1>2, StopAllRests
<1>4. QED
  BY <1>1, <1>3, StopStep

LEMMA CloseReplyStep ==
    ASSUME IInv, CloseReply
    PROVE  IInv'
BY StoppedStep DEF CloseReply, IInv, TypeOK

LEMMA CoreStopStep ==
    ASSUME IInv, NEW r \in Reactions, Stop(r)
    PROVE  IInv'
<1>1. CASE r = "stopped"
  <2>1. /\ conf' \in [agent : BOOLEAN, fallback : BOOLEAN] /\ phase' = "idle"
        /\ StopAll(client, manager, cloud.isFallback) /\ reattach' = reattach
    BY <1>1, CoreAnswersType DEF Stop, IInv, TypeOK
  <2>2. QED
    BY <2>1, StoppedStep
<1>2. CASE r = "closing"
  <2>1. /\ conf' \in [agent : BOOLEAN, fallback : BOOLEAN] /\ phase' = "closing"
        /\ UNCHANGED <<client, manager, socket, cloud, reattach>>
    BY <1>2, CoreAnswersType DEF Stop, IInv, TypeOK
  <2>2. TypeOK'
    BY <2>1 DEF IInv, TypeOK
  <2>3. Inductive'
    BY <2>1 DEF IInv, Inductive, ClientConsistent, ManagerNeedsProcess,
       DetachedIsQuiet, SocketFollowsManager, LaunchIsUnmanaged, RetryWithoutProcess,
       IdleIsStopped, Watched, FallbackIsConfigured
  <2>4. QED
    BY <2>2, <2>3 DEF IInv
<1>3. QED
  BY <1>1, <1>2 DEF Stop

LEMMA ProcessStartedStep ==
    ASSUME IInv, NEW sig \in Signals, NEW r \in Reactions, ProcessStarted(sig, r)
    PROVE  IInv'
<1>1. manager.st = "Detached" /\ client.process = "starting" /\ ~cloud.retry /\ phase # "idle"
  BY DEF ProcessStarted, IInv, Inductive, LaunchIsUnmanaged, RetryWithoutProcess, IdleIsStopped
<1>2. /\ client' = [st |-> "Started", process |-> "running"]
      /\ manager' = [manager EXCEPT !.st = "Attaching", !.polling = TRUE,
                                    !.connTimer = IF TimeoutSet THEN "fresh" ELSE "off"]
      /\ socket' = NewSocket
      /\ UNCHANGED <<reattach, cloud>>
  BY <1>1 DEF ProcessStarted, Attach, Detached
<1>3. conf' = conf /\ phase' = phase
  BY CoreAnswersType DEF ProcessStarted, Silent, IInv, TypeOK
<1>4. TypeOK'
  BY <1>2, <1>3 DEF IInv, TypeOK, ClientStates, ProcessStates, ManagerStates, TimerStates,
     NewSocket, SocketStates
<1>5. Inductive'
  BY <1>1, <1>2, <1>3 DEF IInv, TypeOK, Inductive, ClientConsistent, ManagerNeedsProcess,
     DetachedIsQuiet, SocketFollowsManager, LaunchIsUnmanaged, RetryWithoutProcess,
     IdleIsStopped, Watched, FallbackIsConfigured, NewSocket
<1>6. QED
  BY <1>4, <1>5 DEF IInv

LEMMA ProcessErrorStep ==
    ASSUME IInv, NEW sig \in Signals, NEW r \in Reactions, CoreMayAnswer(sig, r),
           ProcessFailedToStart(sig, r) \/ ProcessFinished(sig, r)
    PROVE  IInv'
<1> DEFINE c == [client EXCEPT !.process = "finished"]
<1>1. /\ client.process \in {"starting", "exited"}
      /\ ClientErr(c, cloud, sig, r) /\ CoreAnswers(phase, r) /\ reattach' = reattach
  BY DEF ProcessFailedToStart, ProcessFinished
<1>2. phase \in {"started", "closing"} /\ ~cloud.retry /\ cloud \in CloudType
  BY <1>1, Records DEF IInv, TypeOK, Inductive, IdleIsStopped, RetryWithoutProcess
<1>3. c \in ClientType /\ c.process = "finished" /\ c.st \notin {"Idle", "Configured"}
  BY <1>1, Records DEF ClientType, ProcessStates, IInv, Inductive, ClientConsistent
<1>4. Sound(c, manager)
  BY <1>3, Records DEF Sound
<1>5. phase = "started" /\ cloud.isFallback => conf.fallback
  BY DEF IInv, Inductive, FallbackIsConfigured
<1> HIDE DEF c
<1>6. Fits(c, manager, socket, cloud) \/ FitsDetached(c, manager, socket, cloud)
  BY <1>2, <1>3, <1>4, Records DEF Fits, FitsDetached, IInv, Inductive, SocketFollowsManager
<1>7. QED
  BY <1>1, <1>2, <1>5, <1>6, ClientErrStep

LEMMA ProcessExitsStep ==
    ASSUME IInv, ProcessExits
    PROVE  IInv'
BY DEF ProcessExits, IInv, TypeOK, ProcessStates, Inductive, ClientConsistent,
       ManagerNeedsProcess, DetachedIsQuiet, SocketFollowsManager, LaunchIsUnmanaged,
       RetryWithoutProcess, IdleIsStopped, Watched, FallbackIsConfigured

LEMMA ConnectedStep ==
    ASSUME IInv, NEW sig \in Signals, NEW r \in Reactions, Connected(sig, r)
    PROVE  IInv'
<1>1. manager.st # "Detached" /\ client.process = "running"
  BY DEF Connected, IInv, Inductive, SocketFollowsManager
<1>2. /\ manager' = [manager EXCEPT !.st = "Attached"]
      /\ socket' = [socket EXCEPT !.st = "open"]
      /\ UNCHANGED <<client, reattach, cloud, conf, phase>>
  BY CoreAnswersType DEF Connected, Silent, IInv, TypeOK
<1>3. TypeOK'
  BY <1>2 DEF IInv, TypeOK, ManagerStates, SocketStates
<1>4. Inductive'
  BY <1>1, <1>2 DEF IInv, TypeOK, Inductive, ClientConsistent, ManagerNeedsProcess,
     DetachedIsQuiet, SocketFollowsManager, LaunchIsUnmanaged, RetryWithoutProcess,
     IdleIsStopped, Watched, FallbackIsConfigured
<1>5. QED
  BY <1>3, <1>4 DEF IInv

LEMMA RefusedStep ==
    ASSUME IInv, NEW sig \in Signals, NEW r \in Reactions, Refused(sig, r)
    PROVE  IInv'
<1>1. /\ manager.retries \in 0 .. AttachRetries /\ manager.retries # AttachRetries
      /\ reattach \in 0 .. MaxTimers /\ reattach < MaxTimers
  BY DEF Refused, IInv, TypeOK
<1>2. /\ manager' = [manager EXCEPT !.retries = @ + 1]
      /\ socket' = NoSocket
      /\ reattach' = reattach + 1
      /\ UNCHANGED <<client, cloud, conf, phase>>
  BY CoreAnswersType DEF Refused, Silent, IInv, TypeOK
<1>3. manager.retries + 1 \in 0 .. AttachRetries /\ reattach + 1 \in 0 .. MaxTimers
  BY <1>1, TunnelAssumption
<1>4. TypeOK'
  BY <1>2, <1>3 DEF IInv, TypeOK, NoSocket, SocketStates
<1>5. Inductive'
  BY <1>2 DEF IInv, TypeOK, Inductive, ClientConsistent, ManagerNeedsProcess,
     DetachedIsQuiet, SocketFollowsManager, LaunchIsUnmanaged, RetryWithoutProcess,
     IdleIsStopped, Watched, FallbackIsConfigured, NoSocket
<1>6. QED
  BY <1>4, <1>5 DEF IInv

\* The five events that end in an error of the manager.
LEMMA ManagerErrorStep ==
    ASSUME IInv, NEW sig \in Signals, NEW r \in Reactions, CoreMayAnswer(sig, r),
           \/ RefusedForGood(sig, r) \/ ConnectFails(sig, r) \/ PeerClosed(sig, r)
           \/ FatalLine(sig, r) \/ ConnTimeout(sig, r)
    PROVE  IInv'
<1>1. manager.st # "Detached"
  BY DEF RefusedForGood, ConnectFails, PeerClosed, FatalLine, ConnTimeout, IInv, Inductive,
     SocketFollowsManager, DetachedIsQuiet
<1>2. /\ client.process # "none" /\ client.process # "starting"
      /\ ~cloud.retry /\ phase # "idle"
  BY <1>1, Managed
<1>3. NoSocket \in SocketType /\ NoSocket.st = "none"
  BY DEF NoSocket, SocketType, SocketStates
<1>4. PICK m \in ManagerType, x \in {socket, NoSocket} :
        /\ m.st # "Detached"
        /\ x = socket => m.st = manager.st
        /\ ManagerErr(m, x, sig, r)
  <2>1. CASE RefusedForGood(sig, r)
    <3>1. 0 \in 0 .. AttachRetries
      BY TunnelAssumption
    <3>2. [manager EXCEPT !.retries = 0, !.err = "failure"] \in ManagerType
      BY <3>1, Records DEF ManagerType, ManagerErrors
    <3>3. [manager EXCEPT !.retries = 0, !.err = "failure"].st = manager.st
      BY Records DEF ManagerType
    <3>4. QED
      BY <1>1, <2>1, <3>2, <3>3 DEF RefusedForGood
  <2>2. CASE PeerClosed(sig, r)
    <3> DEFINE m == [manager EXCEPT !.st = "Detaching",
                                    !.err = IF @ = "none" THEN "failure" ELSE @]
    <3>1. m \in ManagerType /\ m.st = "Detaching"
      BY Records DEF ManagerType, ManagerErrors, ManagerStates
    <3>2. socket # NoSocket
      BY <1>3, <2>2 DEF PeerClosed
    <3>3. ManagerErr(m, NoSocket, sig, r)
      BY <2>2 DEF PeerClosed
    <3> HIDE DEF m
    <3>4. QED
      BY <3>1, <3>2, <3>3
  <2>3. CASE FatalLine(sig, r)
    <3>1. [manager EXCEPT !.err = "failure"] \in ManagerType
      BY Records DEF ManagerType, ManagerErrors
    <3>2. [manager EXCEPT !.err = "failure"].st = manager.st
      BY Records DEF ManagerType
    <3>3. QED
      BY <1>1, <2>3, <3>1, <3>2 DEF FatalLine
  <2>4. CASE ConnTimeout(sig, r)
    <3>1. [manager EXCEPT !.connTimer = "off", !.err = "ConnTimeout"] \in ManagerType
      BY Records DEF ManagerType, ManagerErrors, TimerStates
    <3>2. [manager EXCEPT !.connTimer = "off", !.err = "ConnTimeout"].st = manager.st
      BY Records DEF ManagerType
    <3>3. QED
      BY <1>1, <2>4, <3>1, <3>2 DEF ConnTimeout
  <2>5. CASE ConnectFails(sig, r)
    <3> DEFINE m == [manager EXCEPT !.err = IF @ = "none" THEN "failure" ELSE @]
    <3>1. m \in ManagerType /\ m.st = manager.st
      BY Records DEF ManagerType, ManagerErrors
    <3>2. ManagerErr(m, NoSocket, sig, r)
      BY <2>5 DEF ConnectFails
    <3> HIDE DEF m
    <3>3. QED
      BY <1>1, <3>1, <3>2
  <2>6. QED
    BY <2>1, <2>2, <2>3, <2>4, <2>5
<1>5. Fits(client, m, x, cloud)
  BY <1>2, <1>3, <1>4, Records DEF Fits, Sound, IInv, Inductive, SocketFollowsManager
<1>6. CoreAnswers(phase, r) /\ reattach' = reattach
  BY DEF RefusedForGood, ConnectFails, PeerClosed, FatalLine, ConnTimeout
<1>7. QED
  BY <1>2, <1>4, <1>5, <1>6, ManagerErrStep

LEMMA RetryAttachStep ==
    ASSUME IInv, NEW sig \in Signals, NEW r \in Reactions, RetryAttach(sig, r)
    PROVE  IInv'
<1>1. UNCHANGED <<client, cloud, conf, phase>>
  BY CoreAnswersType DEF RetryAttach, Silent, IInv, TypeOK
<1>2. reattach' \in 0 .. MaxTimers
  BY TunnelAssumption DEF RetryAttach, IInv, TypeOK
<1>3. CASE manager.st = "Attaching"
  <2>1. /\ manager' = [st |-> "Attaching", err |-> "none", polling |-> TRUE,
                       connTimer |-> IF TimeoutSet THEN "fresh" ELSE "off",
                       retries |-> manager.retries]
        /\ socket' = NewSocket
    BY <1>3 DEF RetryAttach, Attach, Detached
  <2>2. TypeOK'
    BY <1>1, <1>2, <2>1 DEF IInv, TypeOK, ManagerStates, ManagerErrors, TimerStates,
       NewSocket, SocketStates
  <2>3. Inductive'
    BY <1>1, <1>3, <2>1 DEF IInv, TypeOK, Inductive, ClientConsistent, ManagerNeedsProcess,
       DetachedIsQuiet, SocketFollowsManager, LaunchIsUnmanaged, RetryWithoutProcess,
       IdleIsStopped, Watched, FallbackIsConfigured, NewSocket
  <2>4. QED
    BY <2>2, <2>3 DEF IInv
<1>4. CASE manager.st # "Attaching"
  <2>1. UNCHANGED <<manager, socket>>
    BY <1>4 DEF RetryAttach
  <2>2. TypeOK'
    BY <1>1, <1>2, <2>1 DEF IInv, TypeOK
  <2>3. Inductive'
    BY <1>1, <2>1 DEF IInv, TypeOK, Inductive, ClientConsistent, ManagerNeedsProcess,
       DetachedIsQuiet, SocketFollowsManager, LaunchIsUnmanaged, RetryWithoutProcess,
       IdleIsStopped, Watched, FallbackIsConfigured
  <2>4. QED
    BY <2>2, <2>3 DEF IInv
<1>5. QED
  BY <1>3, <1>4

\* Events that only write whether the state was asked for.
LEMMA AskedStep ==
    ASSUME IInv, NEW sig \in Signals, NEW r \in Reactions,
           StateTimeout(sig, r) \/ OtherStateLine(sig, r)
    PROVE  IInv'
<1>1. UNCHANGED <<client, manager, reattach, cloud, conf, phase>>
  BY CoreAnswersType DEF StateTimeout, OtherStateLine, Silent, IInv, TypeOK
<1>2. PICK b \in BOOLEAN : socket' = [socket EXCEPT !.asked = b]
  BY DEF StateTimeout, OtherStateLine
<1>3. manager.st # "Detached"
  BY DEF StateTimeout, OtherStateLine, IInv, Inductive, SocketFollowsManager
<1>4. TypeOK'
  BY <1>1, <1>2 DEF IInv, TypeOK
<1>5. Inductive'
  BY <1>1, <1>2, <1>3 DEF IInv, TypeOK, Inductive, ClientConsistent, ManagerNeedsProcess,
     DetachedIsQuiet, SocketFollowsManager, LaunchIsUnmanaged, RetryWithoutProcess,
     IdleIsStopped, Watched, FallbackIsConfigured
<1>6. QED
  BY <1>4, <1>5 DEF IInv

LEMMA StateLineStep ==
    ASSUME IInv, NEW s \in ManagedStates, NEW sig \in Signals, NEW r \in Reactions,
           StateLine(s, sig, r)
    PROVE  IInv'
<1>1. manager.st = "Attached" /\ client.process # "none" /\ client.process # "starting"
  BY Managed DEF StateLine, IInv, Inductive, SocketFollowsManager
<1>2. UNCHANGED <<reattach, cloud, conf, phase>>
  BY CoreAnswersType DEF StateLine, IInv, TypeOK
<1>3. /\ socket' = [socket EXCEPT !.asked = FALSE]
      /\ client' = [client EXCEPT !.st = s]
      /\ manager' = [manager EXCEPT !.connTimer =
             IF s = "Connected" THEN "off"
             ELSE IF s # client.st /\ TimeoutSet THEN "fresh" ELSE @]
  BY DEF StateLine
<1>4. s \in ClientStates /\ s \notin {"Idle", "Configured"}
  BY DEF ManagedStates, ClientStates, Negotiating
<1>5. TypeOK'
  BY <1>2, <1>3, <1>4 DEF IInv, TypeOK, TimerStates
<1>6. Inductive'
  BY <1>1, <1>2, <1>3, <1>4 DEF IInv, TypeOK, Inductive, ClientConsistent, ManagerNeedsProcess,
     DetachedIsQuiet, SocketFollowsManager, LaunchIsUnmanaged, RetryWithoutProcess,
     IdleIsStopped, Watched, FallbackIsConfigured
<1>7. QED
  BY <1>5, <1>6 DEF IInv

LEMMA ConnTimerRunsStep ==
    ASSUME IInv, ConnTimerRuns
    PROVE  IInv'
BY DEF ConnTimerRuns, IInv, TypeOK, TimerStates, Inductive, ClientConsistent,
       ManagerNeedsProcess, DetachedIsQuiet, SocketFollowsManager, LaunchIsUnmanaged,
       RetryWithoutProcess, IdleIsStopped, Watched, FallbackIsConfigured

-----------------------------------------------------------------------------
(* Whatever Core does.  Where Core is not the environment that Next assumes, *)
(* as in Service when its clients start what is running, the invariant's     *)
(* part that is about one object and the next still holds.                   *)

\* An event of the cloud, or its start in any phase but the closing one, with
\* any answer of Core.
AnyStep ==
    \/ \E sig \in Signals, r \in Reactions :
          (phase # "closing" /\ Start(sig, r)) \/ CloudEvent(sig, r)
    \/ \E r \in Reactions : Stop(r)
    \/ CloseReply
    \/ ProcessExits
    \/ ConnTimerRuns
    \/ /\ conf' \in [agent : BOOLEAN, fallback : BOOLEAN]
       /\ UNCHANGED <<client, manager, socket, reattach, cloud, phase>>

Consistent ==
    /\ TypeOK
    /\ ClientConsistent
    /\ ManagerNeedsProcess
    /\ DetachedIsQuiet
    /\ SocketFollowsManager
    /\ LaunchIsUnmanaged
    /\ IdleIsStopped

\* The records a handler has made satisfy the conditions on them.
Held(c, m, x) ==
    /\ Sound(c, m)
    /\ x \in SocketType
    /\ m.st # "Detached" => c.process # "none" /\ c.process # "starting"
    /\ m.st = "Detached" => x = NoSocket
    /\ x.st = "connecting" => m.st = "Attaching"
    /\ x.st = "open" => m.st = "Attached"

\* What the rest of the variables may be after a step.
Others ==
    /\ cloud' \in CloudType
    /\ conf' \in [agent : BOOLEAN, fallback : BOOLEAN]
    /\ reattach' \in 0 .. MaxTimers
    /\ phase' \in {"idle", "started", "closing"}

LEMMA RestKeeps ==
    ASSUME AtRest', Others, phase' = "idle" => ~cloud'.retry
    PROVE  Consistent'
<1>1. TypeOK'
  BY DEF AtRest, Others, TypeOK, ClientType, ManagerType, SocketType, CloudType
<1>2. QED
  BY <1>1 DEF AtRest, Consistent, ClientConsistent, ManagerNeedsProcess, DetachedIsQuiet,
     SocketFollowsManager, LaunchIsUnmanaged, IdleIsStopped, NoSocket

LEMMA HeldKeeps ==
    ASSUME NEW c, NEW m, NEW x, Held(c, m, x), socket \in SocketType,
           m.st = "Detached" => socket = NoSocket,
           client' = c, manager' = m, socket' = x, Others, phase' # "idle"
    PROVE  Consistent'
<1>1. TypeOK'
  BY DEF Held, Sound, Others, TypeOK, ClientType, ManagerType, SocketType, CloudType
<1>2. QED
  BY <1>1 DEF Held, Sound, Consistent, ClientConsistent, ManagerNeedsProcess,
     DetachedIsQuiet, SocketFollowsManager, LaunchIsUnmanaged, IdleIsStopped, NoSocket

\* What the invariant says of the records as they are.
LEMMA HeldNow ==
    ASSUME Consistent
    PROVE  /\ Held(client, manager, socket)
           /\ client \in ClientType /\ manager \in ManagerType
           /\ socket \in SocketType /\ cloud \in CloudType
           /\ reattach \in 0 .. MaxTimers
           /\ conf \in [agent : BOOLEAN, fallback : BOOLEAN]
           /\ phase \in {"idle", "started", "closing"}
           /\ phase = "idle" => client.process = "none" /\ ~cloud.retry
           /\ phase = "idle" => manager.st = "Detached" /\ socket = NoSocket
<1>1. /\ client \in ClientType /\ manager \in ManagerType
      /\ socket \in SocketType /\ cloud \in CloudType
      /\ reattach \in 0 .. MaxTimers
      /\ conf \in [agent : BOOLEAN, fallback : BOOLEAN]
      /\ phase \in {"idle", "started", "closing"}
  BY DEF Consistent, TypeOK, ClientType, ManagerType, SocketType, CloudType
<1>2. Held(client, manager, socket)
  BY <1>1 DEF Held, Sound, Consistent, ClientConsistent, ManagerNeedsProcess,
     DetachedIsQuiet, SocketFollowsManager, LaunchIsUnmanaged
<1>3. QED
  BY <1>1, <1>2 DEF Held, Consistent, IdleIsStopped

LEMMA FailKeeps ==
    ASSUME NEW c, NEW m, NEW x, NEW k \in CloudType, NEW fb \in BOOLEAN,
           NEW sig \in Signals, NEW r \in Reactions, NEW p \in {"started", "closing"},
           Consistent, Held(c, m, x), m.st = "Detached" => socket = NoSocket,
           Fail(c, m, x, k, fb, sig, r), CoreAnswers(p, r), reattach' = reattach
    PROVE  Consistent'
<1>1. socket \in SocketType /\ reattach' \in 0 .. MaxTimers /\ Sound(c, m)
  BY HeldNow DEF Held
<1>2. /\ conf' \in [agent : BOOLEAN, fallback : BOOLEAN]
      /\ phase' \in {"idle", "started", "closing"}
      /\ phase' = "idle" <=> r = "stopped"
  BY CoreAnswersType DEF Consistent, Reactions
<1>3. CASE r = "none" /\ Restart(c, m, k, fb)
  <2>1. AtRest' /\ cloud' \in CloudType
    BY <1>1, <1>3, RestartRests
  <2>2. QED
    BY <1>1, <1>2, <1>3, <2>1, RestKeeps DEF Others
<1>4. CASE StopAll(c, m, fb)
  <2>1. AtRest' /\ cloud' \in CloudType /\ ~cloud'.retry
    BY <1>1, <1>4, StopAllRests
  <2>2. QED
    BY <1>1, <1>2, <2>1, RestKeeps DEF Others
<1>5. CASE /\ r # "stopped" /\ manager' = m /\ client' = c /\ socket' = x
           /\ cloud' = [k EXCEPT !.isFallback = fb]
  <2>1. cloud' \in CloudType
    BY <1>5 DEF CloudType
  <2>2. QED
    BY <1>1, <1>2, <1>5, <2>1, HeldKeeps DEF Others
<1>6. QED
  BY <1>3, <1>4, <1>5 DEF Fail

LEMMA FallBackKeeps ==
    ASSUME NEW c, NEW m, NEW k \in CloudType, NEW sig, NEW r \in Reactions,
           NEW p \in {"started", "closing"},
           Consistent, Sound(c, m),
           FallBack(c, m, k, sig, r), CoreAnswers(p, r), reattach' = reattach
    PROVE  Consistent'
<1>1. socket \in SocketType /\ reattach' \in 0 .. MaxTimers
  BY HeldNow
<1>2. AtRest' /\ cloud' \in CloudType
  BY <1>1, RestartRests DEF FallBack
<1>3. conf' \in [agent : BOOLEAN, fallback : BOOLEAN] /\ phase' = p
  BY CoreAnswersType DEF FallBack, Consistent
<1>4. QED
  BY <1>1, <1>2, <1>3, RestKeeps DEF Others

LEMMA ClientErrKeeps ==
    ASSUME NEW c, NEW k \in CloudType, NEW sig \in Signals, NEW r \in Reactions,
           NEW p \in {"started", "closing"},
           Consistent, Held(c, manager, socket),
           ClientErr(c, k, sig, r), CoreAnswers(p, r), reattach' = reattach
    PROVE  Consistent'
<1>1. Sound(c, manager) /\ k.isFallback \in BOOLEAN
      /\ (manager.st = "Detached" => socket = NoSocket)
  BY DEF Held, CloudType
<1>2. CASE FallsBack(k)
  BY <1>1, <1>2, FallBackKeeps DEF ClientErr
<1>3. CASE ~FallsBack(k)
  <2>1. Fail(c, manager, socket, k, k.isFallback, sig, r)
    BY <1>3 DEF ClientErr
  <2>2. QED
    BY <1>1, <2>1, FailKeeps
<1>4. QED
  BY <1>2, <1>3

LEMMA ManagerErrKeeps ==
    ASSUME NEW m, NEW x, NEW sig \in Signals, NEW r \in Reactions,
           Consistent, phase # "idle", Held(client, m, x), m.st # "Detached",
           ManagerErr(m, x, sig, r), CoreAnswers(phase, r), reattach' = reattach
    PROVE  Consistent'
<1>1. Sound(client, m) /\ cloud \in CloudType /\ phase \in {"started", "closing"}
  BY HeldNow DEF Held
<1>2. CASE m.err = "ConnTimeout" /\ FallsBack(cloud)
  BY <1>1, <1>2, FallBackKeeps DEF ManagerErr
<1>3. CASE ~(m.err = "ConnTimeout" /\ FallsBack(cloud))
  <2>1. Fail(client, m, x, cloud, FALSE, sig, r)
    BY <1>3 DEF ManagerErr
  <2>2. QED
    BY <1>1, <2>1, FailKeeps
<1>4. QED
  BY <1>2, <1>3

LEMMA LaunchKeeps ==
    ASSUME NEW k \in CloudType, NEW sig \in Signals, NEW r \in Reactions,
           NEW p \in {"started", "closing"},
           Consistent, Launch(k, sig, r), CoreAnswers(p, r), reattach' = reattach
    PROVE  Consistent'
<1>1. r = "none" => phase' = p /\ conf' = conf
  BY CoreAnswersType DEF Consistent
<1>2. CASE client.process # "none" /\ Silent(sig, r) /\ cloud' = k
           /\ UNCHANGED <<client, manager, socket>>
  BY <1>1, <1>2, HeldNow, HeldKeeps DEF Held, Silent, Others
<1>3. CASE /\ client.process = "none" /\ Silent(sig, r)
           /\ client' = [st |-> "Starting", process |-> "starting"]
           /\ cloud' = k
           /\ UNCHANGED <<manager, socket>>
  <2>1. manager.st = "Detached"
    BY <1>3, HeldNow DEF Held
  <2>2. [st |-> "Starting", process |-> "starting"] \in ClientType
    BY DEF ClientType, ClientStates, ProcessStates
  <2>3. Held([st |-> "Starting", process |-> "starting"], manager, socket)
    BY <2>1, <2>2, HeldNow DEF Held, Sound
  <2>4. QED
    BY <1>1, <1>3, <2>1, <2>3, HeldNow, HeldKeeps DEF Held, Silent, Others
<1>4. CASE ClientErr(client, k, sig, r)
  BY <1>4, HeldNow, ClientErrKeeps
<1>5. QED
  BY <1>2, <1>3, <1>4 DEF Launch

LEMMA StopAllKeeps ==
    ASSUME Consistent, StopAll(client, manager, cloud.isFallback), reattach' = reattach,
           phase' = "idle", conf' \in [agent : BOOLEAN, fallback : BOOLEAN]
    PROVE  Consistent'
<1>1. cloud.isFallback \in BOOLEAN /\ socket \in SocketType /\ Sound(client, manager)
      /\ reattach' \in 0 .. MaxTimers
  BY HeldNow DEF CloudType, Held
<1>2. AtRest' /\ cloud' \in CloudType /\ ~cloud'.retry
  BY <1>1, StopAllRests
<1>3. QED
  BY <1>1, <1>2, RestKeeps DEF Others

\* The events of the manager that end in an error.
LEMMA ManagerErrorKeeps ==
    ASSUME Consistent, NEW sig \in Signals, NEW r \in Reactions,
           \/ RefusedForGood(sig, r) \/ ConnectFails(sig, r) \/ PeerClosed(sig, r)
           \/ FatalLine(sig, r) \/ ConnTimeout(sig, r)
    PROVE  Consistent'
<1>1. Held(client, manager, socket) /\ manager \in ManagerType /\ socket \in SocketType
      /\ (phase = "idle" => manager.st = "Detached")
  BY HeldNow
<1>2. manager.st # "Detached" /\ (socket.st = "open" => manager.st = "Attached")
  BY <1>1 DEF RefusedForGood, ConnectFails, PeerClosed, FatalLine, ConnTimeout, Held, Sound,
     NoSocket
<1>3. NoSocket \in SocketType /\ NoSocket.st = "none"
  BY DEF NoSocket, SocketType, SocketStates
<1>4. CoreAnswers(phase, r) /\ reattach' = reattach
  BY DEF RefusedForGood, ConnectFails, PeerClosed, FatalLine, ConnTimeout
<1>5. CASE RefusedForGood(sig, r)
  <2> DEFINE m == [manager EXCEPT !.retries = 0, !.err = "failure"]
  <2>0. 0 \in 0 .. AttachRetries
    BY TunnelAssumption
  <2>1. m \in ManagerType /\ m.st = manager.st
    BY <1>1, <2>0 DEF ManagerType, ManagerErrors
  <2>2. ManagerErr(m, NoSocket, sig, r)
    BY <1>5 DEF RefusedForGood
  <2> HIDE DEF m
  <2>3. Held(client, m, NoSocket)
    BY <1>1, <1>2, <1>3, <2>1 DEF Held, Sound
  <2>4. QED
    BY <1>1, <1>2, <1>4, <2>1, <2>2, <2>3, ManagerErrKeeps
<1>6. CASE PeerClosed(sig, r)
  <2> DEFINE m == [manager EXCEPT !.st = "Detaching",
                                  !.err = IF @ = "none" THEN "failure" ELSE @]
  <2>1. m \in ManagerType /\ m.st = "Detaching"
    BY <1>1 DEF ManagerType, ManagerErrors, ManagerStates
  <2>2. ManagerErr(m, NoSocket, sig, r)
    BY <1>6 DEF PeerClosed
  <2> HIDE DEF m
  <2>3. Held(client, m, NoSocket)
    BY <1>1, <1>2, <1>3, <2>1 DEF Held, Sound
  <2>4. QED
    BY <1>1, <1>2, <1>4, <2>1, <2>2, <2>3, ManagerErrKeeps
<1>7. CASE FatalLine(sig, r)
  <2> DEFINE m == [manager EXCEPT !.err = "failure"]
  <2>1. m \in ManagerType /\ m.st = manager.st
    BY <1>1 DEF ManagerType, ManagerErrors
  <2>2. ManagerErr(m, socket, sig, r)
    BY <1>7 DEF FatalLine
  <2> HIDE DEF m
  <2>3. Held(client, m, socket)
    BY <1>1, <1>2, <2>1 DEF Held, Sound
  <2>4. QED
    BY <1>1, <1>2, <1>4, <2>1, <2>2, <2>3, ManagerErrKeeps
<1>8. CASE ConnTimeout(sig, r)
  <2> DEFINE m == [manager EXCEPT !.connTimer = "off", !.err = "ConnTimeout"]
  <2>1. m \in ManagerType /\ m.st = manager.st
    BY <1>1 DEF ManagerType, ManagerErrors, TimerStates
  <2>2. ManagerErr(m, socket, sig, r)
    BY <1>8 DEF ConnTimeout
  <2> HIDE DEF m
  <2>3. Held(client, m, socket)
    BY <1>1, <1>2, <2>1 DEF Held, Sound
  <2>4. QED
    BY <1>1, <1>2, <1>4, <2>1, <2>2, <2>3, ManagerErrKeeps
<1>9. CASE ConnectFails(sig, r)
  <2> DEFINE m == [manager EXCEPT !.err = IF @ = "none" THEN "failure" ELSE @]
  <2>1. m \in ManagerType /\ m.st = manager.st
    BY <1>1 DEF ManagerType, ManagerErrors
  <2>2. ManagerErr(m, NoSocket, sig, r)
    BY <1>9 DEF ConnectFails
  <2> HIDE DEF m
  <2>3. Held(client, m, NoSocket)
    BY <1>1, <1>2, <1>3, <2>1 DEF Held, Sound
  <2>4. QED
    BY <1>1, <1>2, <1>4, <2>1, <2>2, <2>3, ManagerErrKeeps
<1>10. QED
  BY <1>5, <1>6, <1>7, <1>8, <1>9

\* The events of the process.
LEMMA ProcessKeeps ==
    ASSUME Consistent, NEW sig \in Signals, NEW r \in Reactions,
           \/ ProcessStarted(sig, r) \/ ProcessFailedToStart(sig, r)
           \/ ProcessFinished(sig, r) \/ OnRetry(sig, r)
    PROVE  Consistent'
<1>1. /\ Held(client, manager, socket) /\ client \in ClientType /\ manager \in ManagerType
      /\ cloud \in CloudType /\ socket \in SocketType /\ reattach \in 0 .. MaxTimers
      /\ phase \in {"idle", "started", "closing"}
      /\ phase = "idle" => client.process = "none" /\ ~cloud.retry
  BY HeldNow
<1>2. phase \in {"started", "closing"} /\ reattach' = reattach /\ CoreAnswers(phase, r)
  BY <1>1 DEF ProcessStarted, ProcessFailedToStart, ProcessFinished, OnRetry
<1>3. CASE ProcessStarted(sig, r)
  <2> DEFINE c == [st |-> "Started", process |-> "running"]
             m == [manager EXCEPT !.st = "Attaching", !.polling = TRUE,
                                  !.connTimer = IF TimeoutSet THEN "fresh" ELSE "off"]
  <2>1. manager.st = "Detached"
    BY <1>1, <1>3 DEF ProcessStarted, Held
  <2>2. client' = c /\ manager' = m /\ socket' = NewSocket /\ cloud' = cloud
    BY <1>3, <2>1 DEF ProcessStarted, Attach, Detached
  <2>3. /\ c \in ClientType /\ c.process = "running" /\ c.st = "Started"
        /\ m \in ManagerType /\ m.st = "Attaching"
    BY <1>1 DEF ClientType, ClientStates, ProcessStates, ManagerType, ManagerStates, TimerStates
  <2>4. NewSocket \in SocketType /\ NewSocket.st = "connecting"
    BY DEF NewSocket, SocketType, SocketStates
  <2> HIDE DEF c, m
  <2>5. Held(c, m, NewSocket)
    BY <2>3, <2>4 DEF Held, Sound
  <2>6. conf' = conf /\ phase' = phase
    BY <1>1, <1>3, CoreAnswersType DEF ProcessStarted, Silent, Consistent
  <2>7. QED
    BY <1>1, <1>2, <2>2, <2>3, <2>5, <2>6, HeldNow, HeldKeeps DEF Others
<1>4. CASE ProcessFailedToStart(sig, r) \/ ProcessFinished(sig, r)
  <2> DEFINE c == [client EXCEPT !.process = "finished"]
  <2>1. client.process # "none" /\ ClientErr(c, cloud, sig, r)
    BY <1>4 DEF ProcessFailedToStart, ProcessFinished
  <2>2. c \in ClientType /\ c.process = "finished" /\ c.st = client.st
    BY <1>1 DEF ClientType, ProcessStates
  <2> HIDE DEF c
  <2>3. Held(c, manager, socket)
    BY <1>1, <2>1, <2>2 DEF Held, Sound
  <2>4. QED
    BY <1>1, <1>2, <2>1, <2>3, ClientErrKeeps
<1>5. CASE OnRetry(sig, r)
  <2> DEFINE k == [cloud EXCEPT !.retry = FALSE]
  <2>1. k \in CloudType
    BY <1>1 DEF CloudType
  <2>2. Launch(k, sig, r)
    BY <1>5 DEF OnRetry
  <2> HIDE DEF k
  <2>3. QED
    BY <1>2, <2>1, <2>2, LaunchKeeps
<1>6. QED
  BY <1>3, <1>4, <1>5

\* The events of the manager that do not end in an error.
LEMMA ManagerKeeps ==
    ASSUME Consistent, NEW sig \in Signals, NEW r \in Reactions,
           \/ Connected(sig, r) \/ Refused(sig, r) \/ StateTimeout(sig, r)
           \/ OtherStateLine(sig, r) \/ \E s \in ManagedStates : StateLine(s, sig, r)
    PROVE  Consistent'
<1>1. /\ Held(client, manager, socket) /\ client \in ClientType /\ manager \in ManagerType
      /\ cloud \in CloudType /\ socket \in SocketType /\ reattach \in 0 .. MaxTimers
      /\ conf \in [agent : BOOLEAN, fallback : BOOLEAN]
      /\ phase \in {"idle", "started", "closing"}
      /\ phase = "idle" => manager.st = "Detached" /\ socket = NoSocket
  BY HeldNow
<1>2. socket.st \in {"connecting", "open"} /\ CoreAnswers(phase, r) /\ r = "none"
  BY DEF Connected, Refused, StateTimeout, OtherStateLine, StateLine, Silent
<1>3. /\ phase # "idle" /\ phase' = phase /\ conf' = conf
      /\ manager.st # "Detached"
      /\ client.process # "none" /\ client.process # "starting"
  BY <1>1, <1>2, CoreAnswersType DEF Consistent, NoSocket, Held
<1>4. cloud' = cloud
  BY DEF Connected, Refused, StateTimeout, OtherStateLine, StateLine
<1>5. NoSocket \in SocketType /\ NoSocket.st = "none"
  BY DEF NoSocket, SocketType, SocketStates
<1>6. CASE Connected(sig, r)
  <2> DEFINE m == [manager EXCEPT !.st = "Attached"]
             x == [socket EXCEPT !.st = "open"]
  <2>1. /\ m \in ManagerType /\ m.st = "Attached"
        /\ x \in SocketType /\ x.st = "open"
    BY <1>1 DEF ManagerType, ManagerStates, SocketType, SocketStates
  <2>2. client' = client /\ manager' = m /\ socket' = x /\ reattach' = reattach
    BY <1>6 DEF Connected
  <2> HIDE DEF m, x
  <2>3. Held(client, m, x)
    BY <1>1, <1>3, <2>1 DEF Held, Sound
  <2>4. QED
    BY <1>1, <1>3, <1>4, <2>1, <2>2, <2>3, HeldKeeps DEF Others
<1>7. CASE Refused(sig, r)
  <2> DEFINE m == [manager EXCEPT !.retries = @ + 1]
  <2>1. manager.retries + 1 \in 0 .. AttachRetries /\ reattach + 1 \in 0 .. MaxTimers
    BY <1>1, <1>7, TunnelAssumption DEF Refused, ManagerType
  <2>2. m \in ManagerType /\ m.st = manager.st
    BY <1>1, <2>1 DEF ManagerType
  <2>3. client' = client /\ manager' = m /\ socket' = NoSocket /\ reattach' = reattach + 1
    BY <1>7 DEF Refused
  <2> HIDE DEF m
  <2>4. Held(client, m, NoSocket)
    BY <1>1, <1>3, <1>5, <2>2 DEF Held, Sound
  <2>5. QED
    BY <1>1, <1>3, <1>4, <2>1, <2>2, <2>3, <2>4, HeldKeeps DEF Others
<1>8. CASE StateTimeout(sig, r) \/ OtherStateLine(sig, r)
  <2>1. PICK b \in BOOLEAN : socket' = [socket EXCEPT !.asked = b]
    BY <1>8 DEF StateTimeout, OtherStateLine
  <2>2. client' = client /\ manager' = manager /\ reattach' = reattach
    BY <1>8 DEF StateTimeout, OtherStateLine
  <2>3. socket' \in SocketType /\ socket'.st = socket.st
    BY <1>1, <2>1 DEF SocketType
  <2>4. Held(client, manager, socket')
    BY <1>1, <1>3, <2>3 DEF Held, Sound
  <2>5. QED
    BY <1>1, <1>3, <1>4, <2>2, <2>4, HeldKeeps DEF Others
<1>9. CASE \E s \in ManagedStates : StateLine(s, sig, r)
  <2>1. PICK s \in ManagedStates : StateLine(s, sig, r)
    BY <1>9
  <2> DEFINE m == [manager EXCEPT !.connTimer =
                      IF s = "Connected" THEN "off"
                      ELSE IF s # client.st /\ TimeoutSet THEN "fresh" ELSE @]
             c == [client EXCEPT !.st = s]
             x == [socket EXCEPT !.asked = FALSE]
  <2>2. s \in ClientStates /\ s \notin {"Idle", "Configured"}
    BY DEF ManagedStates, ClientStates, Negotiating
  <2>3. /\ m \in ManagerType /\ m.st = manager.st
        /\ c \in ClientType /\ c.st = s /\ c.process = client.process
        /\ x \in SocketType /\ x.st = socket.st
    BY <1>1, <2>2 DEF ManagerType, TimerStates, ClientType, SocketType
  <2>4. client' = c /\ manager' = m /\ socket' = x /\ reattach' = reattach
    BY <2>1 DEF StateLine
  <2> HIDE DEF m, c, x
  <2>5. Held(c, m, x)
    BY <1>1, <1>3, <2>2, <2>3 DEF Held, Sound
  <2>6. QED
    BY <1>1, <1>3, <1>4, <2>3, <2>4, <2>5, HeldKeeps DEF Others
<1>10. QED
  BY <1>6, <1>7, <1>8, <1>9

LEMMA RetryAttachKeeps ==
    ASSUME Consistent, NEW sig \in Signals, NEW r \in Reactions, RetryAttach(sig, r)
    PROVE  Consistent'
<1>1. UNCHANGED <<client, cloud, conf, phase>>
  BY HeldNow, CoreAnswersType DEF RetryAttach, Silent, Consistent
<1>2. reattach' \in 0 .. MaxTimers
  BY HeldNow, TunnelAssumption DEF RetryAttach
<1>3. CASE manager.st = "Attaching"
  <2> DEFINE m == [st |-> "Attaching", err |-> "none", polling |-> TRUE,
                   connTimer |-> IF TimeoutSet THEN "fresh" ELSE "off",
                   retries |-> manager.retries]
  <2>1. manager' = m /\ socket' = NewSocket
    BY <1>3 DEF RetryAttach, Attach, Detached
  <2>2. m \in ManagerType /\ m.st = "Attaching"
    BY HeldNow DEF ManagerType, ManagerStates, ManagerErrors, TimerStates
  <2>3. NewSocket \in SocketType /\ NewSocket.st = "connecting"
    BY DEF NewSocket, SocketType, SocketStates
  <2> HIDE DEF m
  <2>4. Held(client, m, NewSocket)
    BY <1>3, <2>2, <2>3, HeldNow DEF Held, Sound
  <2>5. phase # "idle"
    BY <1>3, HeldNow
  <2>6. QED
    BY <1>1, <1>2, <2>1, <2>2, <2>4, <2>5, HeldNow, HeldKeeps DEF Others
<1>4. CASE manager.st # "Attaching"
  <2>1. UNCHANGED <<manager, socket>>
    BY <1>4 DEF RetryAttach
  <2>2. QED
    BY <1>1, <1>2, <2>1 DEF Consistent, TypeOK, ClientConsistent, ManagerNeedsProcess,
       DetachedIsQuiet, SocketFollowsManager, LaunchIsUnmanaged, IdleIsStopped
<1>5. QED
  BY <1>3, <1>4

LEMMA AnyStepKeeps == Consistent /\ [AnyStep]_vars => Consistent'
<1> SUFFICES ASSUME Consistent, [AnyStep]_vars PROVE Consistent'
  OBVIOUS
<1> USE DEF Consistent, TypeOK, ClientConsistent, ManagerNeedsProcess,
            DetachedIsQuiet, SocketFollowsManager, LaunchIsUnmanaged, IdleIsStopped
<1>1. CASE ConnTimerRuns
  BY <1>1 DEF ConnTimerRuns, TimerStates
<1>2. CASE ProcessExits
  BY <1>2 DEF ProcessExits, ProcessStates
<1>3. CASE /\ conf' \in [agent : BOOLEAN, fallback : BOOLEAN]
           /\ UNCHANGED <<client, manager, socket, reattach, cloud, phase>>
  BY <1>3
<1>4. CASE UNCHANGED vars
  BY <1>4 DEF vars
<1> HIDE DEF Consistent, TypeOK, ClientConsistent, ManagerNeedsProcess,
             DetachedIsQuiet, SocketFollowsManager, LaunchIsUnmanaged, IdleIsStopped
<1>5. CASE \E sig \in Signals, r \in Reactions :
              (phase # "closing" /\ Start(sig, r)) \/ CloudEvent(sig, r)
  <2>1. PICK sig \in Signals, r \in Reactions :
              (phase # "closing" /\ Start(sig, r)) \/ CloudEvent(sig, r)
    BY <1>5
  <2>2. CASE Start(sig, r)
    <3> DEFINE k == [cloud EXCEPT !.isFallback = FALSE]
    <3>1. k \in CloudType
      BY HeldNow DEF CloudType
    <3>2. Launch(k, sig, r) /\ CoreAnswers("started", r) /\ reattach' = reattach
      BY <2>2 DEF Start
    <3> HIDE DEF k
    <3>3. QED
      BY <3>1, <3>2, LaunchKeeps
  <2>3. CASE CloudEvent(sig, r)
    BY <2>3, ProcessKeeps, ManagerErrorKeeps, ManagerKeeps, RetryAttachKeeps DEF CloudEvent
  <2>4. QED
    BY <2>1, <2>2, <2>3
<1>6. CASE \E r \in Reactions : Stop(r)
  <2>1. PICK r \in Reactions : Stop(r)
    BY <1>6
  <2>2. CASE r = "stopped"
    <3>1. /\ conf' \in [agent : BOOLEAN, fallback : BOOLEAN] /\ phase' = "idle"
          /\ StopAll(client, manager, cloud.isFallback) /\ reattach' = reattach
      BY <2>1, <2>2, HeldNow, CoreAnswersType DEF Stop, Consistent
    <3>2. QED
      BY <3>1, StopAllKeeps
  <2>3. CASE r = "closing"
    <3>1. /\ conf' \in [agent : BOOLEAN, fallback : BOOLEAN] /\ phase' = "closing"
          /\ UNCHANGED <<client, manager, socket, cloud, reattach>>
      BY <2>1, <2>3, HeldNow, CoreAnswersType DEF Stop, Consistent
    <3>2. QED
      BY <3>1, HeldNow, HeldKeeps DEF Held, Others
  <2>4. QED
    BY <2>1, <2>2, <2>3 DEF Stop
<1>7. CASE CloseReply
  BY <1>7, StopAllKeeps, HeldNow DEF CloseReply
<1>8. QED
  BY <1>1, <1>2, <1>3, <1>4, <1>5, <1>6, <1>7 DEF AnyStep

\* At rest, whatever Core does.
LEMMA ConsistentIsQuiet == Consistent => StoppedIsQuiet
BY DEF Consistent, IdleIsStopped, ManagerNeedsProcess, DetachedIsQuiet, NoSocket,
   StoppedIsQuiet

LEMMA InvIsConsistent == IInv => Consistent
BY DEF IInv, Inductive, Consistent

\* Core's answer to an event decides on the phase.
LEMMA EventAnswers ==
    ASSUME NEW sig, NEW r, CloudEvent(sig, r)
    PROVE  CoreAnswers(phase, r)
BY DEF CloudEvent, ProcessStarted, ProcessFailedToStart, ProcessFinished, Connected, Refused,
       RefusedForGood, ConnectFails, PeerClosed, RetryAttach, StateTimeout, StateLine, OtherStateLine,
       FatalLine, ConnTimeout, OnRetry

\* An idle cloud has no event but an old timer, and reports nothing.
LEMMA IdleIsSilent ==
    ASSUME Consistent, phase = "idle", NEW sig \in Signals, NEW r \in Reactions,
           CloudEvent(sig, r)
    PROVE  /\ sig = "none" /\ r = "none"
           /\ UNCHANGED <<client, manager, socket, cloud, conf, phase>>
<1>1. /\ client.process = "none" /\ ~cloud.retry
      /\ manager.st = "Detached" /\ socket.st = "none" /\ manager.connTimer = "off"
  BY HeldNow DEF Held, Sound, NoSocket
<1>2. RetryAttach(sig, r)
  BY <1>1 DEF CloudEvent, ProcessStarted, ProcessFailedToStart, ProcessFinished, Connected,
     Refused, RefusedForGood, ConnectFails, PeerClosed, StateTimeout, StateLine, OtherStateLine,
     FatalLine, ConnTimeout, OnRetry
<1>3. sig = "none" /\ r = "none"
  BY <1>2 DEF RetryAttach, Silent
<1>4. conf' = conf /\ phase' = phase
  BY <1>2, <1>3 DEF RetryAttach, CoreAnswers
<1>5. QED
  BY <1>1, <1>2, <1>3, <1>4 DEF RetryAttach

\* A start reports nothing but errors.
LEMMA StartSignals ==
    ASSUME NEW sig, NEW r, Start(sig, r)
    PROVE  sig \in {"none", "error"} /\ CoreAnswers("started", r)
BY DEF Start, Launch, ClientErr, FallBack, Fail, Silent

-----------------------------------------------------------------------------
(* The theorems. *)

\* The inductive invariant holds at the start.
LEMMA InitInv == Init => IInv
<1> SUFFICES ASSUME Init PROVE IInv
  OBVIOUS
<1>1. 0 \in 0 .. AttachRetries /\ 0 \in 0 .. MaxTimers /\ 1 \in Exponents
  BY TunnelAssumption, OneIsReached
<1>2. TypeOK
  BY <1>1 DEF Init, TypeOK, ClientStates, ProcessStates, ManagerStates, ManagerErrors,
     TimerStates, SocketStates, NoSocket
<1>3. Inductive
  BY DEF Init, Inductive, ClientConsistent, ManagerNeedsProcess, DetachedIsQuiet,
     SocketFollowsManager, LaunchIsUnmanaged, RetryWithoutProcess, IdleIsStopped, Watched,
     FallbackIsConfigured, NoSocket
<1>4. QED
  BY <1>2, <1>3 DEF IInv

\* Every event that runs slots of Cloud preserves the invariant.
LEMMA CloudEventStep ==
    ASSUME IInv, NEW sig \in Signals, NEW r \in Reactions,
           CoreMayAnswer(sig, r), CloudEvent(sig, r)
    PROVE  IInv'
<1>1. CASE ProcessStarted(sig, r)
  BY <1>1, ProcessStartedStep
<1>2. CASE ProcessFailedToStart(sig, r) \/ ProcessFinished(sig, r)
  BY <1>2, ProcessErrorStep
<1>3. CASE Connected(sig, r)
  BY <1>3, ConnectedStep
<1>4. CASE Refused(sig, r)
  BY <1>4, RefusedStep
<1>5. CASE \/ RefusedForGood(sig, r) \/ ConnectFails(sig, r) \/ PeerClosed(sig, r)
           \/ FatalLine(sig, r) \/ ConnTimeout(sig, r)
  BY <1>5, ManagerErrorStep
<1>6. CASE RetryAttach(sig, r)
  BY <1>6, RetryAttachStep
<1>7. CASE StateTimeout(sig, r) \/ OtherStateLine(sig, r)
  BY <1>7, AskedStep
<1>8. CASE \E s \in ManagedStates : StateLine(s, sig, r)
  BY <1>8, StateLineStep
<1>9. CASE OnRetry(sig, r)
  BY <1>9, OnRetryStep
<1>10. QED
  BY <1>1, <1>2, <1>3, <1>4, <1>5, <1>6, <1>7, <1>8, <1>9 DEF CloudEvent

LEMMA StutterStep ==
    ASSUME IInv, UNCHANGED vars
    PROVE  IInv'
BY DEF vars, IInv, TypeOK, Inductive, ClientConsistent, ManagerNeedsProcess, DetachedIsQuiet,
       SocketFollowsManager, LaunchIsUnmanaged, RetryWithoutProcess, IdleIsStopped, Watched,
       FallbackIsConfigured

\* Every step preserves the invariant.
LEMMA NextInv == IInv /\ [Next]_vars => IInv'
<1> SUFFICES ASSUME IInv, [Next]_vars PROVE IInv'
  OBVIOUS
<1>1. CASE Configure
  BY <1>1, ConfigureStep
<1>2. CASE \E sig \in Signals, r \in Reactions :
              /\ CoreMayAnswer(sig, r)
              /\ phase = "idle"
              /\ Start(sig, r)
  BY <1>2, StartStep
<1>3. CASE \E r \in Reactions : phase = "started" /\ Stop(r)
  <2>1. PICK r \in Reactions : phase = "started" /\ Stop(r)
    BY <1>3
  <2>2. QED
    BY <2>1, CoreStopStep
<1>4. CASE phase = "idle" /\ Stop("stopped")
  <2>1. "stopped" \in Reactions
    BY DEF Reactions
  <2>2. QED
    BY <1>4, <2>1, CoreStopStep
<1>5. CASE CloseReply
  BY <1>5, CloseReplyStep
<1>6. CASE ProcessExits
  BY <1>6, ProcessExitsStep
<1>7. CASE ConnTimerRuns
  BY <1>7, ConnTimerRunsStep
<1>8. CASE \E sig \in Signals, r \in Reactions : CoreMayAnswer(sig, r) /\ CloudEvent(sig, r)
  BY <1>8, CloudEventStep
<1>9. CASE UNCHANGED vars
  BY <1>9, StutterStep
<1>10. QED
  BY <1>1, <1>2, <1>3, <1>4, <1>5, <1>6, <1>7, <1>8, <1>9 DEF Next

\* The inductive invariant holds in every behaviour of the cloud.
LEMMA Invariance == Spec => []IInv
<1>1. QED
  BY InitInv, NextInv, PTL DEF Spec

\* Every object stays in a state its class declares; in particular
\* attachRetries never passes its limit.
THEOREM TypeCorrect == Spec => []TypeOK
<1>1. IInv => TypeOK
  BY DEF IInv
<1>2. QED
  BY <1>1, Invariance, PTL

\* A VpnClient that has lost its process can always be started again.
THEOREM ClientIsRestartable == Spec => []Restartable
<1>1. IInv => Restartable
  BY DEF IInv, Inductive, ClientConsistent, Restartable
<1>2. QED
  BY <1>1, Invariance, PTL

\* The manager never outlives the process, so it never writes the state of a
\* client without one.
THEOREM ManagerIsBound == Spec => []ManagerNeedsProcess
<1>1. IInv => ManagerNeedsProcess
  BY DEF IInv, Inductive
<1>2. QED
  BY <1>1, Invariance, PTL

\* After Core's stop has completed, nothing of the cloud is left running.
THEOREM StopIsComplete == Spec => []StoppedIsQuiet
<1>1. IInv => StoppedIsQuiet
  BY DEF IInv, Inductive, IdleIsStopped, ManagerNeedsProcess, DetachedIsQuiet, NoSocket,
     StoppedIsQuiet
<1>2. QED
  BY <1>1, Invariance, PTL

\* A pending retry never finds the process it is to replace.
THEOREM RetryIsExclusive == Spec => []RetryWithoutProcess
<1>1. IInv => RetryWithoutProcess
  BY DEF IInv, Inductive
<1>2. QED
  BY <1>1, Invariance, PTL

\* With a timeout configured, a started cloud is connected or waits for
\* something that is due: nothing is left hanging without a timer.
THEOREM NothingIsForgotten == Spec => []Watched
<1>1. IInv => Watched
  BY DEF IInv, Inductive
<1>2. QED
  BY <1>1, Invariance, PTL

\* The fallback configuration is in use only while there is one.
THEOREM FallbackIsSafe == Spec => []FallbackIsConfigured
<1>1. IInv => FallbackIsConfigured
  BY DEF IInv, Inductive
<1>2. QED
  BY <1>1, Invariance, PTL
=============================================================================
