------------------------------- MODULE Watchdog -------------------------------
(***************************************************************************)
(* While the service runs, Core's Watchdog asks the client application for *)
(* its status at every interval, and Core stops the service when the       *)
(* application does not answer.  Requests are sent whether or not earlier  *)
(* ones have ended; only their timeout, ten intervals, ends those that the *)
(* application leaves unanswered.                                          *)
(*                                                                         *)
(* Time is counted in intervals.  The event loop is never late: time       *)
(* passes when everything that is due has been handled.  Requests go to    *)
(* the local host, without TLS and without a proxy.                        *)
(***************************************************************************)
EXTENDS HttpClient, FiniteSets

CONSTANTS
    Ports,      \* where the application may listen
    NoPort,     \* -1
    TimeoutTicks \* LIBENCLOUD_CLIENT_TIMEOUT, in intervals

ASSUME WatchdogAssumption ==
    /\ TimeoutTicks \in Nat \ {0}
    /\ NoPort \notin Ports
    /\ Users # {}

VARIABLES
    wd,         \* Watchdog: running, state, and whether its timer has expired
    core,       \* Core's life cycle and _busy
    url,        \* the watchdog's URL, which is Core's _clientPort
    app,        \* the client application and where it listens
    link,       \* what the system does with the request at each address
    age,        \* of the request at each address
    \* for the properties only:
    silent,     \* for how long nobody has answered and the watchdog has run
    trouble,    \* the application has not been well since time last passed
    excuse      \* why the end of the application may go unnoticed

watchVars == <<wd, core, url, app, link, age, silent, trouble, excuse>>
watchdogVars == <<clientVars, watchVars>>

Poller == CHOOSE user \in Users : TRUE

Well == app.st = "alive" /\ app.port = url

-----------------------------------------------------------------------------
(* Signals of the client. *)

\* Core::stop, as far as the watchdog is concerned
StopsCore == core.st = "on" /\ ~core.busy

\* Mutant: the state is kept when Core is told.
HearForgetful(signals) ==
    \/ /\ \E i \in DOMAIN signals : signals[i].kind # "complete"
       /\ wd' = [wd EXCEPT !.state = "down"]
       /\ UNCHANGED <<core, excuse>>
    \/ /\ \E i \in DOMAIN signals : signals[i].kind = "complete"
       /\ wd' = [wd EXCEPT !.state = "up"]
       /\ excuse' = "none"
       /\ UNCHANGED core
    \/ signals = <<>> /\ UNCHANGED <<wd, core, excuse>>

\* Watchdog::_clientError, _clientComplete and Core::_clientDown: only a change
\* is reported, and Core may be too busy to stop
Hear(signals) ==
    \/ /\ \E i \in DOMAIN signals : signals[i].kind # "complete"
       /\ wd.state # "down"
       /\ IF StopsCore
          THEN /\ wd' = [running |-> FALSE, state |-> "down", due |-> FALSE]
               /\ core' = [st |-> "stopping", busy |-> TRUE]
               /\ UNCHANGED excuse
          ELSE /\ wd' = [wd EXCEPT !.state = "down"]
               /\ excuse' = "refused"
               /\ UNCHANGED core
    \/ /\ \E i \in DOMAIN signals : signals[i].kind = "complete"
       /\ wd' = [wd EXCEPT !.state = "up"]
       /\ excuse' = "none"
       /\ UNCHANGED core
    \/ /\ \A i \in DOMAIN signals : signals[i].kind # "complete" /\ wd.state = "down"
       /\ UNCHANGED <<wd, core, excuse>>

\* Watchdog::_timeout: a request for the status of whoever listens at the URL
Poll(s) ==
    /\ wd.due
    /\ Send(s, Poller)
    /\ wd' = [wd EXCEPT !.due = FALSE]
    /\ link' = [link EXCEPT ![s] = IF app.st # "dead" /\ app.port = url
                                   THEN "open" ELSE "refused"]
    /\ age' = [age EXCEPT ![s] = 0]
    /\ UNCHANGED <<core, url, app, silent, trouble, excuse>>

\* The application answers.
Answer(s) ==
    /\ link[s] = "open" /\ app.st = "alive" /\ conns[s].phase = "sent"
    /\ Finished(s)
    /\ Hear(out')
    /\ UNCHANGED <<url, app, link, age, silent, trouble>>

\* Nobody listens, or the connection has been reset: error(), then finished()
Refused(s) ==
    /\ link[s] = "refused"
    /\ \/ conns[s].phase = "sent" /\ NetworkError(s, FALSE)
       \/ conns[s].phase = "failed" /\ Finished(s)
    /\ Hear(out')
    /\ UNCHANGED <<url, app, link, age, silent, trouble>>

\* Mutant: the timeout is taken for milliseconds.
GiveUpAtOnce(s) ==
    /\ Timeout(s, s)
    /\ Hear(out')
    /\ UNCHANGED <<url, app, link, age, silent, trouble>>

\* Nobody has answered for too long.
GiveUp(s) ==
    /\ age[s] = TimeoutTicks
    /\ Timeout(s, s)
    /\ Hear(out')
    /\ UNCHANGED <<url, app, link, age, silent, trouble>>

Deferred(s) ==
    /\ Delete(s)
    /\ UNCHANGED watchVars

-----------------------------------------------------------------------------
(* Core, as far as the watchdog is concerned. *)

\* Core::_start: the watchdog starts anew, if there is something to watch, but
\* keeps the state it had
Started ==
    /\ core' = [st |-> "on", busy |-> FALSE]
    /\ wd' = IF url # NoPort THEN [wd EXCEPT !.running = TRUE, !.due = FALSE] ELSE wd
    /\ excuse' = IF wd.state = "down" THEN "startedDown" ELSE "none"
    /\ silent' = 0

\* Core::start, at once or after the pause that avoids congestion; if Core runs
\* already it stays busy
Start ==
    /\ ~core.busy
    /\ \/ Started
       \/ core' = [st |-> "waiting", busy |-> TRUE] /\ UNCHANGED <<wd, excuse, silent>>
       \/ core.st = "on" /\ core' = [core EXCEPT !.busy = TRUE] /\ UNCHANGED <<wd, excuse, silent>>
    /\ out' = <<>>
    /\ UNCHANGED <<conns, entries, opts, sslError, userData, history, url, app, link, age, trouble>>

DelayedStart ==
    /\ core.st = "waiting"
    /\ Started
    /\ out' = <<>>
    /\ UNCHANGED <<conns, entries, opts, sslError, userData, history, url, app, link, age, trouble>>

\* Core::stop, for any other reason
Stop ==
    /\ StopsCore
    /\ core' = [st |-> "stopping", busy |-> TRUE]
    /\ wd' = [wd EXCEPT !.running = FALSE, !.due = FALSE]
    /\ out' = <<>>
    /\ UNCHANGED <<conns, entries, opts, sslError, userData, history, url, app, link, age,
                   silent, trouble, excuse>>

\* Core::_setupStopped
SetupStopped ==
    /\ core.st = "stopping"
    /\ core' = [st |-> "idle", busy |-> FALSE]
    /\ out' = <<>>
    /\ UNCHANGED <<conns, entries, opts, sslError, userData, history, wd, url, app, link, age,
                   silent, trouble, excuse>>

\* Core::_clientPortReceived: a running watchdog is redirected, one that does
\* not run is not started
ClientPort ==
    /\ app.st = "alive"
    /\ url' = app.port
    /\ out' = <<>>
    /\ UNCHANGED <<conns, entries, opts, sslError, userData, history, wd, core, app, link, age,
                   silent, trouble, excuse>>

-----------------------------------------------------------------------------
(* The application, and time. *)

\* The application dies, hangs, goes on, or is started again.
AppMoves(st, port) ==
    /\ app.st # st
    /\ st = "hung" => app.st = "alive"
    /\ app.st = "dead" \/ port = app.port
    /\ app' = [st |-> st, port |-> port]
    /\ link' = [s \in Slots |-> IF st = "dead" /\ link[s] = "open" THEN "refused" ELSE link[s]]
    /\ trouble' = TRUE
    /\ silent' = IF st = "alive" THEN 0 ELSE silent
    /\ out' = <<>>
    /\ UNCHANGED <<conns, entries, opts, sslError, userData, history, wd, core, url, age, excuse>>

\* One interval passes, once everything that is due has been done.
Tick ==
    /\ ~wd.due
    /\ \A s \in Slots :
        /\ conns[s].phase \in {"free", "sent"}
        /\ conns[s].phase = "sent" =>
            /\ link[s] = "open" /\ app.st # "alive"
            /\ ~conns[s].timer \/ age[s] < TimeoutTicks
    /\ wd' = [wd EXCEPT !.due = wd.running]
    /\ age' = [s \in Slots |-> IF conns[s].phase = "sent" THEN age[s] + 1 ELSE 0]
    /\ link' = [s \in Slots |-> IF conns[s].phase = "sent" THEN link[s] ELSE "none"]
    /\ silent' = IF wd.running /\ app.st # "alive"
                 THEN IF silent > TimeoutTicks + 1 THEN silent ELSE silent + 1
                 ELSE 0
    /\ trouble' = ~Well
    /\ out' = <<>>
    /\ UNCHANGED <<conns, entries, opts, sslError, userData, history, core, url, app, excuse>>

-----------------------------------------------------------------------------

WatchInit ==
    /\ ClientInit
    /\ wd = [running |-> FALSE, state |-> "unknown", due |-> FALSE]
    /\ core = [st |-> "idle", busy |-> FALSE]
    /\ url = NoPort
    /\ \E port \in Ports : app = [st |-> "dead", port |-> port]
    /\ link = [s \in Slots |-> "none"]
    /\ age = [s \in Slots |-> 0]
    /\ silent = 0
    /\ trouble = TRUE
    /\ excuse = "none"

WatchNext ==
    \/ \E s \in Slots : Poll(s) \/ Answer(s) \/ Refused(s) \/ GiveUp(s) \/ Deferred(s)
    \/ Start \/ DelayedStart \/ Stop \/ SetupStopped \/ ClientPort
    \/ \E st \in {"alive", "hung", "dead"}, port \in Ports : AppMoves(st, port)
    \/ Tick

WatchSpec == WatchInit /\ [][WatchNext]_watchdogVars

-----------------------------------------------------------------------------
(* Properties. *)

WatchTypeOK ==
    /\ wd \in [running : BOOLEAN, state : {"unknown", "up", "down"}, due : BOOLEAN]
    /\ core \in [st : {"idle", "waiting", "on", "stopping"}, busy : BOOLEAN]
    /\ url \in Ports \cup {NoPort}
    /\ app \in [st : {"alive", "hung", "dead"}, port : Ports]
    /\ link \in [Slots -> {"none", "open", "refused"}]
    /\ age \in [Slots -> 0..TimeoutTicks]
    /\ silent \in 0..TimeoutTicks + 2
    /\ trouble \in BOOLEAN
    /\ excuse \in {"none", "startedDown", "refused"}

\* Types, and the requests: however long an application hangs, and however
\* often the service is started and stopped meanwhile, the requests it leaves
\* unanswered are no more than the timeout has intervals, and the one just sent.
RequestsAreBounded == WatchTypeOK /\ Cardinality(InFlight) <= TimeoutTicks + 1

\* An application that has not answered for longer than the timeout while the
\* watchdog was running has stopped the service.  Two cases are excepted, and
\* in these the service runs on until somebody stops it: the watchdog was
\* started when it had last found the application down and no answer has come
\* since, for then nothing changes; or Core was busy, as it stays after being
\* started while it runs.
DeathIsNoticed ==
    wd.running /\ silent > TimeoutTicks + 1 => excuse # "none"

\* Errors of abandoned requests that come late do no harm: the watchdog only
\* reports an application that was dead, hung, or not yet known under its
\* present port, at some moment of the last interval.
NoFalseAlarm ==
    [][wd'.state = "down" /\ wd.state # "down" => trouble]_watchdogVars
=============================================================================
