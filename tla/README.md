# libencloud in TLA+

libencloud is the client library of a VPN service. An application or a device
logs in to the *Switchboard*, downloads an OpenVPN configuration, runs the
`openvpn` executable with it, watches it over OpenVPN's management socket, and
keeps routes to the user's endpoints. The library is written in C++ with Qt: one
thread, one event loop, objects that talk by signals and slots. A direct signal
is a function call, so a handler of one object often runs in the middle of a
handler of another; timers, sockets, processes and HTTP replies come back later
through the event loop, in any order.

This directory models the part of the library that decides what happens next:
`Core`, `Cloud` with the VPN client and its manager, the setup modules of
applications (`QccSetup`) and devices (`RegSetup`), the `NetworkManager`, and what
connects the service with the world: the HTTP client, the local API server with
the objects that call it, the watchdog, and the processes it starts.

## The system

| Component | State | Operations and events | What makes it correct |
|---|---|---|---|
| `Core` (src/core) | shown state, `_busy`, two-state machine, pending delayed start | start, stop, error received, setup completed or stopped, configuration received, action requests | states mean what they say; stop always ends; modules are used as they expect |
| `Cloud` (src/cloud) | `_isFallback`, a `Retry` | start, stop, client and manager errors, retry | a failed connection is retried, falls back, or is given up: never forgotten, never doubled |
| `VpnClient` (src/common/vpn) | state, `QProcess` | start, stop, process started, failed, finished | a state from which it can be started exactly when it has no process |
| `VpnManager` (src/common/vpn) | state, error, `QTcpSocket`, two timers, `attachRetries` | attach, detach, socket events, lines, timeouts, delayed re-attach | writes the client's state only while there is a process; no timer survives a detach |
| `Retry` (src/common/error.cpp) | timer, exponent | start, stop | bounded exponential delay |
| `QccSetup`, `SetupMsg`, `CloseMsg` (src/setup) | state machine, error flag, `Retry`, credentials, downloaded configurations, requests in flight | start, stop (three forms), answers, errors, retry, login | no configuration outlives its session; a setup always waits for something that will come |
| `NetworkManager` (src/mgr) | gateways, connected and previous endpoints, the `netstat` process | synchronise, stop, gateway changes, end of `netstat` | routes of others survive, wanted routes come, a stop removes the rest |
| `RegSetup`, `RegMsg` (src/setup/reg) | as `QccSetup`, plus activation code, redirect, saved provisioning and the files | ask for the redirect, for the provisioning, unpack, delete at the servers, use the saved file | a registration is deleted only when it is saved; a device that is left alone gets through |
| `Process`, `ProcessManager` (src/mgr) | list of processes, state of each, zombie timers | start, stop, started, failed, finished, zombie | the list does not grow for ever; no running program is ended by mistake |
| `Watchdog` (src/common) | timer, state, a `Client` | start, stop, timeout, answer, error | an application that is dead is noticed, one that is well is not reported |
| HTTP server (src/http) | sockets with what was read of a request; the last state, error, needs and login in `HttpHandler` | connections, pieces of requests, signals of `Core`, API requests | a request is handled once and whole; the status is what `Core` last said |
| API objects (src/api) | a `Client` each; kind of the last request; the last status; the server's port | requests, answers, polls, start and stop of the server | each answer is reported as what it is; the user interface sees the last state and each error |
| HTTP client (src/common/client.cpp) | map of connections with timers, TLS error flag | request, reset, answer, error, TLS errors, timeout | one outcome for each request, no pointer to a connection that is gone |
| `Config`, `Auth`, `Proxy`, `VpnConfig`, crypto, JSON, logger | values | loading, saving, validation, conversion | round trips, validity |

Interaction: `Core` owns everything. It enters its setup state and calls
`QccSetup::start`; `completed` moves it to its cloud state, where it calls
`Cloud::start`. Errors of both come to `Core::_errorReceived`, which (in the
application) calls `Core::stop` *inside* the emitting handler. `Core::stop` calls
`QccSetup::stop`, which emits `stopped` at once or, when the session has to be
closed at the Switchboard, when the close request is answered;
`Core::_setupStopped` then calls `Cloud::stop`. `Cloud` asks the setup module for
the fallback configuration. `Cloud`'s `fallback` signal and the Switchboard's
answers set the gateways of `NetworkManager`; the GUI asks for route
synchronisations through the API. A user interface is another process: `StatusApi`
and the other API objects send it to `HttpServer`, whose `HttpHandler` answers from
what `Core` has signalled, or passes the request on to `Core`. While the service
runs, `Watchdog` asks the application whether it is alive, and `Core` stops when it
is not.

What is hard: re-entrant slots; answers to abandoned requests (`SetupMsg::clear`
does not cancel); single-shot timers nobody can cancel; a process, a socket and
three timers that report the same failure in any order; stops that wait for a
remote answer; commands that are started and not awaited; requests that overlap,
with a flag or a member that belongs to all of them; timers that fire for an object
that has been used again. The full list is under
`hazards` in `PROJECT.json`, each at its line.

## Modules

| Module | Models | Notes |
|---|---|---|
| `Tunnel` | `Cloud`, `VpnClient`, `VpnManager`, `Retry` | `Core` appears as an environment that starts, stops and answers errors |
| `TunnelProofs` | | theorems about `Tunnel` |
| `QccSetup` | `QccSetup`, `SetupMsg`, `CloseMsg`, `Retry` | `Core` appears as `session` and a choice of answers; handlers are functions of the module's state |
| `QccSetupProofs` | | theorems about `QccSetup` |
| `Service` | `Core`, composed with `Tunnel` and `QccSetup` | shows that `Core` is the environment the two assume; implements `Lifecycle` |
| `Lifecycle` | what the states of the service mean to its clients | abstract: the life of a session as the status shows it |
| `ServiceProofs` | | theorems about `Service`; uses those of `TunnelProofs` and `QccSetupProofs` |
| `Registration` | `RegSetup`, `RegMsg`, `CloseMsg`, `Retry`, and what the registry and the Switchboard have | the setup of devices; `Core` appears as `session` |
| `RegistrationProofs` | | theorems about `Registration` |
| `Routes` | `NetworkManager` with the `netstat` and `route` processes | stands alone: it shares no state with the others |
| `RoutesProofs` | | theorems about `Routes` |
| `HttpClient` | `Client`, `Connection` | the base of the next two; the network access manager is external |
| `HttpClientProofs` | | theorems about `HttpClient`, `Watchdog` and `ApiCalls` |
| `Watchdog` | `Watchdog`, its slots in `Core`, the application that is watched | extends `HttpClient`: the requests are the client's |
| `ApiCalls` | `SetupApi`, `ConfigApi`, `CloudApi`, `AuthApi` | extends `HttpClient` |
| `Processes` | `Process`, `ProcessManager` | stands alone; `Routes` and `Tunnel` have the processes they use |
| `HttpServer` | `Server`, `HttpServer`, the framing in `HttpHeaders` and `HttpRequest` | stands alone |
| `Parts` | `HttpClient`, `Watchdog`, `ApiCalls`, `Processes` and `HttpServer`, side by side | they share no state; in a behaviour one of them moves |
| `PartsProofs` | | theorems about `Processes`, `HttpServer` and `Parts` |
| `Status` | `HttpHandler`, `StatusApi`, and what `Core` signals to them | Setup and Cloud appear as sources of signals; `Service` has their order |
| `StatusProofs` | | theorem about `Status` |
| `MCTunnel`, `MCQccSetup`, `MCService`, `MCRegistration`, `MCRoutes`, `MCParts`, `MCStatus` | | instances for TLC |

Operators named after a mutation (their comment starts with "Mutant:") are
faulty versions of the operator that follows them. No specification uses them;
they are put in its place to see that a property notices the fault.

### Tunnel

State: `client` (state and process of `VpnClient`), `manager` (state, error, poll
timer, connection timer, `attachRetries`), `socket` (the manager's socket, and
whether a `state` command is unanswered), `reattach` (the number of pending
`singleShot(1000, retryAttach)`), `cloud` (`_isFallback`, `Retry`), `conf` (what
`Cloud` reads elsewhere) and `phase` (not started, started, closing). Each event
of the process, the socket, a timer or the user is one action that does all the
event's slots do, `Core`'s included. `sig` is the signal `Cloud` emits to `Core`
and `r` is what `Core` does in answer before the handler goes on: nothing, a
stop that has to close the session, or a stop that is complete. `Launch`,
`ClientErr`, `ManagerErr`, `Fail` and `Restart` are the pieces the handlers share;
they take the objects as the handler has left them so far. `phase` is `"closing"`
while `Core` waits for the close reply: the configuration files are gone, so a
retry in that time fails.

A process has exited (`"exited"`) before `finished()` is delivered, and the
connection timer is due before it fires, so that events in between are covered.
The need and password dialogue of the management interface is left out, except
that its failure is a fatal line. A write to a socket always succeeds. A connection
attempt is refused, or fails in some other way (`ConnectFails`: the manager gives up at
once). A socket that is given up is gone at once: the turn of the event loop in which
`deleteLater` leaves it alive, and `connected()`, which does not ask whether the manager
is still attached, could see it (vpnmanager.cpp:153, 416), is left out.

### QccSetup

State: `setup`, one record with the state machine, `_isError`, the retry timer
and its exponent, the credentials of both messages, whether `SetupMsg` has its
configuration object (`cfg`) and `CloseMsg` its network access manager (`qnam`),
the user whose request is answered next (`request`) and those of abandoned
requests (`orphans`), the decoded configurations, the files written for
`VpnClient` (`disk`, `fallbackDisk`), and whether a close request is under way.
An answer is processed by whatever `SetupMsg` has become by then; answers that
fail and answers that complete the setup are two operators. `WriteFiles` is
`Core::_setupCompleted`, any of whose writes may fail: `VpnConfig::toFile`
reports a failure when it has succeeded, so the fallback file is written only if
the primary one was not. `Tunnel` lets the cloud run on the fallback configuration
all the same, which covers profiles without a setup, whose files the user
provides. `session` is what `Core` is
doing, and `CoreAnswers` what `Core` may do inside an error signal. `usable` says
whether `Client::configFromAuth` takes the valid credentials at hand: a certificate file may
disappear, or a type may not be supported, also while the service is online
(`CredentialsChange`). A setup with such credentials fails before it sends; a close with
them sends nothing either, and then nobody says that it is done (`untold`). The removals of
files in `Deinit` succeed: `QccSetup::_clear` gives up at the first that does not.

### Service

`core` holds `Core`'s own fields; the other variables are those of `Tunnel` and
`QccSetup`, which are instantiated. The actions call the instances' handlers and
compute `Core`'s part. `Session` maps `Core`'s state to what `QccSetup` calls the
session. `CoreDrivesTunnel` and `CoreDrivesSetup` say that the composition
implements `Tunnel!Spec` and `QccSetup!Spec` under this mapping, so what is shown
of the two modules alone holds of them inside the service. `FollowsLifecycle` says
that it implements `Lifecycle!Spec`: `state` is `Core`'s, and `Stage` maps the state
machine and the phase of the cloud to what goes on (nothing, the setup, the cloud, its
end). So the cloud is entered only from a setup that has completed; an error ends what
was started; and a session that the Switchboard has to be told of ends when it has
been, with nothing begun before that, whatever is shown. Qt's state machine is
taken to start, stop and move at once, except that the cloud state is entered
by a step of its own (`core.fsm = "entering"`), before any other event. `MaySpoil` says
whether credentials may become unusable.

### Registration

`reg` is one record with `RegSetup`'s state machine and retry timer, `RegMsg`'s
members (`host` says where `_sbAuth` points to, `regUrl` and `redirectUrl` what
will be deleted), its request, abandoned requests, pending zero timers, and the
close request. `disk` has the activation code, the saved provisioning with the
Switchboard's name in it or not, the CA, and OpenVPN's configuration; `server`
what the registry and the Switchboard still have of each code; `deletes` the
requests to delete that are under way, which may get lost. Codes stand for what
is decrypted with them: what belongs to one code cannot be read with another.
`Reboot` is possible in every state and keeps `disk`, `server` and `deletes`.
Files are emptied before they are written, so a write that fails leaves the old
content (the file could not be created) or none (`torn`). `Core`'s own write of
OpenVPN's file succeeds here; `QccSetup` has the failures. A saved provisioning may turn
out to be unreadable (`OtherError`), and a stop may close the session or find no
credentials to do so with (`UserStop`). Removals of files succeed. Any request may end
as "not found", because `Client::_networkError` says so of failed handshakes too.
`spoilt` serves `SavedBeforeDeleted`: the saved provisioning has been emptied while
the zero timer that completes the setup with it is pending. That, and a redirect that
comes when the device is at rest, are the two cases the property excepts (see below).

Two assumptions: the user does not start the service or change the code in the
one turn of the event loop between a slot and its zero timer. A stop in that turn
is covered. `Core` never stops a device after an error
(`_cfg->config.setupAgent`).

### Routes

`nm` holds the gateways and lists of `NetworkManager`, `read` the `netstat`
process, `commands` the number of identical `route` commands under way, `table`
the system's routes. `stopped` and `overlap` only serve the properties: the
gateway of the last stop that could read the table, and whether a stop or a synchronisation ever found
another one, or its commands, under way. `SyncRoutes` starts `netstat`, `Netstat` reads the table,
`ReadFinished` compares and starts commands, `Command` executes one. `Stop`
waits for its own `netstat`, so it is one step; when that fails, it removes nothing
(`StopUnread`).

### HttpClient

An address (`Slots`) stands for a reply and its `Connection`: `conns` has what is in
the object at each address, `entries` what `_conns` has under the reply's address
(a connection, nothing, or the NULL that `QMap::operator[]` leaves when an unknown
reply is looked up). Addresses are used again. A connection is in flight until
`finished()`; after a timeout it is only dropped, and it is deleted by the event loop
later, while its reply may still report an error. `sslError` and `userData` are
members of the client that all requests share. `out` has what the step emits
(`Emit`); `history`, which serves the properties, how many signals of each kind each
request has had, and whether it ever overlapped another. `Foreign` is the reply of another client of the
same network access manager (`Shared`). `SendAt` and `NetworkError` take the parts
of the handlers that `Watchdog` and `ApiCalls` need. A `finished()` follows each
error, before or after other events.

### Watchdog

`wd` is the watchdog, `core` the part of `Core`'s life cycle that starts and stops
it (with `_busy`, which makes `Core` refuse the stop), `app` the application, which
may be alive, hung or dead, and may come back at another port. Time is counted in
intervals of the watchdog's timer, and passes (`Tick`) only when all that is due has
been handled. `link` and `age` say what becomes of each request: a dead application
refuses it, a hung one leaves it to the timeout, which is `TimeoutTicks` intervals.
`silent`, `trouble` and `excuse` serve the properties.

### ApiCalls

One API object of one of three classes: `SetupApi` takes the kind of an answer from
a member that each request overwrites, `ConfigApi` from the user data of the
request, the others have one kind. Clients of the API have no timeout, and none of
their requests goes through TLS or a proxy. `reports` has what the step's signals
are taken for.

### Processes

Each address holds a `Process`: whether the manager lists it, its state, the
program, and the number of zombie timers that are running for it. Callers get the
`QProcess` and the list of processes, and may stop or start a `Process` again
(`handled`). What `QProcess` does is external.

### HttpServer

`server` is `Server` with its first `HttpServer`: the port, whether it counts as
running, whether it listens, where, and what it has announced. Requests are sequences
of tokens with a size in bytes: the request line, the line with the length of the
content, the empty line and parts of the content. The system delivers any number of
tokens at a time, and `Read` counts bytes as `readyRead` does. `tidy` says that no
piece so far had parts of two requests or half a header: then each request must be
handled, once and whole; otherwise requests may be lost or joined, but none may be
handled twice. The second server (`_cloudServer`) is never started.

### Status

The events of `Core` are functions of both ends of the connection that
`attachServer` makes (`Now`): an error may stop the service first, which clears the
handler, and then shows the error. `core.busy` says why `Core` refuses to start and to
stop: a delayed start, a session that is being closed, or a start while connected,
after which it stays so; `core.cloud` whether the cloud runs, which it may do without
the state machine (`Halted`). Errors have numbers (`Error` counts them), so an
error that is raised anew differs from the one before. The client polls without
waiting: `replies` are answers under way, each of which may be seen in any order or
lost. A login reaches the handler in two ways: with the credentials that a user supplies,
and, in a device (`settings.agent`), with the user name of the provisioning (`VpnName`),
which `RegMsg` signals when it has read it (`SetupAnnounces`, and with what ends the
setup). `Core` passes the second on without taking it for its own credentials;
`core.named` says that it came last. `toldError` serves the property: the error shown has been signalled to the
user interface.

## Runs

| Run | Question | Result |
|---|---|---|
| `tunnel` | do the safety and liveness properties of the cloud hold under every order of events? | yes |
| `setup` | do sessions of two users leave nothing behind, and does a setup always wait for something? | yes |
| `setup_fallback` | can the cloud use the fallback configuration that the Switchboard has sent? | no: its file is not written when the primary file was |
| `registration` | is a registration saved before it is deleted, whatever is stopped, retried, late or switched off; does a device that is left alone get through; do its files belong together? | yes |
| `service` | is `Core` the environment both modules assume; do its states mean what they say, and is the life of a session what `Lifecycle` says; does `_busy` end? | yes |
| `service_retry` | with retries, and clients that start and reconfigure at any time: does Idle still mean idle, and does a setup always wait for something? | yes |
| `service_reconfigure` | is `_setupStopped` always triggered? | no, if the setup module is replaced |
| `routes` | do foreign routes survive and wanted routes come, with commands in any order; are added routes known and removed as long as nothing overlaps? | yes |
| `routes_stop` | does a stop remove the routes through the current gateway? | no: it looks for the primary gateway, also when the fallback gateway is in use |
| `routes_blocked` | is reading always unblocked? | no, when `netstat` fails |
| `parts` | is each request of the HTTP client told its own end, by exactly the signals the code has for it, and does its map hold no dead connection; does the watchdog notice a dead application and spare a live one; are answers reported as what was asked; do processes leave the manager's list and programs run on; are requests handled once and whole? | yes, with the exceptions stated in the properties |
| `status` | does a client that polls come to see the service as it is, is each error that stays announced, and is whoever is logged in, or provisioned, shown? | yes |

The five modules of `parts` do not act on each other. `Parts` has them side by
side: `part` says which one moves in a behaviour, so the states of the parts are
added, not multiplied, and a property of one part is checked where it moves.

What the modelled code does besides, met in counterexamples and while translating;
it is the reason for the premises and exceptions of the properties.

- Connection: `VpnManager::parseLineState` restarts the connection timer at each
  change of state, so the "timeout" of doc/CONFIG.md does not bound an attempt that
  keeps moving; `AttemptEnds` is about OpenVPN processes that move finitely often.
- `Core`: a start while the service is connected sets `_busy` and nothing resets it,
  so from then on neither errors nor the watchdog nor the user stop anything
  (`ErrorStopsProgress` and `DeathIsNoticed` except it).
- Setup: with retries, a setup started without credentials can be completed by a
  late answer, and the stop that follows never ends, because `CloseMsg` has no
  credentials to send (`StopCompletes` is about modules without retries). Likewise
  `CloseMsg` sends nothing with valid credentials that have become unusable
  (closemsg.cpp:76): `stopped` never comes, the stop does not complete, and `Core`
  stays busy (`StopCompletes` and `BusyEnds` except this case as `untold`). A late
  answer is decoded into a `SetupMsg` that has been reset, so memory may hold a
  configuration while the service is idle. `_clear` of both modules stops at the first
  file that cannot be removed (qccsetup.cpp:298-303, regsetup.cpp:303-308), so the files
  after it stay; `IdleIsQuiet`, `IdleIsIdle` and the properties of `Registration` take
  removals to succeed.
- Registration: a late answer can empty the CA of a device that is online when its
  write fails (`OnlineIsConsistent` allows a missing CA). A device whose first write
  of the provisioning fails retries at the Switchboard instead of the registry, is
  told "not found", and gives up (`SetupEnds` counts a critical error as an end).
- Registration: if two configurations are answered in one turn of the event loop and
  the second cannot be written, it empties the file that the first has written; the
  first one's zero timer then has the registration deleted, and the device is left
  with neither (`spoilt`). A redirect that comes when the device is at rest leaves its
  address in `_redirectUrl`; after a change of the code, a configuration that completes
  the setup has the Switchboard delete what that redirect was for, which was never saved.
- Service: a start while the service runs makes `Core` busy, and a busy `Core` does not
  stop at an error. For applications that do so (`MayRestart`), `ErrorStopsProgress`
  fails, and, where starts are delayed, so does `SetupGoesOn`; the runs and theorems
  about them exclude that.
- Routes: a stop during an asynchronous read removes nothing (`StopRemovesHosts`
  excludes overlaps). Nor does one whose own `netstat` fails, and nobody is told
  (`StopRemovesHosts` is about stops that could read the table). A stop deletes the route to a network as if it were a host
  (`StopRemovesHosts` is about hosts).
- HTTP client: `_sslError` belongs to all requests, so with requests that overlap a
  refused certificate of one can hide the failed handshake of another; a request that
  times out loses its user data, and an authentication request of a proxy is
  reported with the user data of the latest request. The timer runs on after an error
  until the reply finishes, so a request that failed may be reported again as timed out;
  each error of a refused certificate chain is a signal of its own (`TellsAlone` lists
  these sequences, and no other occurs).
- Watchdog: started again while it believes the application down, it does not report
  it again until it has answered once.
- API: `SetupApi` reports answers of overlapping requests as those of the last one.
  An answer that cannot be parsed is not reported. An error that another replaces, or
  that a stop clears before the next poll, is never seen; so is an error that `Core`
  emits without an error state (`Core::_actionRequest`, a file that is not written).
  A need that is supplied and comes up again between two polls looks as if it had
  stayed. A login without a name keeps the name of the one before. In a device the
  user name of the VPN replaces the login that is shown, while `Core` keeps the
  credentials it had (regmsg.cpp:444, core.cpp:681, handler.cpp:200).
- Processes: a program that cannot be started, or is detached, stays in the list for
  ever. The zombie timer of a `Process` that was started again deletes it with the
  running program.
- HTTP server: once started, `Server::start` does nothing, after a stop too. Each
  start that fails attaches `Core` once more. Port 65536 is accepted and becomes 0, as
  does the port after 65535, and 0 is announced instead of the port the system chose.
  A header in two pieces, or two requests in one, are not handled as sent.

Each property of a passing run was seen to fail for a faulty version of the code
(`mutants` in `PROJECT.json`).

### Bounds

- `Tunnel`: `AttachRetries` 5, `MaxTimers` 2 pending re-attachments (a stale
  one and a current one), `DelayMax` a few doublings of the backoff. Process,
  socket and timer states are all there, and `conf.agent` covers the devices
  that always retry.
- `QccSetup`: two users, so that an answer can belong to somebody else; with and
  without retries (`autoRetry` is chosen initially); `DelayMax` 8. Abandoned requests of one user are one element of `orphans`: the
  handler cannot tell them apart.
- `Service`: one user, one pending re-attachment, no backoff steps: the
  questions are about the order of `Core`'s handlers. `MaySpoil` is on where `_busy` must end and where clients do anything. `MayRestart` and
  `MayReconfigure` are off where the properties assume what documented clients do.
- `Routes`: two endpoints (one wanted, one with a foreign route), two gateways
  (primary and fallback), two identical commands at a time, so that an endpoint
  is added or deleted twice over. Networks matter only to what a stop cannot
  remove; `routes` has none.
- `Registration`: two codes, one of which the registry knows, so that a late
  answer can belong to another code and a code can be wrong; two abandoned
  requests (one for each resource, or for each code), two zero timers of each
  kind, so that one of an attempt that was stopped can be pending beside another. The
  second exception of `SavedBeforeDeleted` takes two codes that the registry knows;
  what the property says then is left to its theorem.
- `HttpClient`: four addresses, at most two requests at a time (`MaxOverlap`; one
  request is enough to be alone, two overlap, and a third only adds another of the
  same kind), because abandoned connections keep addresses until they are deleted.
  TLS errors come at most twice. `MCOptions` has all options that differ in a branch.
- `Watchdog`: a timeout of two intervals instead of ten, so that requests overlap and
  time out; two ports, so that the application can move.
- `ApiCalls`: two kinds of requests, one of which has an answer to be parsed.
- `Processes`: two addresses, two zombie timers of each.
- `HttpServer`: one address for sockets, which is used again by connections that
  follow each other; two requests of a connection, without content, with one part and
  with two. Port 65530 makes the scan of ten ports wrap.
- `Status`: two errors, so that one can replace another between two polls; two answers
  under way, so that they overtake each other; one user, one need, one request of the
  setup; an application whose start may be delayed, and a device that retries and names
  its VPN user. This run takes most of the time there is (three to four minutes).

### Fairness

Weak fairness on what the event loop delivers without anybody's help: the
outcome of launching a process, the end of a process, the outcome of a
connection attempt to a local socket, expiry of armed timers, and an outcome for
each HTTP request (it is answered, fails or times out). Nothing is assumed of
OpenVPN's progress, of the user, or of how often routes are synchronised:
`AddsConverge` has this in its premise. `AttemptEnds` assumes that OpenVPN
changes its state finitely often, since each change restarts the timeout. `SetupEnds` assumes
strong fairness of the good answers: a request that is repeated for ever is
answered with what the server has some time, at a device that can write its
files. Nothing is assumed of deletions and of the power. In `Status`, `StatusApi`'s timer
goes on (weak fairness of `Poll`), and not every oldest answer is lost (strong
fairness of `Seen(1)`: losing it may disable it); `ViewConverges` has in its premise
that the service comes to rest.

## Proofs

Every theorem is proved for all values of the constants, from the assumptions that
the modules state about them (`TunnelAssumption` and so on: types, and that the
values that stand for "none" are none of the others), which TLC evaluates in every
run. Six theorems of `ServiceProofs` have a hypothesis more; it is named below.

None of the properties is inductive alone. Each proof module begins with what it
strengthens them by, then has lemmas about the pieces that handlers share, then one
lemma for each action or handler, then the theorems.

| Module | Theorem | Property | Invariant behind it |
|---|---|---|---|
| `TunnelProofs` | `TypeCorrect`, `ClientIsRestartable`, `ManagerIsBound`, `StopIsComplete`, `RetryIsExclusive`, `NothingIsForgotten`, `FallbackIsSafe` | `TypeOK`, `Restartable`, `ManagerNeedsProcess`, `StoppedIsQuiet`, `RetryWithoutProcess`, `Watched`, `FallbackIsConfigured` | `IInv` |
| `QccSetupProofs` | `TypeCorrect`, `RestIsQuiet`, `SetupNeverStalls` | `TypeOK`, `IdleIsQuiet`, `SetupIsDriven` | `IInv` |
| `ServiceProofs` | `FallbackIsShared`, `IdleIsClean` | `FallbackAgrees`, `IdleIsIdle` | `GInv` |
| | `CloudIsConsistentInService` | `TypeOK`, `Restartable`, `ManagerNeedsProcess`, `StoppedIsQuiet` of `Tunnel` | `GInv` |
| | `SetupRestsInService` | `TypeOK`, `IdleIsQuiet` of `QccSetup` | `GInv` |
| | `SetupNeverStalls` (`Undelayed`) | `SetupGoesOn` | `GInv`, `SetupRuns` |
| | `ErrorsStopProgress` (`~MayRestart`) | `ErrorStopsProgress` | `GInv`, `Orderly` |
| | `ServiceFollowsLifecycle` (`~AutoRetry`, `~MayRestart`) | `FollowsLifecycle` | `GInv`, `Orderly` |
| | `TunnelIsDrivenByCore`, `SetupIsDrivenByCore` (`Plain`) | `CoreDrivesTunnel`, `CoreDrivesSetup` | `GInv`, `Orderly`, `HaltedHasConfig` |
| | `TunnelIsSafeInService` (`Plain`) | `RetryWithoutProcess`, `Watched`, `FallbackIsConfigured` of `Tunnel` | `TP!IInv`, `GInv`, `Orderly` |
| `RegistrationProofs` | `TypeCorrect`, `SetupNeverStalls`, `OnlineHasItsFiles`, `DeletedOnlyWhenSaved` | `TypeOK`, `SetupIsDriven`, `OnlineIsConsistent`, `SavedBeforeDeleted` | `IInv` |
| `RoutesProofs` | `ForeignRoutesSurvive` | `StaticRoutesKept` | `IInv` |
| | `TypeCorrect`, `AddedIsKnown`, `StopIsComplete` | `TypeOK`, `RoutesAreKnown`, `StopRemovesHosts` | `OInv` |
| `HttpClientProofs` | `MapIsRight`, `SignalsAreSafe` | `ClientInv`, `SignalsAreRight` | `ClientInductive` |
| | `ReportsAreRight` | `ReportsAreAsked` | `Asked` |
| | `PollsAreBounded`, `DeathsAreNoticed`, `AlarmsAreJustified` | `RequestsAreBounded`, `DeathIsNoticed`, `NoFalseAlarm` | `WatchInductive` |
| `PartsProofs` | `OnlyThreeKindsStay`, `ProgramsAreSafe` | `NothingElseStays`, `NoProgramIsKilled` | `ProcessesInductive` |
| | `RequestsAreHandledOnce` | `HandledOnceAndWhole` | `ServerInductive` |
| | `PartsAreRight` | `PartsInv` | `PartsInductive` |
| `StatusProofs` | `LoginIsShown` | `StatusInv` | `Sound` |

*Tunnel.* That the manager needs a process rests on the manager being detached while
a process is launched, which rests on the client's state agreeing with its process, on
the socket agreeing with the manager, and on Idle being idle. Lemmas first describe the
two ways of giving up a connection (`Cloud::stop` and `Cloud::_restart`; both end in
`AtRest`), then the three ways an error is handled, then each action. The lemma
`AnyStep` says that the objects stay consistent (`Consistent`) whatever `Core` does: it is
what `ServiceProofs` uses where `Core` does more than `Tunnel` assumes.

*QccSetup.* `AtRest` says what is left when the session ends: nothing runs, no file is
there, and no answer to come can write one, because either no request is under way or
`SetupMsg` has no configuration object. `Driven` says what moves a setup.

*Service.* `GInv` is `Consistent` (the cloud's objects, under any `Core`) and `Agreed`:
what `Core`'s state, its state machine, its flags and the phase of the cloud say of
each other and of the Setup module. It holds whatever clients do, and so do the four
theorems that follow from it alone. `FallbackAgrees` is one of its conjuncts; it is
proved for all constants and not checked by a run. The other theorems need hypotheses
on the constants, and for each TLC finds a counterexample without it:

- `Undelayed`: errors do not stop the service, or clients do not start a service that
  runs, or starts are not delayed.
- `~MayRestart`: clients do not start a service that runs (see above: `Core` would be
  busy). `Orderly` is what `Core` looks like then: a started cloud belongs to a `Core`
  that is neither busy nor in Error, and in Error the state machine is off.
- `Plain`: the application's `Core` (`~AutoRetry`), without such clients and without a
  change of the setup module while it is in use (`MayReconfigure`). This is the step
  simulation: each step of `Service` is a step of `Tunnel` or a stutter, and likewise of
  `QccSetup` with `session` replaced by `Session`. `HaltedHasConfig` is what `Session` needs
  to tell a halted setup from one at rest. So every theorem about `Tunnel` and
  `QccSetup` holds of the two inside the application's service; `TunnelIsSafeInService`
  states it for those that need `Plain`. In a device, the user may start in Error while
  the cloud waits for its retry: the setup completes, the cloud is started, and the retry
  timer later finds a process (`VpnClient::start` refuses a second one). A setup module
  that is replaced takes a fallback configuration with it that is in use.
- `~AutoRetry` and `~MayRestart` for `Lifecycle`: in the same case a device shows Setup
  while the cloud runs. The setup module may be replaced at any time. Lemmas say what
  `Stage` is after each piece the handlers share (`BeginFollows`, `HaltFollows`,
  `FailureFollows` and so on); `LifecycleSteps` has one step for each action.

`Service` and its proofs instantiate the two modules under different names; lemmas
(`SameStarted` and those that follow it) say that the operators are the same.

*Registration.* `Matches` says what `Core`'s state promises of the module (at rest
nothing runs, and no address is left to delete at the registry), `Agrees` that what waits
to complete the setup is of the code in the device, `Saved` that it is on the disk. An
answer is described as a step of the state without its request (`Fits`), so late answers
and timely ones share their lemmas. The exceptions of `SavedBeforeDeleted` were found
when a first version could not be proved: TLC then showed both cases.

*Routes.* `ForeignRoutesSurvive` is about every behaviour: an endpoint with a foreign
route is never remembered as added, has no command under way, is in everything `netstat`
has printed, and has no route through the VPN. The other theorems are about behaviours
in which nothing has overlapped: `Orderly` says that no command runs while the table is
read, that there is one route to a destination, that commands that add belong to what
is remembered, and what a stop has swept.

*HttpClient.* `ClientInductive` says what is known of the connection at each address
(`Known`: its phase, timer and history agree) and that of two requests in flight neither
counts as alone (`Lone`), which is what makes the shared TLS flag the flag of a lone
request; `Lone` also has what a lone request was told in each phase, signal by signal
(lemmas `Counting` and `Emitting`). The two users of the client use the lemmas about its handlers. `Asked` says
that the type of a request is where its answer looks for it. Of the watchdog, `Requests`
says that no two requests have the same age, which bounds their number by the timeout
(an injection into the ages); `Informed` that the first request since the application
fell silent is still under way, with an age that is the length of the silence; `Calm` that
nothing is pending which could report an application that has been well.

*Processes.* `GoodProcess` says of each `Process` that nobody else used: its state agrees with
its program, and a zombie timer runs only when the program has ended, so the timer
cannot find a program that runs.

*HttpServer.* `ServerInductive` relates what a connection keeps and what it has had
handled to what was sent. `Apart`, of every connection: what is kept is the last of what
was read and starts with a request line, and everything handled came before it, in
order; so a request line is never used twice, however requests are cut. `Whole`, of a
tidy connection: exactly the requests before the one that is kept were handled, each
with its content, what is kept are the first tokens of that one, and the expected size is
its size. Below it are lemmas about sums of lengths, the tokens of a request and
the stream of all requests: where each request begins and ends, and that a prefix of its
tokens has its size in bytes only when it is all of them, which is why counting bytes
finds the end. `Sums` and `Streams` are recursive functions; induction over them is by
the lemmas `LeastNumber` and `AllUpTo`, which rest on the order of the numbers alone.

*Parts.* `PartsInductive` joins the invariants of the parts. Those of the client, the
processes and the server hold in every behaviour (a part that does not move stays at
its beginning); `WatchInductive` and `ApiInductive`, which say what the client is used
for, hold where the watchdog or the API objects move.

*Status.* `Sound` is about a service on its way through a handler, with errors it has
not yet counted against the bound: what `Core` does on the way keeps it sound, and
`Becomes` puts it in place. `Shown` is the part about the login: a device shows its VPN
user from the signal until `Core` takes other credentials or stops.

Only model-checked: the liveness properties (`DeadProcessIsReaped`, `AttemptEnds`,
`StopCompletes`, `BusyEnds`, `SetupEnds`, `AddsConverge`, `ViewConverges`,
`ErrorIsAnnounced`), since liveness and `ENABLED` are out of the prover's reach.

## Plan

1. Done: `Tunnel`, `QccSetup`, `Service`, `Registration`, `Routes`, `HttpClient`,
   `Watchdog`, `ApiCalls`, `Processes`, `HttpServer`, `Status`.
2. Done: every safety and action property that the passing runs check is a theorem, and
   `Service` implements `Tunnel` and `QccSetup`.
3. Done: `Lifecycle`, which `Service` implements, with its step simulation. `Status` does
   not implement it: there Setup and Cloud are sources of signals in any order, so that
   the status is right whatever their order is.
4. Done: the properties of `Tunnel` and `QccSetup` inside the service, as theorems of
   `Service`.

Open: hazards that no property covers. The properties nearest to them except exactly
these cases, since neither the code nor its documents say what should happen:

- vpnmanager.cpp:254, a connection that moves back between two polls without `Core`
  noticing; vpnmanager.cpp:319, changes of state that restart the timeout;
- networkmanager.cpp:247, :159 and :235, a stop during a read, networks without a mask,
  and commands that overtake each other;
- client.cpp:315, a failed handshake that counts as "not found"; setupapi.cpp:36, answers
  of overlapping requests; closemsg.cpp:76, a close with unusable credentials;
- process.cpp:104, a zombie timer that meets a program started again; server.cpp:55, the
  port after the last.

## Not modelled

- The dispatch of API requests (`HttpHandler::handle`, `ApiHandler1`) and responses:
  one request, one answer, no state of their own; what the requests set off is in
  `Status` and `Service`.
- `VpnSetup`: reads a configuration file and completes.
- `Config`, `Auth`, `Proxy`: values that are loaded and checked; the settings that
  matter are constants.
- Translation of VPN configurations, cryptography, JSON, logging, utilities: data or
  input and output.
- Failures to remove a file, and sockets between `deleteLater` and their deletion.
- `setupEnabled = false`, exceptions of the YAML parser, the Windows workarounds for
  routes and firewall, and the GUI mode of `Core`; memory is never exhausted
  (`VpnManager::attach` would jump to its error label for ever, vpnmanager.cpp:87).
