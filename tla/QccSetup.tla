------------------------------ MODULE QccSetup ------------------------------
(***************************************************************************)
(* The Setup module of the client application: QccSetup runs a two-step    *)
(* state machine (ask the Switchboard for the configuration, done), with   *)
(* an error state and a Retry timer, around two messages: SetupMsg, which  *)
(* downloads the VPN configuration, and CloseMsg, which tells the          *)
(* Switchboard that the user has left.                                     *)
(*                                                                         *)
(* Both messages are HTTP requests that are answered later, or fail, or    *)
(* time out.  SetupMsg::clear forgets its HTTP client without cancelling   *)
(* it, so the answer to an abandoned request still arrives, at a SetupMsg  *)
(* that has meanwhile been cleared or is serving another user.             *)
(*                                                                         *)
(* The handlers are functions of the module's state, so that a handler of  *)
(* Core that runs in the middle of one of them is function application.    *)
(* "setupEnabled" is true throughout: without it the module only reads the *)
(* configuration from a file.  Credentials that are valid may be unusable: *)
(* a certificate file that cannot be read, a kind of Auth that             *)
(* crypto::configFromAuth does not know.                                   *)
(***************************************************************************)
EXTENDS Naturals

CONSTANTS
    Users,      \* Switchboard accounts
    NoUser,     \* no account: an invalid Auth, a cleared configuration
    DelayMax    \* Retry's ceiling in seconds (BackoffMax)

ASSUME QccSetupAssumption ==
    /\ NoUser \notin Users
    /\ DelayMax \in Nat \ {0}

VARIABLES
    setup,      \* QccSetup with its SetupMsg, CloseMsg and Retry
    session     \* what Core is doing, as far as this module can tell

vars == <<setup, session>>

Accounts == Users \cup {NoUser}

FsmStates == {"off", "message", "error", "final"}

\* idle; setup (running, or waiting in its error state); halted, after the
\* Switchboard asked for an organization; online, handed over to the cloud;
\* closing, waiting for CloseMsg.
Sessions == {"idle", "setup", "halted", "online", "closing"}

\* How an answer to SetupMsg ends.  "rejected": before the configuration was
\* read (no parse, not authorized, server error, missing field, or no answer
\* at all); "domains": an organization has to be chosen; "invalid": after it
\* was read (not valid, already connected, bad fallback or CA); "unwritten":
\* the CA file could not be written; "accepted".
Outcomes == {"rejected", "domains", "invalid", "unwritten", "accepted"}

Backoff(n) == IF 2 ^ n < DelayMax THEN n + 1 ELSE n

\* QccSetup::QccSetup, with the Config::autoretry it is given; the files of an
\* earlier module would still be there
Fresh(autoRetry) ==
    [autoRetry |-> autoRetry, fsm |-> "off", isError |-> FALSE, retry |-> FALSE,
     backoff |-> 1, auth |-> NoUser, closeAuth |-> NoUser, cfg |-> TRUE, qnam |-> FALSE,
     request |-> NoUser, orphans |-> {}, config |-> NoUser, fallback |-> NoUser,
     disk |-> NoUser, fallbackDisk |-> NoUser, closing |-> FALSE,
     usable |-> TRUE, untold |-> FALSE]

\* The files Core writes for VpnClient; writing one may fail.
Files == {"vpn", "fallback"}

-----------------------------------------------------------------------------
(* Handlers, as functions of the state s of the module. *)

\* Mutant: the abandoned request is kept without looking whether there is one.
ClearMsgBlindly(s) ==
    [s EXCEPT !.cfg = FALSE, !.auth = NoUser, !.config = NoUser, !.fallback = NoUser,
              !.orphans = @ \cup {s.request}, !.request = NoUser]

\* Mutant: MessageInterface::clear leaves _cfg.
ClearMsgKeepingConfig(s) ==
    [s EXCEPT !.auth = NoUser, !.config = NoUser, !.fallback = NoUser,
              !.orphans = IF s.request = NoUser THEN @ ELSE @ \cup {s.request},
              !.request = NoUser]

\* SetupMsg::clear: the HTTP client is forgotten, not cancelled
ClearMsg(s) ==
    [s EXCEPT !.cfg = FALSE, !.auth = NoUser, !.config = NoUser, !.fallback = NoUser,
              !.orphans = IF s.request = NoUser THEN @ ELSE @ \cup {s.request},
              !.request = NoUser]

\* QccSetup::stop up to _deinitFsm, which removes the downloaded files; the model
\* takes each removal to succeed (_clear would end at the first that fails)
Deinit(s) ==
    [s EXCEPT !.fsm = "off", !.retry = FALSE, !.backoff = 1,
              !.disk = NoUser, !.fallbackDisk = NoUser]

\* QccSetup::stop (reset = false)
Halt(s) == Deinit(s)

\* QccSetup::stop (reset = true, close = false); it emits stopped, and Core
\* answers with an invalid Auth
Stop(s) == ClearMsg(Deinit(s))

\* CloseMsg::process has what it needs to make its request.
Closable(s) == s.qnam /\ s.closeAuth # NoUser

\* CloseMsg::process sends its request: crypto::configFromAuth takes the Auth.
CanClose(s) == Closable(s) /\ s.usable

\* QccSetup::stop (reset = true, close = true); stopped follows the answer, if
\* there is a request.  Where CloseMsg::process fails, it also drops the HTTP
\* client of an earlier one.
Close(s) ==
    [ClearMsg(Deinit(s)) EXCEPT
        !.closing = CanClose(s) \/ (@ /\ ~Closable(s)),
        !.untold = Closable(s) /\ ~s.usable]

\* CloseMsg::_clientComplete or _error; stopped is emitted, and Core answers
\* with an invalid Auth
Closed(s) == [s EXCEPT !.closing = FALSE, !.auth = NoUser, !.closeAuth = NoUser]

\* Core's answer to an error, "none" when it goes on
Answered(s, r) ==
    CASE r = "none"  -> s
      [] r = "halt"  -> Halt(s)
      [] r = "stop"  -> Stop(s)
      [] r = "close" -> Close(s)

\* Mutant: the retry timer is not started in the error state.
RaiseWithoutRetry(s, r) ==
    LET t == Answered(s, r) IN
    IF t.fsm # "message" THEN t ELSE [t EXCEPT !.fsm = "error", !.isError = TRUE]

\* SetupMsg's error signal: QccSetup::_onError tells Core, then the state
\* machine enters the error state if it is still in the message state
\* (QccSetup::_onErrorState)
Raise(s, r) ==
    LET t == Answered(s, r) IN
    IF t.fsm # "message" THEN t
    ELSE [t EXCEPT !.fsm = "error", !.isError = TRUE, !.retry = t.autoRetry,
                   !.backoff = IF t.autoRetry THEN Backoff(@) ELSE @]

\* The message state is entered: QccSetup::_stateEntered, SetupMsg::process
\* with valid credentials; a previous HTTP client is deleted.
Entered(s) ==
    [s EXCEPT !.fsm = "message",
              !.retry = @ /\ s.isError,
              !.backoff = IF s.isError THEN @ ELSE 1]

Send(s) == [Entered(s) EXCEPT !.request = s.auth]

\* SetupMsg::process can send its request.
CanSend(s) == s.auth # NoUser /\ s.usable

\* SetupMsg::process without valid credentials, or with unusable ones
Refuse(s, r) == Raise([Entered(s) EXCEPT !.request = NoUser], r)

\* Mutant: the close message gets no network access manager.
StartedWithoutNetwork(s) == [s EXCEPT !.isError = FALSE, !.cfg = TRUE]

\* QccSetup::start up to the start of its state machine
Started(s) == [s EXCEPT !.isError = FALSE, !.cfg = TRUE, !.qnam = TRUE]

\* SetupMsg::_decodeResponse for an answer to u's request, with or without a
\* fallback configuration in it
Decode(s, u, fb) == [s EXCEPT !.config = u, !.fallback = IF fb THEN u ELSE @]

\* Core::_setupCompleted.  VpnConfig::toFile takes the 0 that bytes2File returns
\* for an error: where the first file was written, the handler emits an error
\* and ends; where it was not, it goes on with the fallback configuration.
WriteFiles(s, written) ==
    IF "vpn" \in written THEN [s EXCEPT !.disk = s.config]
    ELSE IF "fallback" \in written /\ s.fallback # NoUser
         THEN [s EXCEPT !.fallbackDisk = s.fallback]
         ELSE s

\* SetupMsg's processed signal: QccSetup::_onProcessed emits completed, Core
\* writes the files, and the state machine reaches its end if it was waiting for
\* this.
Complete(s, written) ==
    LET t == WriteFiles(s, written) IN
    IF t.fsm = "message" THEN [t EXCEPT !.fsm = "final", !.isError = FALSE] ELSE t

\* An outcome that the module reports as an error; without its Config a
\* cleared SetupMsg fails in _unpackResponse.
Fails(s, o) == o # "accepted" \/ ~s.cfg

\* SetupMsg::_clientComplete (or the HTTP client's error) for u's request, that
\* ends with an error
AnswerFails(s, u, o, fb, r) ==
    Raise(IF o \in {"rejected", "domains"} THEN s ELSE Decode(s, u, fb), r)

\* SetupMsg::_clientComplete for u's request, that completes the setup
AnswerCompletes(s, u, fb, written) == Complete(Decode(s, u, fb), written)

-----------------------------------------------------------------------------
(* Core, as far as this module can tell. *)

\* Mutant: Core stops only what was online.
CoreAnswersOnline(o) ==
    CASE o = "domains" -> {"halt"}
      [] o # "domains" /\ ~setup.autoRetry /\ session = "online" -> {"stop", "close"}
      [] OTHER -> {"none"}

\* Core::_errorReceived: an organization is asked for without giving up;
\* devices go on; the application stops, unless it is idle, stopping, or about
\* to start.  Core::stop closes the session if the VPN was connecting or
\* connected, which is for the cloud to say.
CoreAnswers(o) ==
    CASE o = "domains" -> {"halt"}
      [] o # "domains" /\ ~setup.autoRetry /\ session = "setup" -> {"stop"}
      [] o # "domains" /\ ~setup.autoRetry /\ session = "online" -> {"stop", "close"}
      [] o # "domains" /\ ~setup.autoRetry /\ session \in {"idle", "halted"} -> {"stop", "none"}
      [] OTHER -> {"none"}

After(r) ==
    CASE r = "none"  -> session
      [] r = "halt"  -> IF session = "setup" THEN "halted" ELSE session
      [] r = "stop"  -> "idle"
      [] r = "close" -> "closing"

\* The user logs in: QccSetup forwards authSupplied to both messages.
Login(u) ==
    /\ setup' = [setup EXCEPT !.auth = u, !.closeAuth = u]
    /\ UNCHANGED session

\* The credentials at hand become unusable, or usable again.
CredentialsChange ==
    /\ setup' = [setup EXCEPT !.usable = ~@]
    /\ UNCHANGED session

\* QccSetup::start, on entering Core's setup state
Start ==
    /\ session \in {"idle", "halted"}
    /\ LET s == Started(setup) IN
       \/ /\ CanSend(s)
          /\ setup' = Send(s)
          /\ session' = "setup"
       \/ /\ ~CanSend(s)
          /\ setup' = Refuse(s, IF s.autoRetry THEN "none" ELSE "stop")
          /\ session' = IF s.autoRetry THEN "setup" ELSE "idle"

\* QccSetup::_onRetryTimeout
RetryTimeout ==
    /\ setup.retry
    /\ LET s == [setup EXCEPT !.retry = FALSE] IN
       IF s.fsm # "error" THEN setup' = s /\ UNCHANGED session
       ELSE \/ CanSend(s) /\ setup' = Send(s) /\ UNCHANGED session
            \/ ~CanSend(s) /\ \E r \in CoreAnswers("rejected") :
                  setup' = Refuse(s, r) /\ session' = After(r)

\* Core::stop asked by the user or by the watchdog; in the error state there
\* may be nothing left to stop
UserStop ==
    \/ /\ session # "closing"
       /\ setup' = Stop(setup)
       /\ session' = "idle"
    \/ /\ session = "online"
       /\ setup' = Close(setup)
       /\ session' = "closing"

\* An answer reaches SetupMsg, for its own request or for an abandoned one.
\* Core's state machine goes on to the cloud when it is waiting for the setup.
Reply(own) ==
    \E u \in Users, o \in Outcomes, fb \in BOOLEAN :
        /\ IF own THEN setup.request = u ELSE u \in setup.orphans
        /\ LET s == IF own THEN [setup EXCEPT !.request = NoUser]
                           ELSE [setup EXCEPT !.orphans = @ \ {u}]
           IN IF Fails(s, o)
              THEN \E r \in CoreAnswers(o) :
                      setup' = AnswerFails(s, u, o, fb, r) /\ session' = After(r)
              ELSE /\ \E written \in SUBSET Files : setup' = AnswerCompletes(s, u, fb, written)
                   /\ session' = IF session = "setup" THEN "online" ELSE session

\* The close request is answered, fails or times out: Core::_setupStopped
CloseReply ==
    /\ setup.closing
    /\ setup' = Closed(setup)
    /\ session' = "idle"

-----------------------------------------------------------------------------
Init ==
    /\ setup \in {Fresh(autoRetry) : autoRetry \in BOOLEAN}
    /\ session = "idle"

Next ==
    \/ \E u \in Users : Login(u)
    \/ CredentialsChange
    \/ Start
    \/ RetryTimeout
    \/ UserStop
    \/ \E own \in BOOLEAN : Reply(own)
    \/ CloseReply

Spec == Init /\ [][Next]_vars

\* HTTP requests are answered, fail or time out, and armed timers fire.
Fairness == WF_vars(Reply(TRUE)) /\ WF_vars(CloseReply) /\ WF_vars(RetryTimeout)

FairSpec == Spec /\ Fairness

-----------------------------------------------------------------------------
(* Properties. *)

\* Exponents that Retry reaches: one more is taken only while the delay is below
\* its ceiling.
Exponents == {n \in Nat \ {0} : n > 1 => 2 ^ (n - 1) < DelayMax}

\* Every field has a value its class declares, and the backoff exponent has not
\* gone past the ceiling of the delay.
TypeOK ==
    /\ setup \in [autoRetry : BOOLEAN, fsm : FsmStates, isError : BOOLEAN,
                  retry : BOOLEAN, backoff : Exponents, auth : Accounts,
                  closeAuth : Accounts, cfg : BOOLEAN, qnam : BOOLEAN, request : Accounts,
                  orphans : SUBSET Users, config : Accounts, fallback : Accounts,
                  disk : Accounts, fallbackDisk : Accounts, closing : BOOLEAN,
                  usable : BOOLEAN, untold : BOOLEAN]
    /\ session \in Sessions

\* Once Core's stop has completed, or an organization is asked for, the module
\* does nothing by itself, whatever answers are still on their way: no state
\* machine, no timer and no close request is left; and no configuration file
\* outlives a session, as an answer that arrives after the stop is not written
\* for the next start of the VPN client to find.
IdleIsQuiet ==
    /\ session \in {"idle", "halted"} => setup.fsm = "off" /\ ~setup.retry /\ ~setup.closing
    /\ session = "idle" => setup.disk = NoUser /\ setup.fallbackDisk = NoUser

\* While it is setting up, the module waits for an answer or for its retry
\* timer: no error and no foreign answer leaves it waiting for nothing.
SetupIsDriven ==
    session = "setup" =>
        \/ setup.fsm = "message" /\ setup.request # NoUser
        \/ setup.fsm = "error" /\ setup.retry

\* A stop that has to close the session at the Switchboard completes, but where
\* the credentials cannot be used any more when it is asked for: CloseMsg::process
\* sends nothing then, and the stop never completes.  Retries are left out: they
\* can leave an online module without credentials, and then CloseMsg sends
\* nothing either.
StopCompletes ==
    session = "closing" /\ ~setup.autoRetry ~> session = "idle" \/ setup.untold

\* The comment of Cloud::_vpnClientErr: a valid fallback configuration that was
\* received is used.  For that VpnClient needs its file.
FallbackIsUsable ==
    session = "online" /\ setup.fallback # NoUser => setup.fallbackDisk = setup.fallback
=============================================================================
