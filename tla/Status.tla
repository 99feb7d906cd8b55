-------------------------------- MODULE Status --------------------------------
(***************************************************************************)
(* What a client of the API sees of the service.  HttpHandler copies what  *)
(* Core signals; StatusApi polls it and tells the user interface what has  *)
(* changed since the status it has seen last.  Polls do not wait for each  *)
(* other, so their answers may overtake each other, and nothing that comes *)
(* and goes between two polls is seen.                                     *)
(*                                                                         *)
(* Setup and Cloud appear as sources of signals; Service has their order.  *)
(* Progress, fallback and login are copied as the state is and left out    *)
(* of the client's side.                                                   *)
(***************************************************************************)
EXTENDS Naturals, SequencesExt

CONSTANTS
    Users,          \* who logs in with a name
    NoUser,         \* an invalid Auth
    Certificates,   \* valid Auths without a user name
    VpnName,        \* the user name in a device's provisioning
    Settings,       \* settings of services: [retries, decongest, agent], where
                    \* agent is setupAgent, and retries is autoretry or setupAgent
    Needs,          \* bound: which of "sb_auth" and "proxy_auth" come up
    MaxErrors,      \* bound: errors of the service
    MaxRequests,    \* bound: requests of SetupMsg that are not answered yet
    MaxReplies      \* bound: answers to polls that are under way

ASSUME StatusAssumption ==
    /\ NoUser \notin Users \cup Certificates /\ Users \cap Certificates = {}
    /\ VpnName \notin Users \cup Certificates \cup {NoUser}
    /\ Settings \subseteq [retries : BOOLEAN, decongest : BOOLEAN, agent : BOOLEAN]
    /\ \A settings \in Settings : settings.agent => settings.retries
    /\ Needs \subseteq {"sb_auth", "proxy_auth"}
    /\ MaxErrors \in Nat
    /\ MaxRequests \in Nat
    /\ MaxReplies \in Nat \ {0}

VARIABLES
    core,       \* Core, apart from its state; named: RegMsg has signalled VpnName, and
                \* no other Auth was supplied since
    handler,    \* HttpHandler; its _coreState is also Core's _state
    replies,    \* answers to polls that are under way, the oldest first
    view,       \* StatusApi: the status it has seen last
    \* for the properties only:
    toldError   \* apiError was emitted with the error the handler shows

serviceVars == <<core, handler>>
clientVars == <<replies, view>>
vars == <<core, handler, replies, view, toldError>>

States == {"none", "idle", "error", "setup", "connect", "cloud"}
\* A status: error is its sequence number, or 0.
Status == [state : States, error : 0..MaxErrors, needs : SUBSET Needs]

\* HttpHandler::_clear, with _coreState as it is set next
Cleared == [state |-> "idle", error |-> 0, needs |-> {}, login |-> NoUser]

\* StatusApi::StatusApi
Unknown == [state |-> "none", error |-> 0, needs |-> {}]

\* ApiHandler1::_handle_status
Snapshot ==
    [state |-> handler.state,
     error |-> IF handler.state = "error" THEN handler.error ELSE 0,
     needs |-> handler.needs]

-----------------------------------------------------------------------------
(* Signals of Core, as functions of s: both sides of the connection made by *)
(* attachServer, [core, handler].                                           *)

Now == [core |-> core, handler |-> handler]

Shows(s, state) == [s EXCEPT !.handler.state = state]

\* Core::_authRequired
Needed(s, what) == [s EXCEPT !.handler.needs = @ \cup ({what} \cap Needs)]

\* Mutant: the login is not reset with the rest.
StoppedLoggedIn(s) ==
    [core |-> [s.core EXCEPT !.fsm = "off", !.busy = "no", !.cloud = FALSE], handler |-> Cleared]

\* Core::_setupStopped
Stopped(s) ==
    [core |-> [s.core EXCEPT !.fsm = "off", !.busy = "no", !.cloud = FALSE, !.auth = NoUser,
                             !.named = FALSE],
     handler |-> Cleared]

Connected(s) == s.handler.state \in {"connect", "cloud"}

\* Core::stop, as called by anybody; a session is closed first
StopIn(s) ==
    IF s.handler.state = "idle" \/ s.core.busy # "no" THEN s
    ELSE IF Connected(s)
         THEN [s EXCEPT !.core.fsm = "off", !.core.busy = "closing"]
         ELSE Stopped(s)

\* Core emits an error: each has a number of its own
Emitted(s) == [s EXCEPT !.handler.error = s.core.seq + 1, !.core.seq = @ + 1]

\* Core::_errorReceived: what a stop clears is cleared before the error is
\* shown, or much later
Failed(s) == Emitted(Shows(IF s.core.settings.retries THEN s ELSE StopIn(s), "error"))

\* Core::_errorReceived with AuthDomainRequired: the cloud may run on
Halted(s) == [s EXCEPT !.core.fsm = "off"]

\* The service has become s: an error or need that is new has not been told.
Becomes(s) ==
    /\ s.core.seq <= MaxErrors
    /\ core' = s.core
    /\ handler' = s.handler
    /\ toldError' = (toldError /\ s.handler.state = "error" /\ s.handler.error = handler.error)
    /\ UNCHANGED clientVars

-----------------------------------------------------------------------------
(* Events of the service. *)

\* HttpHandler::setAuth, Core::_authSupplied and HttpHandler::_authReceived
Supply(id, auth) ==
    LET logged == [handler EXCEPT !.needs = @ \ {id},
                                  !.login = IF auth \in Users THEN auth ELSE @]
    IN  IF id = "sb_auth"
        THEN Becomes([core |-> [core EXCEPT !.auth = auth, !.named = FALSE],
                      handler |-> logged])
        ELSE Becomes([core |-> core, handler |-> [handler EXCEPT !.needs = @ \ {id}]])

\* SetupMsg::process or RegMsg::process: without a login the request fails before
\* it is sent; so it does without an address or an activation code on a device
Request(s) ==
    \/ /\ s.core.auth = NoUser
       /\ Becomes(Failed(Needed(s, "sb_auth")))
    \/ /\ s.core.auth # NoUser
       /\ s.core.requests < MaxRequests /\ Becomes([s EXCEPT !.core.requests = @ + 1])
    \/ s.core.settings.agent /\ Becomes(Failed(s))

\* Core::_start
Begin ==
    LET s == [Now EXCEPT !.core.busy = "no"]
    IN  IF core.fsm = "off"
        THEN Request(Shows([s EXCEPT !.core.fsm = "setup"], "setup"))
        ELSE Becomes(s)

\* Core::start: at once or, to avoid congestion, later; while the service is
\* connected it is refused, and so is everything that comes after it
Start ==
    /\ core.busy = "no"
    /\ \/ Connected(Now) /\ Becomes([Now EXCEPT !.core.busy = "stuck"])
       \/ ~Connected(Now) /\ core.settings.decongest /\ Becomes([Now EXCEPT !.core.busy = "waiting"])
       \/ ~Connected(Now) /\ ~core.settings.decongest /\ Begin

DelayedStart == core.busy = "waiting" /\ Begin

\* Core::stop, by the user or the watchdog
Stop == handler.state # "idle" /\ core.busy = "no" /\ Becomes(StopIn(Now))

\* The session has been closed.
CloseReply == core.busy = "closing" /\ Becomes(Stopped(Now))

\* SetupMsg::_decodeResponse, of a request that may have been given up
Answer == [Now EXCEPT !.core.requests = @ - 1]

\* RegMsg's authChanged, which is Core's authSupplied: the handler shows the name
\* in the provisioning; Core's own _sbAuth is as before
Announced(s) == [s EXCEPT !.core.named = TRUE, !.handler.login = VpnName]

\* RegMsg can signal the name: it was supplied a valid Auth.
Announces == core.settings.agent /\ core.auth # NoUser

\* What an answer leaves: a device may have read its provisioning before it is
\* done, or fails.
Answers == {Answer} \cup (IF Announces THEN {Announced(Answer)} ELSE {})

\* RegMsg::_gotConfig: the name is signalled now, and the zero timer that
\* completes the setup is pending
SetupAnnounces == core.requests > 0 /\ Announces /\ Becomes(Announced(Now))

SetupRefused ==
    /\ core.requests > 0
    /\ \/ \E a \in Answers : Becomes(Failed(a))
       \/ Becomes(Failed(Needed(Answer, "sb_auth")))
       \/ Becomes(Halted(Needed(Answer, "sb_auth")))

\* QccSetup::_onRetryTimeout
SetupRetries ==
    /\ core.fsm = "setup" /\ core.settings.retries /\ handler.state = "error"
    /\ Request(Now)

\* Core::_setupCompleted, where a file that is not written is an error that
\* stops nothing, and Cloud::start, which may fail; the state stays "setup" until
\* OpenVPN says that it connects
SetupCompletes ==
    /\ core.requests > 0
    /\ \E a \in Answers :
          IF core.fsm = "setup"
          THEN LET s == [a EXCEPT !.core.fsm = "cloud", !.core.cloud = TRUE]
               IN  \E t \in {s, Emitted(s)} : Becomes(t) \/ Becomes(Failed(t))
          ELSE Becomes(a)

\* Core::_actionRequest of an unknown action: an error without a state
UnknownAction == Becomes(Emitted(Now))

\* Cloud's signals
CloudShows(state) == core.cloud /\ Becomes(Shows(Now, state))
CloudFails == core.cloud /\ Becomes(Failed(Now))
CloudNeeds(what) ==
    /\ core.cloud
    /\ what = "sb_auth" => core.auth = NoUser
    /\ Becomes(Needed(Now, what))

-----------------------------------------------------------------------------
(* The client. *)

\* StatusApi::_pollTimeout: the answer is what the handler has at this moment
Poll ==
    /\ Len(replies) < MaxReplies
    /\ replies' = Append(replies, Snapshot)
    /\ UNCHANGED <<serviceVars, view, toldError>>

\* The i-th answer never comes.
Lose(i) ==
    /\ i \in DOMAIN replies
    /\ replies' = RemoveAt(replies, i)
    /\ UNCHANGED <<serviceVars, view, toldError>>

\* StatusApi::_parseError signals the handler's present error.
Signals(error) == error = Snapshot.error /\ error # 0 /\ view.error # error

\* Mutant: a status with an error is kept until an error is not shown any more.
SeenOnce(i) ==
    /\ i \in DOMAIN replies
    /\ replies' = RemoveAt(replies, i)
    /\ view' = IF view.error # 0 /\ replies[i].error # 0 THEN view ELSE replies[i]
    /\ toldError' = (toldError \/ Signals(replies[i].error))
    /\ UNCHANGED serviceVars

\* Mutant: an error is only signalled with a change of the state.
SeenErrorless(i) ==
    /\ i \in DOMAIN replies
    /\ replies' = RemoveAt(replies, i)
    /\ view' = replies[i]
    /\ toldError' = (toldError \/ (Signals(replies[i].error) /\ view.state # "error"))
    /\ UNCHANGED serviceVars

\* StatusApi::_clientComplete, with the slots that parse a part of the status:
\* what differs from the last status is signalled and kept
Seen(i) ==
    /\ i \in DOMAIN replies
    /\ replies' = RemoveAt(replies, i)
    /\ view' = replies[i]
    /\ toldError' = (toldError \/ Signals(replies[i].error))
    /\ UNCHANGED serviceVars

-----------------------------------------------------------------------------

\* Core::attachServer: the handler starts with Core's idle state
Init ==
    /\ \E settings \in Settings :
        core = [fsm |-> "off", busy |-> "no", cloud |-> FALSE, auth |-> NoUser,
                named |-> FALSE, requests |-> 0, seq |-> 0, settings |-> settings]
    /\ handler = Cleared
    /\ replies = <<>>
    /\ view = Unknown
    /\ toldError = FALSE

ServiceNext ==
    \/ \E id \in Needs, auth \in Users \cup Certificates \cup {NoUser} : Supply(id, auth)
    \/ Start \/ DelayedStart \/ Stop \/ CloseReply \/ UnknownAction
    \/ SetupAnnounces \/ SetupRefused \/ SetupRetries \/ SetupCompletes
    \/ \E state \in {"connect", "cloud"} : CloudShows(state)
    \/ CloudFails
    \/ \E what \in Needs : CloudNeeds(what)

ClientNext == Poll \/ \E i \in 1..MaxReplies : Seen(i) \/ Lose(i)

Next == ServiceNext \/ ClientNext

\* The timer goes on polling, and not every oldest answer is lost.
Spec ==
    /\ Init /\ [][Next]_vars
    /\ WF_vars(Poll)
    /\ SF_vars(Seen(1))

-----------------------------------------------------------------------------
(* Properties. *)

TypeOK ==
    /\ core \in [fsm : {"off", "setup", "cloud"}, cloud : BOOLEAN,
                 busy : {"no", "waiting", "closing", "stuck"},
                 auth : Users \cup Certificates \cup {NoUser}, named : BOOLEAN,
                 requests : 0..MaxRequests, seq : 0..MaxErrors, settings : Settings]
    /\ handler \in [state : States, error : 0..MaxErrors, needs : SUBSET Needs,
                    login : Users \cup {NoUser, VpnName}]
    /\ \A i \in DOMAIN replies : replies[i] \in Status
    /\ Len(replies) <= MaxReplies
    /\ view \in Status
    /\ toldError \in BOOLEAN

\* The status names whoever was logged in last by name, however logins, resets,
\* stops and errors follow each other: the user that Core is logged in as, or,
\* once a device has read its provisioning, the name in there, although Core's own
\* credentials stay those that were supplied; a late answer changes the name, too.
\* (A certificate without a name, and an empty login sent to reset the
\* credentials, leave the name before.)
LoginAgrees ==
    IF core.named THEN handler.login = VpnName
    ELSE core.auth \in Users => handler.login = core.auth

\* What is known of the service and its client at any time.
StatusInv == TypeOK /\ LoginAgrees

Quiet == <>[][FALSE]_serviceVars

\* When the service is left alone, the client comes to see it as it is and
\* stays so, although answers to its polls are lost and overtake each other.
ViewConverges == Quiet => <>[](view = Snapshot)

\* No error stays without being announced, also if it follows another error
\* between two polls or is seen after a later status.
ErrorIsAnnounced == []<>(handler.state = "error" => toldError)
=============================================================================
