---------------------------- MODULE Registration ----------------------------
(***************************************************************************)
(* The Setup module of devices ("agent mode").  An installer types an      *)
(* activation code into the device, and the address of a registry.  RegMsg *)
(* asks the registry for a redirect, asks the Switchboard that it is sent  *)
(* to for the provisioning, saves that in a file, and has both resources   *)
(* deleted.  Where a resource is not found, the saved file is used.        *)
(*                                                                         *)
(* RegSetup is built like QccSetup, but devices never give up: Core does   *)
(* not stop after an error, and all but three errors are retried.          *)
(*                                                                         *)
(* The device may be switched off between any two handlers.  What is on    *)
(* the disk stays, and what was sent may still take effect.                *)
(*                                                                         *)
(* RegMsg::clear forgets its HTTP client without cancelling it, as         *)
(* SetupMsg::clear does: answers to abandoned requests come later.  Each   *)
(* of the two answers is followed by a zero timer; nothing cancels that.   *)
(***************************************************************************)
EXTENDS Naturals, FiniteSets

CONSTANTS
    Codes,      \* activation codes
    NoCode,     \* none: an empty file, address or configuration
    Registered, \* those the registry knows at first
    DelayMax,   \* Retry's ceiling in seconds
    MaxOrphans, \* bound: abandoned requests at a time
    MaxTimers   \* bound: pending zero timers of each kind

ASSUME RegistrationAssumption ==
    /\ NoCode \notin Codes
    /\ Registered \subseteq Codes
    /\ DelayMax \in Nat \ {0}
    /\ MaxOrphans \in Nat
    /\ MaxTimers \in Nat \ {0}

VARIABLES
    reg,        \* RegSetup with its RegMsg, CloseMsg and Retry
    session,    \* what Core is doing
    disk,       \* the files: activation code, saved provisioning, CA, OpenVPN
                \* configuration
    server,     \* what the registry and the Switchboard have of each code
    deletes,    \* requests to delete that are under way
    \* for the properties only:
    spoilt      \* the provisioning was emptied while the timer that completes the
                \* setup with it was pending

deviceVars == <<reg, session, disk, server, deletes>>
vars == <<deviceVars, spoilt>>

CodesOrNone == Codes \cup {NoCode}
Resources == {"redirect", "config"}
FsmStates == {"off", "message", "error", "final"}
Sessions == {"idle", "setup", "online", "closing"}

\* What _sbAuth points to.
Hosts == {"none", "registry", "switchboard"}

\* A request for what a host has of a code.  Without a code the address is
\* empty.
Requests == [what : Resources, host : Hosts, code : CodesOrNone]
NoRequest == [what |-> "redirect", host |-> "none", code |-> NoCode]

\* The files that a configuration is unpacked to; no or an empty provisioning.
Files == {"prov", "ca"}
NoProvisioning == [code |-> NoCode, named |-> FALSE]

\* Mutant: the ceiling is not looked at.
BackoffUnlimited(n) == n + 1

\* Retry::start
Backoff(n) == IF 2 ^ n < DelayMax THEN n + 1 ELSE n

\* RegSetup::RegSetup
Fresh ==
    [fsm |-> "off", isError |-> FALSE, critical |-> FALSE, retry |-> FALSE, backoff |-> 1,
     cfg |-> TRUE, qnam |-> FALSE, host |-> "none", valid |-> FALSE, closeAuth |-> FALSE,
     config |-> NoCode, redirectUrl |-> NoCode, regUrl |-> NoRequest,
     request |-> NoRequest, orphans |-> {}, timers |-> [w \in Resources |-> 0],
     closing |-> FALSE]

-----------------------------------------------------------------------------
(* Handlers, as functions of the module's state s. *)

\* RegMsg::clear
ClearMsg(s) ==
    [s EXCEPT !.cfg = FALSE, !.host = "none", !.valid = FALSE, !.config = NoCode,
              !.redirectUrl = NoCode, !.regUrl = NoRequest, !.request = NoRequest,
              !.orphans = IF s.request = NoRequest THEN @ ELSE @ \cup {s.request}]

\* RegSetup::stop (reset = true)
Halt(s) ==
    ClearMsg([s EXCEPT !.fsm = "off", !.critical = FALSE, !.retry = FALSE, !.backoff = 1])

\* CloseMsg::process has what it needs to make its request.
CanClose(s) == s.qnam /\ s.closeAuth

\* Mutant: only the first error of a start is retried.
RaiseFirst(s, critical) ==
    IF s.fsm # "message" THEN s
    ELSE [s EXCEPT !.fsm = "error", !.isError = TRUE, !.critical = critical,
                   !.retry = @ \/ ~(critical \/ s.isError)]

\* RegMsg's error signal.  Core only shows it; the state machine leaves the
\* message state, and RegSetup::_onErrorState starts the retry timer unless the
\* error needs the user.
Raise(s, critical) ==
    IF s.fsm # "message" THEN s
    ELSE [s EXCEPT !.fsm = "error", !.isError = TRUE, !.critical = critical,
                   !.retry = @ \/ ~critical,
                   !.backoff = IF critical THEN @ ELSE Backoff(@)]

\* The message state is entered: RegSetup::_stateEntered
Entered(s) ==
    [s EXCEPT !.fsm = "message", !.critical = FALSE, !.retry = @ /\ s.isError,
              !.backoff = IF s.isError THEN @ ELSE 1]

\* RegMsg::process, with what the activation code file holds
Process(s, code) ==
    LET t == Entered(s)
        q == [what |-> "redirect", host |-> s.host, code |-> code]
    IN IF s.host = "none" \/ code = NoCode THEN Raise(t, TRUE)
       ELSE IF ~s.valid THEN Raise([t EXCEPT !.request = NoRequest], FALSE)
       ELSE [t EXCEPT !.regUrl = q, !.request = q]

\* RegMsg::_decodeConfig for the provisioning of code c, which names its
\* Switchboard or not.  Credentials stay as invalid as they were; valid ones
\* are sent to everybody (authChanged).
Decode(s, c, named) ==
    [s EXCEPT !.config = c,
              !.host = IF named THEN "switchboard" ELSE "none",
              !.closeAuth = @ \/ s.valid]

\* RegMsg's processed signal takes the state machine to its end, if it was
\* waiting for that.
Processed(s) == IF s.fsm = "message" THEN [s EXCEPT !.fsm = "final", !.isError = FALSE] ELSE s

NoTimers(s) == \A w \in Resources : s.timers[w] = 0

-----------------------------------------------------------------------------
(* Core and the API. *)

\* Core::_setupCompleted writes OpenVPN's configuration, and Core goes on to the
\* cloud if it was waiting for the setup.
Completes(s, d) ==
    /\ reg' = Processed(s)
    /\ disk' = [d EXCEPT !.vpn = s.config]
    /\ session' = IF session = "setup" THEN "online" ELSE session

\* The registry's address is supplied.
Login ==
    /\ reg' = [reg EXCEPT !.host = "registry", !.valid = TRUE, !.closeAuth = TRUE]
    /\ UNCHANGED <<session, disk, server, deletes>>

\* The installer replaces the code of a device that is at rest.
SetCode(c) ==
    /\ session = "idle" /\ NoTimers(reg)
    /\ disk' = [disk EXCEPT !.code = c]
    /\ UNCHANGED <<reg, session, server, deletes>>

\* RegSetup::start.  A stop and a start of the user take longer than a zero timer.
Start ==
    /\ session = "idle" /\ NoTimers(reg)
    /\ session' = "setup"
    /\ reg' = Process([reg EXCEPT !.isError = FALSE, !.cfg = TRUE, !.qnam = TRUE], disk.code)
    /\ UNCHANGED <<disk, server, deletes>>

\* Core::stop, with the session at the Switchboard to be closed or not.  The
\* request to close is sent if crypto::configFromAuth takes the credentials;
\* otherwise nothing ends the stop.  RegSetup::_clear removes what was
\* downloaded, but not the saved provisioning; the model takes each removal to
\* succeed (_clear would end at the first that fails).
UserStop(close, sent) ==
    /\ session # "closing" /\ (close => session = "online")
    /\ reg.request # NoRequest => Cardinality(reg.orphans) < MaxOrphans
    /\ session' = IF close THEN "closing" ELSE "idle"
    /\ reg' = IF close THEN [Halt(reg) EXCEPT !.closing = @ \/ (CanClose(reg) /\ sent)]
              ELSE Halt(reg)
    /\ disk' = [disk EXCEPT !.ca = NoCode, !.vpn = NoCode]
    /\ UNCHANGED <<server, deletes>>

\* CloseMsg is answered or fails: RegSetup::_onCloseProcessed, Core::_setupStopped
CloseReply ==
    /\ reg.closing
    /\ reg' = [reg EXCEPT !.closing = FALSE, !.host = "none", !.valid = FALSE,
                          !.closeAuth = FALSE]
    /\ session' = "idle"
    /\ UNCHANGED <<disk, server, deletes>>

\* RegSetup::_onRetryTimeout
RetryTimeout ==
    /\ reg.retry
    /\ LET s == [reg EXCEPT !.retry = FALSE] IN
       reg' = IF s.fsm = "error" THEN Process(s, disk.code) ELSE s
    /\ UNCHANGED <<session, disk, server, deletes>>

-----------------------------------------------------------------------------
(* Answers.  s is the module without the request q that is answered. *)

\* The host has what is requested: redirects are at the registry only.
Found(q) ==
    /\ q.code # NoCode /\ server[q.code][q.what]
    /\ q.host = IF q.what = "redirect" THEN "registry" ELSE "switchboard"

\* RegMsg::_gotRedirect, decrypted with the code
GotRedirect(q, s) ==
    /\ q.what = "redirect" /\ Found(q)
    /\ s.timers.redirect < MaxTimers
    /\ reg' = IF q.code = disk.code
              THEN [s EXCEPT !.redirectUrl = q.code, !.timers.redirect = @ + 1]
              ELSE Raise(s, FALSE)
    /\ UNCHANGED <<session, disk, server, deletes>>

\* Mutant: nobody looks whether the provisioning was written.
GotConfigUnsaved(q, s, written, torn) ==
    /\ q.what = "config" /\ Found(q) /\ q.code = disk.code /\ s.cfg
    /\ s.timers.config < MaxTimers
    /\ reg' = [Decode(s, q.code, s.redirectUrl # NoCode) EXCEPT !.timers.config = @ + 1]
    /\ disk' = [disk EXCEPT !.ca = q.code]
    /\ UNCHANGED <<server, deletes, session>>

\* RegMsg::_gotConfig: _decodeConfig decrypts, _unpackConfig writes the
\* provisioning and then the CA.  A file is emptied before it is written.
GotConfig(q, s, written, torn) ==
    /\ q.what = "config" /\ Found(q)
    /\ s.timers.config < MaxTimers
    /\ LET t == Decode(s, q.code, s.redirectUrl # NoCode)
           saved == [code |-> q.code, named |-> s.redirectUrl # NoCode]
           left(old, none) == IF torn THEN none ELSE old
       IN IF q.code # disk.code THEN reg' = Raise(s, FALSE) /\ UNCHANGED disk
          ELSE IF ~s.cfg THEN reg' = Raise(t, FALSE) /\ UNCHANGED disk
          ELSE CASE written = Files ->
                        /\ reg' = [t EXCEPT !.timers.config = @ + 1]
                        /\ disk' = [disk EXCEPT !.prov = saved, !.ca = q.code]
                 [] written = {"prov"} ->
                        /\ reg' = Raise(t, FALSE)
                        /\ disk' = [disk EXCEPT !.prov = saved, !.ca = left(@, NoCode)]
                 [] OTHER ->
                        /\ reg' = Raise(t, FALSE)
                        /\ disk' = [disk EXCEPT !.prov = left(@, NoProvisioning)]
    /\ UNCHANGED <<server, deletes, session>>

\* Mutant: the saved file is not used.
NotFoundUnsaved(s, written, torn) ==
    /\ reg' = IF s.cfg THEN Raise(s, FALSE) ELSE s
    /\ UNCHANGED <<session, disk, server, deletes>>

\* RegMsg::_error, for a resource that is not found: the saved file is used.
\* The HTTP client says so of a failed handshake too, so any request may end
\* like this.
NotFound(s, written, torn) ==
    /\ UNCHANGED <<server, deletes>>
    /\ IF ~s.cfg THEN reg' = s /\ UNCHANGED <<disk, session>>
       ELSE IF disk.prov.code = NoCode \/ disk.prov.code # disk.code
       THEN reg' = Raise(s, TRUE) /\ UNCHANGED <<disk, session>>
       ELSE LET t == Decode(s, disk.prov.code, disk.prov.named) IN
            IF "ca" \in written THEN Completes(t, [disk EXCEPT !.ca = t.config])
            ELSE /\ reg' = Raise(t, FALSE)
                 /\ disk' = [disk EXCEPT !.ca = IF torn THEN NoCode ELSE @]
                 /\ UNCHANGED session

\* RegMsg::_error, for any other error, or where the saved file cannot be opened
OtherError(s) ==
    /\ reg' = IF s.cfg THEN Raise(s, FALSE) ELSE s
    /\ UNCHANGED <<session, disk, server, deletes>>

Answer(q, s) ==
    \/ GotRedirect(q, s)
    \/ \E written \in {{}, {"prov"}, Files}, torn \in BOOLEAN : GotConfig(q, s, written, torn)
    \/ \E written \in SUBSET {"ca"}, torn \in BOOLEAN : NotFound(s, written, torn)
    \/ OtherError(s)

OwnReply == reg.request # NoRequest /\ Answer(reg.request, [reg EXCEPT !.request = NoRequest])
LateReply == \E q \in reg.orphans : Answer(q, [reg EXCEPT !.orphans = @ \ {q}])

\* RegMsg::_processRedirect
ProcessRedirect ==
    /\ reg.timers.redirect > 0
    /\ reg' = [reg EXCEPT !.timers.redirect = @ - 1,
                          !.request = [what |-> "config", host |-> "switchboard",
                                       code |-> reg.redirectUrl]]
    /\ UNCHANGED <<session, disk, server, deletes>>

\* Mutant: the message is cleared before the setup is complete.
CompleteSetupCleared ==
    /\ reg.timers.config > 0
    /\ Completes(ClearMsg([reg EXCEPT !.timers.config = @ - 1, !.request = NoRequest]), disk)
    /\ UNCHANGED <<server, deletes>>

\* RegMsg::_completeSetup
CompleteSetup ==
    /\ reg.timers.config > 0
    /\ Completes([reg EXCEPT !.timers.config = @ - 1, !.request = NoRequest], disk)
    /\ deletes' = deletes
          \cup {<<"config", c>> : c \in {reg.redirectUrl} \cap Codes}
          \cup {<<"redirect", c>> : c \in IF reg.regUrl.host = "registry"
                                          THEN {reg.regUrl.code} \cap Codes ELSE {}}
    /\ UNCHANGED server

-----------------------------------------------------------------------------
(* The world. *)

\* A request to delete is carried out, or gets lost.
Delete(what, c) ==
    /\ <<what, c>> \in deletes
    /\ deletes' = deletes \ {<<what, c>>}
    /\ \/ server' = [server EXCEPT ![c][what] = FALSE]
       \/ UNCHANGED server
    /\ UNCHANGED <<reg, session, disk>>

\* The device is switched off and on.
Reboot ==
    /\ reg' = Fresh
    /\ session' = "idle"
    /\ UNCHANGED <<disk, server, deletes>>

-----------------------------------------------------------------------------
Init ==
    /\ reg = Fresh
    /\ session = "idle"
    /\ disk = [code |-> NoCode, prov |-> NoProvisioning, ca |-> NoCode, vpn |-> NoCode]
    /\ server = [c \in Codes |-> [w \in Resources |-> c \in Registered]]
    /\ deletes = {}
    /\ spoilt = FALSE

Step ==
    \/ Login
    \/ \E c \in Codes : SetCode(c)
    \/ Start
    \/ \E close, sent \in BOOLEAN : UserStop(close, sent)
    \/ CloseReply
    \/ RetryTimeout
    \/ OwnReply
    \/ LateReply
    \/ ProcessRedirect
    \/ CompleteSetup
    \/ \E what \in Resources, c \in Codes : Delete(what, c)
    \/ Reboot

Observe ==
    spoilt' = /\ reg'.timers.config > 0
              /\ \/ spoilt
                 \/ /\ reg.timers.config > 0
                    /\ disk.prov # NoProvisioning /\ disk'.prov = NoProvisioning

Next == Step /\ Observe

Spec == Init /\ [][Next]_vars

\* The request is answered with what the host has, by a device that can write
\* its files.
GoodReply(reply) ==
    /\ reg.request # NoRequest
    /\ LET s == [reg EXCEPT !.request = NoRequest]
       IN CASE reply = "redirect" -> GotRedirect(reg.request, s)
            [] reply = "config" -> GotConfig(reg.request, s, Files, FALSE)
            [] OTHER -> ~Found(reg.request) /\ NotFound(s, {"ca"}, FALSE)

\* Qt's timers fire, every request is answered or given up, and whatever is
\* asked again and again is answered well some time.
Fairness ==
    /\ WF_deviceVars(RetryTimeout)
    /\ WF_deviceVars(ProcessRedirect)
    /\ WF_deviceVars(CompleteSetup)
    /\ WF_deviceVars(OwnReply)
    /\ \A reply \in Resources \cup {"not found"} : SF_deviceVars(GoodReply(reply))

FairSpec == Spec /\ Fairness

-----------------------------------------------------------------------------
(* Properties. *)

\* Exponents that Retry reaches: one more is taken only while the delay is below
\* its ceiling.
Exponents == {n \in Nat \ {0} : n > 1 => 2 ^ (n - 1) < DelayMax}

\* Types of the module, of the files and of the server, and the bounds.
TypeOK ==
    /\ reg \in [fsm : FsmStates, isError : BOOLEAN, critical : BOOLEAN, retry : BOOLEAN,
                backoff : Exponents, cfg : BOOLEAN, qnam : BOOLEAN, host : Hosts,
                valid : BOOLEAN, closeAuth : BOOLEAN, config : CodesOrNone,
                redirectUrl : CodesOrNone, regUrl : Requests, request : Requests,
                orphans : SUBSET Requests, timers : [Resources -> 0 .. MaxTimers],
                closing : BOOLEAN]
    /\ session \in Sessions
    /\ disk \in [code : CodesOrNone, prov : [code : CodesOrNone, named : BOOLEAN],
                 ca : CodesOrNone, vpn : CodesOrNone]
    /\ server \in [Codes -> [Resources -> BOOLEAN]]
    /\ deletes \subseteq Resources \X Codes
    /\ spoilt \in BOOLEAN

\* A registration can be downloaded once.  RegMsg has it deleted at the
\* registry and at the Switchboard only when it is in the saved file, whatever
\* was stopped, abandoned, retried or switched off before: _completeSetup takes
\* both addresses from members that later and earlier attempts write, too.  Two
\* cases are excepted.  Of two answers of one turn of the event loop, the second
\* may empty the file that the first has written.  And a redirect that comes when
\* the device is at rest may stay in _redirectUrl until the code is another one:
\* then the Switchboard is asked to delete what that redirect was for.
SavedBeforeDeleted ==
    [][\A d \in deletes' \ deletes :
          \/ disk.prov.code = d[2]
          \/ spoilt
          \/ d[1] = "config" /\ d[2] # disk.code]_vars

\* A device in its setup has a request or a zero timer that moves it, or waits
\* for its retry timer, or has met an error that needs the user.  The timer
\* comes from the state machine, the request from the message, and a stop, an
\* abandoned answer or an early return of process() touches only one of them.
\* A device at rest does not retry, although answers to what it asked before
\* and their zero timers still reach its message.
SetupIsDriven ==
    /\ session = "setup" =>
        \/ reg.fsm = "message" /\ (reg.request # NoRequest \/ ~NoTimers(reg))
        \/ reg.fsm = "error" /\ (reg.retry \/ reg.critical)
    /\ session = "idle" => reg.fsm = "off" /\ ~reg.retry /\ ~reg.closing

\* While the cloud runs, OpenVPN's configuration is there and belongs to the
\* device's code, and so does the CA that it is told to trust: they are written
\* by different classes in different handlers, and removed by a third, and late
\* answers and their timers go on writing.  (A write of the CA that fails may
\* leave it empty.)
OnlineIsConsistent ==
    session = "online" =>
        disk.vpn = disk.code /\ disk.vpn # NoCode /\ disk.ca \in {disk.code, NoCode}

\* A device that is left alone ends its setup or needs the user (who has to
\* act after a critical error, or is asked for the login): the
\* retries never get stuck, although a failed attempt leaves another address,
\* other files and other answers than the first one found.
SetupEnds == session = "setup" ~> session # "setup" \/ reg.critical \/ ~reg.valid
=============================================================================
