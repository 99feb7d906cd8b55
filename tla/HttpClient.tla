------------------------------ MODULE HttpClient ------------------------------
(***************************************************************************)
(* Client sends HTTP requests and reports what becomes of them with two    *)
(* signals, complete and error, which carry the user data the caller gave  *)
(* with the request.  Each request has a Connection with a timer; the map  *)
(* _conns finds it by the address of the reply.  Requests may overlap, but *)
(* _sslError and _userData are members of the Client.                      *)
(*                                                                         *)
(* A slot is an address of a reply.  Qt's manager may be shared with other *)
(* clients, whose replies are then reported here, too.                     *)
(***************************************************************************)
EXTENDS Naturals, Sequences

CONSTANTS
    Users,          \* user data of the callers
    NoData,         \* an invalid QVariant
    Slots,          \* bound: addresses of replies
    Shared,         \* the manager is shared (setNetworkAccessManager)
    MaxSslErrors,   \* bound: errors of one certificate chain
    Options         \* the settings of a client that are used

ASSUME HttpClientAssumption ==
    /\ NoData \notin Users
    /\ Shared \in BOOLEAN
    /\ MaxSslErrors \in Nat \ {0}
    /\ Options \subseteq [verifyCA : BOOLEAN, timeout : BOOLEAN, retry : BOOLEAN]

VARIABLES
    conns,      \* the reply and the Connection at each address
    entries,    \* _conns at each address
    opts,       \* verifyCA, and timeout and retry of the next request
    sslError,   \* _sslError
    userData,   \* _userData: that of the last request
    out,        \* the signals emitted by this step, in order
    history     \* how many signals of each kind its caller has had for the request
                \* in each slot, and whether it has always been alone in flight

clientVars == <<conns, entries, opts, sslError, userData, out, history>>

\* free: no reply; sent: neither error() nor finished() yet; untrusted: the
\* handshake is refused, error() is to come; failed: finished() is to come;
\* dropped: given up, to be deleted with its reply
Phases == {"free", "sent", "untrusted", "failed", "dropped"}

Free == [phase |-> "free", data |-> NoData, timer |-> FALSE, retry |-> FALSE, asked |-> FALSE]

\* Signals are counted by their kind.
Kinds == {"complete", "ssl", "network", "timeout"}
Only(kind, n) == [k \in Kinds |-> IF k = kind THEN n ELSE 0]
Untold == [k \in Kinds |-> 0]
NoHistory == [who |-> NoData, told |-> Untold, alone |-> FALSE]

InFlight == {s \in Slots : conns[s].phase \in {"sent", "untrusted", "failed"}}

\* kind is one of Kinds, of which "complete" is no error, or "proxy"
Signal(kind, data) == [kind |-> kind, data |-> data]

\* QMap::operator[]: looking up an address that is not there adds it.
Looked(s) == [entries EXCEPT ![s] = IF @ = "none" THEN "null" ELSE @]

\* n signals of a kind for the request at s
Emit(s, kind, data, n) ==
    /\ out' = [i \in 1..n |-> Signal(kind, data)]
    /\ history' = [history EXCEPT ![s].told[kind] = @ + n]

-----------------------------------------------------------------------------
(* Sending. *)

\* Client::_sendRequest at address s: the flag is that of all requests
SendAt(s, who, data, live) ==
    /\ conns[s].phase = "free"
    /\ conns' = [live EXCEPT ![s] = [Free EXCEPT !.phase = "sent", !.data = data,
                                                 !.timer = opts.timeout,
                                                 !.retry = opts.retry]]
    /\ sslError' = FALSE
    /\ userData' = data
    /\ LET others == {t \in Slots : live[t].phase \in {"sent", "untrusted", "failed"}}
       IN  history' = [t \in Slots |->
               IF t = s THEN [who |-> who, told |-> Untold, alone |-> others = {}]
               ELSE IF live[t].phase = "free" THEN NoHistory
               ELSE [history[t] EXCEPT !.alone = FALSE]]

\* Client::run, get, post, del
Send(s, user) ==
    /\ SendAt(s, user, user, conns)
    /\ entries' = [entries EXCEPT ![s] = "conn"]
    /\ out' = <<>>
    /\ UNCHANGED opts

\* Client::setTimeout, setVerifyCA; all callers set them before they send
Configure(options) ==
    /\ \A s \in Slots : conns[s].phase = "free"
    /\ opts' = options
    /\ out' = <<>>
    /\ UNCHANGED <<conns, entries, sslError, userData, history>>

\* Client::reset: all connections in the map are deleted; one that has been
\* given up is deleted later all the same
Reset ==
    /\ conns' = [s \in Slots |-> IF s \in InFlight THEN Free ELSE conns[s]]
    /\ history' = [s \in Slots |-> IF s \in InFlight THEN NoHistory ELSE history[s]]
    /\ entries' = [s \in Slots |-> "none"]
    /\ out' = <<>>
    /\ UNCHANGED <<opts, sslError, userData>>

-----------------------------------------------------------------------------
(* Slots of the replies and of the manager. *)

\* Client::_proxyAuthenticationRequired: whose request it is, is not known
ProxyAuthenticationRequired ==
    /\ Shared \/ \E s \in Slots : conns[s].phase \in {"sent", "dropped"}
    /\ out' = <<Signal("proxy", userData)>>
    /\ UNCHANGED <<conns, entries, opts, sslError, userData, history>>

\* Client::_sslErrors, once in a handshake, with n errors: each is an error
\* signal, unless certificates are not verified
SslErrors(s, n) ==
    /\ conns[s].phase \in {"sent", "dropped"} /\ ~conns[s].asked
    /\ entries' = Looked(s)
    /\ conns' = [conns EXCEPT ![s].asked = TRUE,
                              ![s].phase = IF @ = "sent" /\ opts.verifyCA THEN "untrusted" ELSE @]
    /\ IF entries[s] = "conn" /\ opts.verifyCA
       THEN Emit(s, "ssl", conns[s].data, n) /\ sslError' = TRUE
       ELSE out' = <<>> /\ UNCHANGED <<history, sslError>>
    /\ UNCHANGED <<opts, userData>>

\* Client::_networkError: a failed handshake is taken to be reported already
\* if some certificate was refused since the last request was sent; the timer is
\* left running
NetworkError(s, handshake) ==
    /\ conns[s].phase \in {"sent", "untrusted", "dropped"}
    /\ conns[s].phase = "untrusted" => handshake
    /\ entries' = Looked(s)
    /\ IF entries[s] = "conn"
       THEN /\ conns' = [conns EXCEPT ![s].phase = "failed"]
            /\ IF handshake /\ sslError
               THEN out' = <<>> /\ UNCHANGED history
               ELSE Emit(s, "network", conns[s].data, 1)
       ELSE out' = <<>> /\ UNCHANGED <<conns, history>>
    /\ UNCHANGED <<opts, sslError, userData>>

\* Mutant: replies with an error are completed as well.
FinishedAnyway(s) ==
    /\ conns[s].phase \in {"sent", "failed"}
    /\ Emit(s, "complete", conns[s].data, 1)
    /\ conns' = [conns EXCEPT ![s] = Free]
    /\ entries' = [entries EXCEPT ![s] = "none"]
    /\ UNCHANGED <<opts, sslError, userData>>

\* Client::_finished: the timer is stopped first; the Connection goes with its
\* reply, and the reply is disconnected, so its address is as good as free
Finished(s) ==
    /\ conns[s].phase \in {"sent", "failed", "dropped"}
    /\ UNCHANGED <<opts, sslError, userData>>
    /\ \/ /\ entries[s] # "conn"
          /\ entries' = Looked(s)
          /\ out' = <<>>
          /\ UNCHANGED <<conns, history>>
       \/ /\ entries[s] = "conn"
          /\ IF conns[s].phase = "sent"
             THEN Emit(s, "complete", conns[s].data, 1)
             ELSE out' = <<>> /\ UNCHANGED history
          /\ conns' = [conns EXCEPT ![s] = Free]
          /\ entries' = [entries EXCEPT ![s] = "none"]

\* A reply of another client of the manager is reported here.
Foreign(s) ==
    /\ Shared /\ conns[s].phase = "free"
    /\ entries' = Looked(s)
    /\ out' = <<>>
    /\ UNCHANGED <<conns, opts, sslError, userData, history>>

\* Mutant: the connection stays in the map.
TimeoutKept(s, t) ==
    /\ s \in InFlight /\ conns[s].timer /\ t = s
    /\ conns' = [conns EXCEPT ![s].phase = "dropped", ![s].timer = FALSE]
    /\ out' = <<Signal("timeout", NoData)>>
    /\ UNCHANGED <<entries, opts, sslError, userData, history>>

\* Connection::_timeout: the connection leaves the map at once and is deleted
\* later; the user data, a local variable of the slot, is lost
Timeout(s, t) ==
    /\ s \in InFlight /\ conns[s].timer
    /\ LET dropped == [conns EXCEPT ![s].phase = "dropped", ![s].timer = FALSE]
       IN  IF conns[s].retry
           THEN /\ SendAt(t, history[s].who, NoData, dropped)
                /\ entries' = [entries EXCEPT ![s] = "none", ![t] = "conn"]
                /\ out' = <<>>
           ELSE /\ t = s
                /\ conns' = dropped
                /\ entries' = [entries EXCEPT ![s] = "none"]
                /\ Emit(s, "timeout", NoData, 1)
                /\ UNCHANGED <<sslError, userData>>
    /\ UNCHANGED opts

\* Connection::~Connection, with its reply
Delete(s) ==
    /\ conns[s].phase = "dropped"
    /\ conns' = [conns EXCEPT ![s] = Free]
    /\ history' = [history EXCEPT ![s] = NoHistory]
    /\ out' = <<>>
    /\ UNCHANGED <<entries, opts, sslError, userData>>

-----------------------------------------------------------------------------

\* Client::Client, and setTimeout before the first request
Constructed(timeout) ==
    /\ conns = [s \in Slots |-> Free]
    /\ entries = [s \in Slots |-> "none"]
    /\ opts = [verifyCA |-> TRUE, timeout |-> timeout, retry |-> FALSE]
    /\ sslError = FALSE
    /\ userData = NoData
    /\ out = <<>>
    /\ history = [s \in Slots |-> NoHistory]

ClientInit == Constructed(TRUE)

Reply(s) ==
    \/ \E n \in 1..MaxSslErrors : SslErrors(s, n)
    \/ \E handshake \in BOOLEAN : NetworkError(s, handshake)
    \/ Finished(s)

ClientNext ==
    \/ Reset
    \/ ProxyAuthenticationRequired
    \/ \E options \in Options : Configure(options)
    \/ \E s \in Slots :
        \/ \E user \in Users : Send(s, user)
        \/ Reply(s)
        \/ Foreign(s)
        \/ \E t \in Slots : Timeout(s, t)
        \/ Delete(s)

ClientSpec == ClientInit /\ [][ClientNext]_clientVars

-----------------------------------------------------------------------------
(* Properties. *)

ClientTypeOK ==
    /\ conns \in [Slots -> [phase : Phases, data : Users \cup {NoData}, timer : BOOLEAN,
                            retry : BOOLEAN, asked : BOOLEAN]]
    /\ entries \in [Slots -> {"none", "null", "conn"}]
    /\ opts \in [verifyCA : BOOLEAN, timeout : BOOLEAN, retry : BOOLEAN]
    /\ sslError \in BOOLEAN
    /\ userData \in Users \cup {NoData}
    /\ \A i \in DOMAIN out :
        out[i] \in [kind : Kinds \cup {"proxy"}, data : Users \cup {NoData}]
    /\ history \in [Slots -> [who : Users \cup {NoData}, told : [Kinds -> Nat], alone : BOOLEAN]]

\* _conns finds exactly the connections that have neither finished nor been
\* given up: no slot ever follows the pointer to a deleted Connection, however
\* the reply, the timer and the deferred deletion race, and although looking up
\* an unknown reply inserts an entry.
MapHasNoDeadConnection ==
    \A s \in Slots : entries[s] = "conn" <=> s \in InFlight

\* What is known of the client at any time.
ClientInv == ClientTypeOK /\ MapHasNoDeadConnection

Ended(s) == s \in InFlight /\ conns'[s].phase \in {"free", "dropped"} /\ ~Reset

\* complete is only said of a request of which nothing else has been said, and
\* carries that request's user data, unless a timeout has lost it.
CompletesOwn ==
    \A i \in DOMAIN out' : out'[i].kind = "complete" =>
        \E s \in Slots :
            /\ Ended(s)
            /\ history[s].told = Untold
            /\ out'[i].data \in {history[s].who, NoData}

\* A failure is one error signal, or one for each error of a refused certificate
\* chain, which is then not reported as an unreachable server as well.
Failures == {Only("network", 1)} \cup {Only("ssl", n) : n \in 1..MaxSslErrors}

\* What a caller whose request no other overlapped has had for it when it ends,
\* counted by signals: if its reply finished, one completion and no error, or one
\* failure; if its timer ended it, one timeout, after a failure or nothing.  That
\* a caller can have a failure and then a timeout for one request is what the
\* code does: _networkError and _sslErrors leave the timer running until the
\* reply has finished.  (A proxy that asks for a password is an error besides.)
TellsAlone ==
    \A s \in Slots : Ended(s) /\ history[s].alone /\ ~conns[s].retry =>
        IF conns'[s].phase = "dropped"
        THEN \E earlier \in Failures \cup {Untold} :
                history'[s].told = [earlier EXCEPT !["timeout"] = 1]
        ELSE history'[s].told \in Failures \cup {Only("complete", 1)}

\* However requests overlap, retry, time out and are refused, completions are
\* not mixed up; and the caller of a request that was alone is told its end by
\* exactly the signals above: never none, never a completion and an error, never
\* the same failure twice, though a timeout may follow a failure.
\* (With overlapping requests a refused certificate of one can hide the failed
\* handshake of another or be reported twice: _sslError belongs to all.)
SignalsAreRight == [][CompletesOwn /\ TellsAlone]_clientVars
=============================================================================
