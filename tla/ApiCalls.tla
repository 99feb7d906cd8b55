------------------------------- MODULE ApiCalls -------------------------------
(***************************************************************************)
(* The client side of the API: SetupApi, ConfigApi, CloudApi and AuthApi   *)
(* send requests to the service through a Client of their own, without a   *)
(* timeout, and emit a signal for each when its answer or an error comes.  *)
(* Which signal, ConfigApi finds in the user data of the request, SetupApi *)
(* in a member that every request overwrites.  Requests go to the local    *)
(* host, without TLS and without a proxy.                                  *)
(*                                                                         *)
(* The types of messages are the user data of the Client.                  *)
(***************************************************************************)
EXTENDS HttpClient

CONSTANT Retrievals     \* types whose answer is parsed: the code, the configuration

ASSUME ApiAssumption == Retrievals \subseteq Users

VARIABLES
    api,        \* the class of the object, and _msgType
    reports     \* the types that this step's signals are for, in order

apiVars == <<clientVars, api, reports>>

\* single: CloudApi and AuthApi, which have one type of message
Classes == {"setup", "config", "single"}

TheType == CHOOSE type \in Users : TRUE

\* Mutant: the type of the latest request is taken for that of the answer.
ReportedLatest(signals) == [i \in DOMAIN signals |-> api.msgType]

\* _error, _clientComplete: the type that each signal of the Client is taken for
Reported(signals) ==
    [i \in DOMAIN signals |-> IF api.class = "config" THEN signals[i].data ELSE api.msgType]

\* configRetrieve, configSupply, poiRetrieve, licenseSupply, portSupply,
\* logPortSupply, actionRequest, authSupply
Request(s, type) ==
    /\ api.class = "single" => type = TheType
    /\ SendAt(s, type, IF api.class = "config" THEN type ELSE NoData, conns)
    /\ entries' = [entries EXCEPT ![s] = "conn"]
    /\ api' = [api EXCEPT !.msgType = type]
    /\ out' = <<>> /\ reports' = <<>>
    /\ UNCHANGED opts

\* Client::complete and Client::error
Answered(s) ==
    /\ NetworkError(s, FALSE) \/ Finished(s)
    /\ reports' = Reported(out')
    /\ UNCHANGED api

\* An answer that is not what was expected is not reported at all.
Misunderstood(s) ==
    /\ Finished(s)
    /\ out' # <<>> /\ \A i \in DOMAIN out' : Reported(out')[i] \in Retrievals
    /\ reports' = <<>>
    /\ UNCHANGED api

\* Api::Api: the Client has no timeout
ApiInit ==
    /\ Constructed(FALSE)
    /\ api \in [class : Classes, msgType : {NoData}]
    /\ reports = <<>>

ApiNext ==
    \E s \in Slots :
        \/ \E type \in Users : Request(s, type)
        \/ Answered(s) \/ Misunderstood(s)

ApiSpec == ApiInit /\ [][ApiNext]_apiVars

-----------------------------------------------------------------------------
(* Properties. *)

\* The request that this step is the end of, as its caller sees it.
Over(s) == conns[s].phase = "sent" /\ conns'[s].phase # "sent"

\* A caller hears once of each request, when it is over, and with the signal of
\* what it asked for; only SetupApi confuses requests that overlap, and only
\* an answer that is not understood is passed over in silence.
ReportsAreAsked ==
    [][ ApiNext =>
        /\ \A i \in DOMAIN reports' : \E s \in Slots :
            /\ Over(s)
            /\ \/ reports'[i] = history[s].who
               \/ api.class = "setup" /\ ~history[s].alone
        /\ \A s \in Slots : Over(s) =>
            \/ Len(reports') = 1
            \/ \E t \in Slots : Misunderstood(t) ]_apiVars
=============================================================================
