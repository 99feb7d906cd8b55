-------------------------------- MODULE Parts --------------------------------
(* The parts that do not act on each other, side by side: in a behaviour only
   one of them moves. *)
EXTENDS Watchdog, ApiCalls, Processes, HttpServer

CONSTANT MaxOverlap     \* bound: requests of a client, unless it is the watchdog's

VARIABLE part

partsVars == <<watchdogVars, api, reports, processVars, httpVars, part>>

NoReports == api = [class |-> "single", msgType |-> NoData] /\ reports = <<>>

Overlap == Cardinality({s \in Slots : conns'[s].phase # "free" \/ entries'[s] # "none"}) <= MaxOverlap

Init ==
    /\ part \in {"client", "watchdog", "api", "processes", "server"}
    /\ ServerInit /\ ProcessesInit
    /\ IF part = "api"
       THEN /\ ApiInit
            /\ wd = [running |-> FALSE, state |-> "unknown", due |-> FALSE]
            /\ core = [st |-> "idle", busy |-> FALSE]
            /\ url = NoPort
            /\ app = [st |-> "dead", port |-> CHOOSE port \in Ports : TRUE]
            /\ link = [s \in Slots |-> "none"] /\ age = [s \in Slots |-> 0]
            /\ silent = 0 /\ trouble = TRUE /\ excuse = "none"
       ELSE WatchInit /\ NoReports

Next ==
    /\ part' = part
    /\ \/ part = "client" /\ ClientNext /\ Overlap /\ UNCHANGED <<watchVars, api, reports, process, httpVars>>
       \/ part = "watchdog" /\ WatchNext /\ UNCHANGED <<api, reports, process, httpVars>>
       \/ part = "api" /\ ApiNext /\ Overlap /\ UNCHANGED <<watchVars, process, httpVars>>
       \/ part = "processes" /\ ProcessesNext /\ UNCHANGED <<watchdogVars, api, reports, httpVars>>
       \/ part = "server" /\ ServerNext /\ UNCHANGED <<watchdogVars, api, reports, process>>

Spec == Init /\ [][Next]_partsVars

\* The types of all parts, the inductive invariant of the client, what bounds
\* the watchdog's requests, which processes stay in the list of the manager,
\* and where the server can be found.
PartsInv ==
    /\ ClientInv
    /\ part = "watchdog" => RequestsAreBounded
    /\ api \in [class : Classes, msgType : Users \cup {NoData}]
    /\ ProcessesTypeOK /\ NothingElseStays
    /\ ServerTypeOK /\ AnnouncedIsBound
=============================================================================
