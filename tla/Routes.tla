------------------------------- MODULE Routes -------------------------------
(***************************************************************************)
(* NetworkManager keeps the routing table in line with the endpoints the   *)
(* GUI is connected to.  It never looks at the table itself: it starts     *)
(* "netstat", compares what that printed with its lists when it finishes,  *)
(* and starts a "route" command for each difference, without waiting for   *)
(* the commands.  Any number of commands may thus be under way, in any     *)
(* order, while the table is being printed.                                *)
(*                                                                         *)
(* Endpoints are well-formed addresses; one that does not parse never      *)
(* becomes a command.  The API passes the endpoints as a split string,     *)
(* which is never an empty list: the branch that clears _previousEndpoints *)
(* is out of reach, and the empty set stands for the list of one empty     *)
(* string.                                                                 *)
(***************************************************************************)
EXTENDS Naturals

CONSTANTS
    Endpoints,      \* the destinations that may be asked for
    Networks,       \* those with a mask that "route" does not guess
    Static,         \* those somebody else has a route to
    Gateways,       \* addresses of VPN servers inside the VPN
    NoGw,           \* the empty address
    Foreign,        \* the gateway of the routes of somebody else
    MaxCopies       \* bound: identical commands under way at the same time

ASSUME RoutesAssumption ==
    /\ Networks \subseteq Endpoints
    /\ Static \subseteq Endpoints
    /\ NoGw \notin Gateways
    /\ Foreign \notin Gateways
    /\ MaxCopies \in Nat \ {0}

VARIABLES
    nm,         \* NetworkManager's gateways and lists
    read,       \* _process and what netstat has printed
    commands,   \* the route commands under way
    table,      \* the system's routes, as pairs of destination and gateway
    up,         \* the VPN's interface is there
    stopped,    \* the gateway of the last stop that could read the table, or found
                \* a read under way, until routes are synchronised again
    overlap     \* some stop or synchronisation has found another one, or its
                \* commands, still under way

vars == <<nm, read, commands, table, up, stopped, overlap>>

Commands ==
    [kind : {"add"}, dest : Endpoints, gw : Gateways]
        \cup [kind : {"delete"}, dest : Endpoints, host : BOOLEAN]

Add(e, g) == [kind |-> "add", dest |-> e, gw |-> g]

\* NetworkManager::addRoute for each of es; without a gateway address the
\* command fails
Adds(es) == {Add(e, nm.gw) : e \in IF nm.gw = NoGw THEN {} ELSE es}

\* With the endpoint at hand, a network is deleted as one.
Delete(e) == [kind |-> "delete", dest |-> e, host |-> e \notin Networks]

\* With only netstat's column at hand, everything is deleted as a host.
DeleteHost(e) == [kind |-> "delete", dest |-> e, host |-> TRUE]

\* off: _process is NULL; running; printed: netstat has read the table and
\* finished() is to come; failed: _process is set and nothing is to come.
ReadStates == {"off", "running", "printed", "failed"}

Idle == \A c \in Commands : commands[c] = 0

\* Nobody is in the way of the next read.
Quiet == read.st = "off" /\ Idle

Dests(rows) == {row[1] : row \in rows}
VpnRows == {row \in table : row[2] \in Gateways}

\* ProcessManager::start for a set of route commands
Run(cs) ==
    /\ \A c \in cs : commands[c] < MaxCopies
    /\ commands' = [c \in Commands |-> IF c \in cs THEN commands[c] + 1 ELSE commands[c]]

-----------------------------------------------------------------------------
(* Calls from Core. *)

\* Core::_serverConfigReceived, from the Switchboard's answer or through the
\* API: setGateway, and setFallbackGateway unless there is none
ServerConfig(g, f) ==
    /\ nm' = [nm EXCEPT !.gateway = g,
                        !.fallbackGateway = IF f = NoGw THEN @ ELSE f]
    /\ UNCHANGED <<read, commands, table, up, stopped, overlap>>

\* Core::_fallback: the cloud is connected, over the fallback VPN or not
SetFallback(fallback) ==
    /\ up' = TRUE
    /\ nm' = [nm EXCEPT !.gw = IF fallback THEN nm.fallbackGateway ELSE nm.gateway]
    /\ UNCHANGED <<read, commands, table, stopped, overlap>>

\* NetworkManager::syncRoutes, then readRoutes: a read under way is not
\* repeated, but it will use the new endpoints
SyncRoutes(endpoints) ==
    /\ nm.gw # NoGw
    /\ nm' = [nm EXCEPT !.connected = endpoints]
    /\ read' = IF read.st = "off" THEN [read EXCEPT !.st = "running"] ELSE read
    /\ stopped' = NoGw
    /\ overlap' = (overlap \/ ~Quiet)
    /\ UNCHANGED <<commands, table, up>>

\* Mutant: only what netstat shows for other gateways is deleted.
StopOthers ==
    /\ stopped' = nm.gateway
    /\ overlap' = (overlap \/ ~Quiet)
    /\ IF nm.gateway # NoGw /\ read.st = "off"
       THEN Run({DeleteHost(row[1]) : row \in {x \in table : x[2] # nm.gateway}})
       ELSE UNCHANGED commands
    /\ UNCHANGED <<nm, read, table, up>>

\* NetworkManager::stop: netstat is waited for, the commands are not; with a
\* read under way nothing happens
Stop ==
    /\ stopped' = nm.gateway
    /\ overlap' = (overlap \/ ~Quiet)
    /\ IF nm.gateway # NoGw /\ read.st = "off"
       THEN Run({DeleteHost(row[1]) : row \in {x \in table : x[2] = nm.gateway}})
       ELSE UNCHANGED commands
    /\ UNCHANGED <<nm, read, table, up>>

\* The netstat of a stop cannot be started or prints nothing: its exit code is not
\* looked at, no route goes, and nobody is told.
StopUnread ==
    /\ nm.gateway # NoGw /\ read.st = "off"
    /\ overlap' = (overlap \/ ~Quiet)
    /\ UNCHANGED <<nm, read, commands, table, up, stopped>>

-----------------------------------------------------------------------------
(* The end of an asynchronous read. *)

\* Mutant: every connected endpoint is added, without a look at the table.
UpdateBlindly(current) ==
    LET gone == {e \in nm.previous : e \in current /\ e \notin nm.connected}
        new  == nm.connected
    IN /\ Run({Delete(e) : e \in gone} \cup Adds(new))
       /\ nm' = [nm EXCEPT !.previous = (@ \ gone) \cup new]

\* Mutant: an added endpoint is not remembered.
UpdateForgetting(current) ==
    LET gone == {e \in nm.previous : e \in current /\ e \notin nm.connected}
        new  == {e \in nm.connected : e \notin current}
    IN /\ Run({Delete(e) : e \in gone} \cup Adds(new))
       /\ nm' = [nm EXCEPT !.previous = @ \ gone]

\* Mutant: an endpoint that was once added is not added again.
UpdateOnce(current) ==
    LET gone == {e \in nm.previous : e \in current /\ e \notin nm.connected}
        new  == {e \in nm.connected : e \notin current /\ e \notin nm.previous}
    IN /\ Run({Delete(e) : e \in gone} \cup Adds(new))
       /\ nm' = [nm EXCEPT !.previous = (@ \ gone) \cup new]

\* NetworkManager::readRoutesEx (UpdateRoutesOperation): endpoints that are
\* in the table and no longer connected go, connected ones that are not in the
\* table come
Update(current) ==
    LET gone == {e \in nm.previous : e \in current /\ e \notin nm.connected}
        new  == {e \in nm.connected : e \notin current}
    IN /\ Run({Delete(e) : e \in gone} \cup Adds(new))
       /\ nm' = [nm EXCEPT !.previous = (@ \ gone) \cup new]

\* Mutant: what netstat has printed is left for the next read.
ReadFinishedUnread ==
    /\ read.st = "printed"
    /\ Update(read.current)
    /\ read' = [read EXCEPT !.st = "off"]
    /\ UNCHANGED <<table, up, stopped, overlap>>

\* NetworkManager::finishedReadRoutes
ReadFinished ==
    /\ read.st = "printed"
    /\ Update(read.current)
    /\ read' = [st |-> "off", current |-> {}]
    /\ UNCHANGED <<table, up, stopped, overlap>>

\* netstat cannot be started, or exits with an error: _process stays set
ReadFails ==
    /\ read.st = "running"
    /\ read' = [read EXCEPT !.st = "failed"]
    /\ UNCHANGED <<nm, commands, table, up, stopped, overlap>>

-----------------------------------------------------------------------------
(* The system. *)

\* netstat reads the table.
Netstat ==
    /\ read.st = "running"
    /\ read' = [st |-> "printed", current |-> Dests(table)]
    /\ UNCHANGED <<nm, commands, table, up, stopped, overlap>>

\* A route command takes effect: an added route needs the VPN's interface, a
\* deletion takes one of the routes to its destination, if it is of its kind.
Command(c) ==
    /\ commands[c] > 0
    /\ commands' = [commands EXCEPT ![c] = @ - 1]
    /\ \/ /\ c.kind = "add"
          /\ table' = IF up THEN table \cup {<<c.dest, c.gw>>} ELSE table
       \/ /\ c.kind = "delete"
          /\ LET rows == {row \in table : row[1] = c.dest}
             IN IF rows = {} \/ c.host # (c.dest \notin Networks) THEN table' = table
                ELSE \E row \in rows : table' = table \ {row}
    /\ UNCHANGED <<nm, read, up, stopped, overlap>>

\* OpenVPN ends: its interface goes, and the routes through it.
Down ==
    /\ up
    /\ up' = FALSE
    /\ table' = table \ VpnRows
    /\ UNCHANGED <<nm, read, commands, stopped, overlap>>

-----------------------------------------------------------------------------
Init ==
    /\ nm = [gateway |-> NoGw, fallbackGateway |-> NoGw, gw |-> NoGw,
             connected |-> {}, previous |-> {}]
    /\ read = [st |-> "off", current |-> {}]
    /\ commands = [c \in Commands |-> 0]
    /\ table = {<<e, Foreign>> : e \in Static}
    /\ up = FALSE
    /\ stopped = NoGw
    /\ overlap = FALSE

Next ==
    \/ \E g \in Gateways, f \in Gateways \cup {NoGw} : ServerConfig(g, f)
    \/ \E fallback \in BOOLEAN : SetFallback(fallback)
    \/ \E endpoints \in SUBSET Endpoints : SyncRoutes(endpoints)
    \/ Stop
    \/ StopUnread
    \/ ReadFinished
    \/ ReadFails
    \/ Netstat
    \/ \E c \in Commands : Command(c)
    \/ Down

Spec == Init /\ [][Next]_vars

\* Processes end and the event loop delivers it.
Fairness ==
    /\ WF_vars(Netstat)
    /\ WF_vars(ReadFinished)
    /\ \A c \in Commands : WF_vars(Command(c))

FairSpec == Spec /\ Fairness

-----------------------------------------------------------------------------
(* Properties. *)

Gws == Gateways \cup {NoGw}

\* Every field has a value its class declares, no output waits without its
\* process, and the table has routes through the VPN only while it is up.
TypeOK ==
    /\ nm \in [gateway : Gws, fallbackGateway : Gws, gw : Gws,
               connected : SUBSET Endpoints, previous : SUBSET Endpoints]
    /\ read \in [st : ReadStates, current : SUBSET Endpoints]
    /\ read.st # "printed" => read.current = {}
    /\ commands \in [Commands -> 0 .. MaxCopies]
    /\ table \subseteq Endpoints \X (Gateways \cup {Foreign})
    /\ up \in BOOLEAN /\ stopped \in Gws /\ overlap \in BOOLEAN
    /\ VpnRows # {} => up

\* A route somebody else had is never deleted, although "route delete" does
\* not say which gateway it means and the table is always out of date.
StaticRoutesKept == \A e \in Static : <<e, Foreign>> \in table

\* As long as no read and no command overlap, NetworkManager remembers every
\* route it has added, so a later synchronisation can delete it.
RoutesAreKnown == ~overlap /\ Idle => \A row \in VpnRows : row[1] \in nm.previous

\* As long as nothing overlaps, a stop that can read the table removes the routes
\* to hosts through the gateway it was called for.
StopRemovesHosts ==
    ~overlap /\ stopped # NoGw /\ Idle =>
        \A row \in table : row[1] \notin Networks => row[2] # stopped

\* While an endpoint stays connected and the table is read again and again
\* without a stop, there is in the end a route to it, whatever commands are
\* still under way.
AddsConverge ==
    \A e \in Endpoints :
        /\ <>[](up /\ stopped = NoGw /\ nm.gw # NoGw /\ e \in nm.connected)
        /\ []<>(read.st = "printed")
        => <>[](e \in Dests(table))

\* The comment of NetworkManager::stop: all routes associated with the current
\* gateway are removed.
StopRemovesRoutes ==
    ~overlap /\ stopped # NoGw /\ Idle => \A row \in table : row[2] # nm.gw

\* The comment of finishedReadRoutes: further reads are unblocked.
ReadsEnd == read.st # "off" ~> read.st = "off"
=============================================================================
