---------------------------- MODULE RoutesProofs ----------------------------
(***************************************************************************)
(* Proofs about Routes, for any endpoints, networks and gateways and any   *)
(* number of commands under way.                                           *)
(*                                                                         *)
(* The first part is about every behaviour: NetworkManager never deletes a *)
(* route somebody else has.  The second is about those in which nothing    *)
(* has overlapped yet: what is added is known, and what is stopped goes.   *)
(***************************************************************************)
EXTENDS Routes, TLAPS

NmType == [gateway : Gws, fallbackGateway : Gws, gw : Gws,
           connected : SUBSET Endpoints, previous : SUBSET Endpoints]

\* The types the proof needs.
Typed ==
    /\ nm \in NmType
    /\ read \in [st : ReadStates, current : SUBSET Endpoints]
    /\ commands \in [Commands -> Nat]
    /\ table \subseteq Endpoints \X (Gateways \cup {Foreign})

\* No command for a destination with a foreign route is under way.
NoCommand == \A c \in Commands : c.dest \in Static => commands[c] = 0

\* Such a destination is not remembered as added, is in everything netstat
\* has printed, and has no route through the VPN.
Untouched ==
    /\ nm.previous \cap Static = {}
    /\ read.st = "printed" => Static \subseteq read.current
    /\ \A row \in VpnRows : row[1] \notin Static

IInv == Typed /\ StaticRoutesKept /\ NoCommand /\ Untouched

\* Commands that are started are for other destinations.
LEMMA RunOthers ==
    ASSUME Typed, NoCommand, NEW cs \in SUBSET Commands,
           \A c \in cs : c.dest \notin Static, Run(cs)
    PROVE  commands' \in [Commands -> Nat] /\ NoCommand'
<1>1. commands' = [c \in Commands |-> IF c \in cs THEN commands[c] + 1 ELSE commands[c]]
  BY DEF Run
<1>2. \A c \in Commands : commands[c] \in Nat
  BY DEF Typed
<1>3. commands' \in [Commands -> Nat]
  BY <1>1, <1>2
<1>4. NoCommand'
  BY <1>1 DEF NoCommand
<1>5. QED
  BY <1>3, <1>4

LEMMA DeleteHostType ==
    ASSUME NEW e \in Endpoints
    PROVE  DeleteHost(e) \in Commands /\ DeleteHost(e).dest = e
BY DEF DeleteHost, Commands

LEMMA InitInv == Init => IInv
<1> SUFFICES ASSUME Init PROVE IInv
  OBVIOUS
<1>1. Typed
  BY RoutesAssumption DEF Init, Typed, NmType, Gws, ReadStates
<1>2. StaticRoutesKept /\ NoCommand
  BY DEF Init, StaticRoutesKept, NoCommand
<1>3. Untouched
  BY RoutesAssumption DEF Init, Untouched, VpnRows
<1>4. QED
  BY <1>1, <1>2, <1>3 DEF IInv

\* A call that changes neither the lists nor the table.
LEMMA ConfigStep ==
    ASSUME IInv, NEW g \in Gateways, NEW f \in Gws, ServerConfig(g, f)
    PROVE  IInv'
<1>1. nm' \in NmType /\ nm'.previous = nm.previous
  BY DEF ServerConfig, IInv, Typed, NmType, Gws
<1>2. QED
  BY <1>1 DEF ServerConfig, IInv, Typed, StaticRoutesKept, NoCommand, Untouched, VpnRows

LEMMA FallbackStep ==
    ASSUME IInv, NEW b \in BOOLEAN, SetFallback(b)
    PROVE  IInv'
<1>1. nm' \in NmType /\ nm'.previous = nm.previous
  BY DEF SetFallback, IInv, Typed, NmType
<1>2. QED
  BY <1>1 DEF SetFallback, IInv, Typed, StaticRoutesKept, NoCommand, Untouched, VpnRows

LEMMA SyncStep ==
    ASSUME IInv, NEW es \in SUBSET Endpoints, SyncRoutes(es)
    PROVE  IInv'
<1>1. nm' \in NmType /\ nm'.previous = nm.previous
  BY DEF SyncRoutes, IInv, Typed, NmType
<1>2. /\ read' \in [st : ReadStates, current : SUBSET Endpoints]
      /\ read'.st = "printed" => read' = read
  BY DEF SyncRoutes, IInv, Typed, ReadStates
<1>3. QED
  BY <1>1, <1>2
  DEF SyncRoutes, IInv, Typed, StaticRoutesKept, NoCommand, Untouched, VpnRows

\* A stop deletes routes through the VPN only.
LEMMA StopStep ==
    ASSUME IInv, Stop
    PROVE  IInv'
<1>1. UNCHANGED <<nm, read, table>>
  BY DEF Stop
<1>2. commands' \in [Commands -> Nat] /\ NoCommand'
  <2>1. CASE UNCHANGED commands
    BY <2>1 DEF IInv, Typed, NoCommand
  <2>2. CASE /\ nm.gateway # NoGw
             /\ Run({DeleteHost(row[1]) : row \in {x \in table : x[2] = nm.gateway}})
    <3> DEFINE cs == {DeleteHost(row[1]) : row \in {x \in table : x[2] = nm.gateway}}
    <3>1. nm.gateway \in Gateways
      BY <2>2 DEF IInv, Typed, NmType, Gws
    <3>2. \A row \in {x \in table : x[2] = nm.gateway} :
             row \in VpnRows /\ row[1] \in Endpoints
      BY <3>1 DEF VpnRows, IInv, Typed
    <3>3. \A row \in {x \in table : x[2] = nm.gateway} :
             DeleteHost(row[1]) \in Commands /\ DeleteHost(row[1]).dest \notin Static
      BY <3>2, DeleteHostType DEF IInv, Untouched
    <3>4. cs \in SUBSET Commands /\ \A c \in cs : c.dest \notin Static
      BY <3>3
    <3>5. Run(cs)
      BY <2>2
    <3> HIDE DEF cs
    <3>6. QED
      BY <3>4, <3>5, RunOthers DEF IInv
  <2>3. QED
    BY <2>1, <2>2 DEF Stop
<1>3. QED
  BY <1>1, <1>2 DEF IInv, Typed, StaticRoutesKept, Untouched, VpnRows

\* What a read decides concerns neither what is in the table already nor what
\* was never added.
LEMMA ReadFinishedStep ==
    ASSUME IInv, ReadFinished
    PROVE  IInv'
<1> DEFINE gone == {e \in nm.previous : e \in read.current /\ e \notin nm.connected}
           new  == {e \in nm.connected : e \notin read.current}
           cs   == {Delete(e) : e \in gone} \cup Adds(new)
<1>1. Run(cs) /\ nm' = [nm EXCEPT !.previous = (@ \ gone) \cup new]
  BY DEF ReadFinished, Update
<1>2. /\ gone \subseteq Endpoints /\ new \subseteq Endpoints
      /\ gone \cap Static = {} /\ new \cap Static = {}
  BY DEF ReadFinished, IInv, Typed, NmType, Untouched
<1>3. nm' \in NmType /\ nm'.previous \cap Static = {}
  BY <1>1, <1>2 DEF IInv, Typed, NmType, Untouched
<1>4. \A c \in Adds(new) : c \in Commands /\ c.dest \notin Static
  BY <1>2 DEF Adds, Add, Commands, IInv, Typed, NmType, Gws
<1>5. \A e \in gone : Delete(e) \in Commands /\ Delete(e).dest \notin Static
  BY <1>2 DEF Delete, Commands
<1>6. cs \in SUBSET Commands /\ \A c \in cs : c.dest \notin Static
  BY <1>4, <1>5
<1> HIDE DEF cs, gone, new
<1>7. commands' \in [Commands -> Nat] /\ NoCommand'
  BY <1>1, <1>6, RunOthers DEF IInv
<1>8. /\ read' = [st |-> "off", current |-> {}]
      /\ UNCHANGED table
  BY DEF ReadFinished
<1>9. Typed'
  BY <1>3, <1>7, <1>8 DEF IInv, Typed, ReadStates
<1>10. StaticRoutesKept' /\ Untouched'
  BY <1>3, <1>8 DEF IInv, StaticRoutesKept, Untouched, VpnRows
<1>11. QED
  BY <1>7, <1>9, <1>10 DEF IInv

LEMMA ReadFailsStep ==
    ASSUME IInv, ReadFails
    PROVE  IInv'
BY DEF ReadFails, IInv, Typed, StaticRoutesKept, NoCommand, Untouched, VpnRows, ReadStates

\* netstat prints the foreign routes with all others.
LEMMA NetstatStep ==
    ASSUME IInv, Netstat
    PROVE  IInv'
<1>1. Dests(table) \in SUBSET Endpoints
  <2>1. \A row \in table : row[1] \in Endpoints
    BY DEF IInv, Typed
  <2>2. QED
    BY <2>1 DEF Dests
<1>2. Static \subseteq Dests(table)
  <2>1. \A e \in Static : <<e, Foreign>> \in table /\ e = <<e, Foreign>>[1]
    BY DEF IInv, StaticRoutesKept
  <2>2. QED
    BY <2>1, Zenon DEF Dests
<1>3. QED
  BY <1>1, <1>2
  DEF Netstat, IInv, Typed, StaticRoutesKept, NoCommand, Untouched, VpnRows, ReadStates

\* No command that is under way is for a destination with a foreign route.
LEMMA CommandStep ==
    ASSUME IInv, NEW c \in Commands, Command(c)
    PROVE  IInv'
<1>1. c.dest \notin Static /\ commands[c] \in Nat \ {0}
  BY DEF Command, IInv, Typed, NoCommand
<1>2. commands' \in [Commands -> Nat] /\ NoCommand'
  BY <1>1 DEF Command, IInv, Typed, NoCommand
<1>3. UNCHANGED <<nm, read>>
  BY DEF Command
<1>4. CASE c.kind = "add" /\ table' = IF up THEN table \cup {<<c.dest, c.gw>>} ELSE table
  <2>1. c.dest \in Endpoints /\ c.gw \in Gateways
    BY <1>4 DEF Commands
  <2>2. QED
    BY <1>1, <1>2, <1>3, <1>4, <2>1
    DEF IInv, Typed, StaticRoutesKept, Untouched, VpnRows
<1>5. CASE \/ table' = table
           \/ \E row \in table : row[1] = c.dest /\ table' = table \ {row}
  <2>1. StaticRoutesKept'
    BY <1>1, <1>5 DEF IInv, StaticRoutesKept
  <2>2. table' \subseteq table
    BY <1>5
  <2>3. QED
    BY <1>2, <1>3, <2>1, <2>2 DEF IInv, Typed, Untouched, VpnRows
<1>6. QED
  BY <1>4, <1>5 DEF Command

LEMMA DownStep ==
    ASSUME IInv, Down
    PROVE  IInv'
BY RoutesAssumption
DEF Down, IInv, Typed, StaticRoutesKept, NoCommand, Untouched, VpnRows

\* Every step preserves the invariant.
LEMMA NextInv == IInv /\ [Next]_vars => IInv'
<1> SUFFICES ASSUME IInv, [Next]_vars PROVE IInv'
  OBVIOUS
<1>1. CASE \E g \in Gateways, f \in Gateways \cup {NoGw} : ServerConfig(g, f)
  BY <1>1, ConfigStep DEF Gws
<1>2. CASE \E fallback \in BOOLEAN : SetFallback(fallback)
  BY <1>2, FallbackStep
<1>3. CASE \E endpoints \in SUBSET Endpoints : SyncRoutes(endpoints)
  BY <1>3, SyncStep
<1>4. CASE Stop
  BY <1>4, StopStep
<1>5. CASE ReadFinished
  BY <1>5, ReadFinishedStep
<1>6. CASE ReadFails
  BY <1>6, ReadFailsStep
<1>7. CASE Netstat
  BY <1>7, NetstatStep
<1>8. CASE \E c \in Commands : Command(c)
  BY <1>8, CommandStep
<1>9. CASE Down
  BY <1>9, DownStep
<1>10. CASE UNCHANGED vars
  BY <1>10 DEF vars, IInv, Typed, StaticRoutesKept, NoCommand, Untouched, VpnRows
<1>11. CASE StopUnread
  BY <1>11 DEF StopUnread, IInv, Typed, StaticRoutesKept, NoCommand, Untouched, VpnRows
<1>12. QED
  BY <1>1, <1>2, <1>3, <1>4, <1>5, <1>6, <1>7, <1>8, <1>9, <1>10, <1>11 DEF Next

\* NetworkManager never deletes a route somebody else had, in whatever order
\* its reads and commands take effect.
THEOREM ForeignRoutesSurvive == Spec => []StaticRoutesKept
<1>1. IInv => StaticRoutesKept
  BY DEF IInv
<1>2. QED
  BY <1>1, InitInv, NextInv, PTL DEF Spec

-----------------------------------------------------------------------------
(* Types. *)

LEMMA RunType ==
    ASSUME commands \in [Commands -> 0 .. MaxCopies], NEW cs \in SUBSET Commands, Run(cs)
    PROVE  commands' \in [Commands -> 0 .. MaxCopies]
<1>1. commands' = [c \in Commands |-> IF c \in cs THEN commands[c] + 1 ELSE commands[c]]
  BY DEF Run
<1>2. \A c \in Commands :
         (IF c \in cs THEN commands[c] + 1 ELSE commands[c]) \in 0 .. MaxCopies
  BY RoutesAssumption DEF Run
<1>3. QED
  BY <1>1, <1>2

\* What a stop and the end of a read start are route commands.
LEMMA StopCommands ==
    ASSUME TypeOK
    PROVE  {DeleteHost(row[1]) : row \in {x \in table : x[2] = nm.gateway}}
              \in SUBSET Commands
<1>1. \A row \in table : row[1] \in Endpoints
  BY DEF TypeOK
<1>2. QED
  BY <1>1, DeleteHostType

LEMMA ReadCommands ==
    ASSUME TypeOK, NEW gone \in SUBSET Endpoints, NEW new \in SUBSET Endpoints
    PROVE  {Delete(e) : e \in gone} \cup Adds(new) \in SUBSET Commands
<1>1. \A c \in Adds(new) : c \in Commands
  BY DEF Adds, Add, Commands, TypeOK, Gws
<1>2. \A e \in gone : Delete(e) \in Commands
  BY DEF Delete, Commands
<1>3. QED
  BY <1>1, <1>2

LEMMA InitTypes == Init => TypeOK
<1> SUFFICES ASSUME Init PROVE TypeOK
  OBVIOUS
<1>1. /\ nm \in NmType
      /\ read \in [st : ReadStates, current : SUBSET Endpoints] /\ read.current = {}
  BY DEF Init, NmType, Gws, ReadStates
<1>2. commands \in [Commands -> 0 .. MaxCopies]
  BY RoutesAssumption DEF Init
<1>3. table \subseteq Endpoints \X (Gateways \cup {Foreign}) /\ VpnRows = {}
  BY RoutesAssumption DEF Init, VpnRows
<1>4. QED
  BY <1>1, <1>2, <1>3 DEF Init, TypeOK, NmType, Gws

LEMMA NextTypes ==
    ASSUME TypeOK, [Next]_vars
    PROVE  TypeOK'
<1>1. /\ nm \in NmType
      /\ read \in [st : ReadStates, current : SUBSET Endpoints]
  BY DEF TypeOK, NmType
<1>2. CASE \E g \in Gateways, f \in Gateways \cup {NoGw} : ServerConfig(g, f)
  <2>1. nm' \in NmType
    BY <1>1, <1>2 DEF ServerConfig, NmType, Gws
  <2>2. QED
    BY <1>2, <2>1 DEF ServerConfig, TypeOK, NmType, VpnRows
<1>3. CASE \E fallback \in BOOLEAN : SetFallback(fallback)
  <2>1. nm' \in NmType
    BY <1>1, <1>3 DEF SetFallback, NmType
  <2>2. QED
    BY <1>3, <2>1 DEF SetFallback, TypeOK, NmType, VpnRows
<1>4. CASE \E endpoints \in SUBSET Endpoints : SyncRoutes(endpoints)
  <2>1. nm' \in NmType
    BY <1>1, <1>4 DEF SyncRoutes, NmType
  <2>2. /\ read' \in [st : ReadStates, current : SUBSET Endpoints]
        /\ read'.st # "printed" => read'.current = {}
    BY <1>1, <1>4 DEF SyncRoutes, TypeOK, ReadStates
  <2>3. stopped' \in Gws /\ overlap' \in BOOLEAN
    BY <1>4 DEF SyncRoutes, Gws
  <2>4. QED
    BY <1>4, <2>1, <2>2, <2>3 DEF SyncRoutes, TypeOK, NmType, VpnRows
<1>5. CASE Stop
  <2>1. commands' \in [Commands -> 0 .. MaxCopies]
    <3>1. commands \in [Commands -> 0 .. MaxCopies]
      BY DEF TypeOK
    <3>2. CASE UNCHANGED commands
      BY <3>1, <3>2
    <3>3. CASE Run({DeleteHost(row[1]) : row \in {x \in table : x[2] = nm.gateway}})
      BY <3>1, <3>3, StopCommands, RunType
    <3>4. QED
      BY <1>5, <3>2, <3>3 DEF Stop
  <2>2. stopped' \in Gws /\ overlap' \in BOOLEAN
    BY <1>1, <1>5 DEF Stop, NmType
  <2>3. QED
    BY <1>5, <2>1, <2>2 DEF Stop, TypeOK, VpnRows
<1>6. CASE ReadFinished
  <2> DEFINE gone == {e \in nm.previous : e \in read.current /\ e \notin nm.connected}
             new  == {e \in nm.connected : e \notin read.current}
  <2>1. gone \in SUBSET Endpoints /\ new \in SUBSET Endpoints
    BY <1>1 DEF NmType
  <2>2. /\ Run({Delete(e) : e \in gone} \cup Adds(new))
        /\ nm' = [nm EXCEPT !.previous = (@ \ gone) \cup new]
    BY <1>6 DEF ReadFinished, Update
  <2> HIDE DEF gone, new
  <2>3. nm' \in NmType
    BY <1>1, <2>1, <2>2 DEF NmType
  <2>4. commands' \in [Commands -> 0 .. MaxCopies]
    BY <2>1, <2>2, ReadCommands, RunType DEF TypeOK
  <2>5. QED
    BY <1>6, <2>3, <2>4 DEF ReadFinished, TypeOK, NmType, VpnRows, ReadStates
<1>7. CASE ReadFails
  BY <1>7 DEF ReadFails, TypeOK, VpnRows, ReadStates
<1>8. CASE Netstat
  <2>1. \A row \in table : row[1] \in Endpoints
    BY DEF TypeOK
  <2>2. Dests(table) \in SUBSET Endpoints
    BY <2>1 DEF Dests
  <2>3. QED
    BY <1>8, <2>2 DEF Netstat, TypeOK, VpnRows, ReadStates
<1>9. ASSUME NEW c \in Commands, Command(c) PROVE TypeOK'
  <2>1. commands' \in [Commands -> 0 .. MaxCopies]
    BY <1>9, RoutesAssumption DEF Command, TypeOK
  <2>2. CASE c.kind = "add" /\ table' = IF up THEN table \cup {<<c.dest, c.gw>>} ELSE table
    <3>1. c.dest \in Endpoints /\ c.gw \in Gateways
      BY <2>2 DEF Commands
    <3>2. table' \subseteq Endpoints \X (Gateways \cup {Foreign}) /\ (VpnRows' # {} => up)
      BY <2>2, <3>1 DEF TypeOK, VpnRows
    <3>3. QED
      BY <1>9, <2>1, <3>2 DEF Command, TypeOK
  <2>3. CASE table' \subseteq table
    <3>1. table' \subseteq Endpoints \X (Gateways \cup {Foreign}) /\ (VpnRows' # {} => up)
      BY <2>3 DEF TypeOK, VpnRows
    <3>2. QED
      BY <1>9, <2>1, <3>1 DEF Command, TypeOK
  <2>4. QED
    BY <1>9, <2>2, <2>3 DEF Command
<1>10. CASE Down
  BY <1>10 DEF Down, TypeOK, VpnRows
<1>11. CASE UNCHANGED vars
  BY <1>11 DEF vars, TypeOK, VpnRows
<1>12. CASE StopUnread
  BY <1>1, <1>12 DEF StopUnread, TypeOK, NmType, VpnRows
<1>13. QED
  BY <1>2, <1>3, <1>4, <1>5, <1>6, <1>7, <1>8, <1>9, <1>10, <1>11, <1>12 DEF Next

\* NetworkManager's lists, what netstat has printed, the commands and the table
\* have the values that they can have.
THEOREM TypeCorrect == Spec => []TypeOK
BY InitTypes, NextTypes, PTL DEF Spec

-----------------------------------------------------------------------------
(* Behaviours in which no stop and no synchronisation has found another one, *)
(* or its commands, still under way.                                         *)

Pending(c) == commands[c] > 0
PendingAdds == {c \in Commands : c.kind = "add" /\ Pending(c)}

\* While the table is read, no command changes it: it loses routes only when the
\* VPN ends.
ReadsAlone ==
    /\ read.st # "off" => Idle
    /\ read.st = "printed" => Dests(table) \subseteq read.current

\* There is one route to a destination, so a deletion takes the one it means.
OneRoute == \A x, y \in table : x[1] = y[1] => x = y

\* The commands that add routes belong together, are for destinations that are
\* remembered, and bring the only route to them.
AddsFit ==
    \A c \in PendingAdds :
        /\ c.dest \in nm.previous
        /\ \A row \in table : row[1] = c.dest => row[2] = c.gw
        /\ \A d \in PendingAdds : d.dest = c.dest => d.gw = c.gw

\* A route that was added is remembered until the command that deletes it runs.
Remembered == \A row \in VpnRows : row[1] \in nm.previous \/ Pending(Delete(row[1]))

\* After a stop nothing is read and nothing added, and the hosts that are left
\* have their command.
Swept ==
    stopped # NoGw =>
        /\ read.st = "off" /\ PendingAdds = {}
        /\ \A row \in table :
              row[1] \notin Networks /\ row[2] = stopped => Pending(Delete(row[1]))

Orderly == ReadsAlone /\ OneRoute /\ AddsFit /\ Remembered /\ Swept

OInv == TypeOK /\ (~overlap => Orderly)

\* Once nothing is in the way, no command is pending and all is remembered.
LEMMA IdleFacts ==
    ASSUME TypeOK, Orderly, Idle
    PROVE  /\ PendingAdds = {}
           /\ \A c \in Commands : ~Pending(c) /\ commands[c] = 0
           /\ \A row \in VpnRows : row[1] \in nm.previous
<1>1. \A c \in Commands : ~Pending(c) /\ commands[c] = 0
  BY DEF Idle, Pending
<1>2. \A row \in table : row[1] \in Endpoints
  BY DEF TypeOK
<1>3. \A e \in Endpoints : Delete(e) \in Commands
  BY DEF Delete, Commands
<1>4. \A row \in VpnRows : ~Pending(Delete(row[1]))
  BY <1>1, <1>2, <1>3 DEF VpnRows
<1>5. QED
  BY <1>1, <1>4 DEF PendingAdds, Orderly, Remembered

\* What is started when nothing is pending is all that is pending then.
LEMMA RunAlone ==
    ASSUME TypeOK, Idle, NEW cs \in SUBSET Commands, Run(cs)
    PROVE  \A c \in Commands : Pending(c)' <=> c \in cs
<1>1. \A c \in Commands : commands[c] = 0
  BY DEF Idle
<1>2. commands' = [c \in Commands |-> IF c \in cs THEN commands[c] + 1 ELSE commands[c]]
  BY DEF Run
<1>3. QED
  BY <1>1, <1>2 DEF Pending

LEMMA InitOrderly == Init => Orderly
<1> SUFFICES ASSUME Init PROVE Orderly
  OBVIOUS
<1>1. Idle /\ PendingAdds = {}
  BY DEF Init, Idle, PendingAdds, Pending
<1>2. OneRoute
  BY DEF Init, OneRoute
<1>3. VpnRows = {}
  BY RoutesAssumption DEF Init, VpnRows
<1>4. QED
  BY <1>1, <1>2, <1>3 DEF Init, Orderly, ReadsAlone, AddsFit, Remembered, Swept

\* A step that changes neither the list of what was added nor the system.
LEMMA OrderlyElsewhere ==
    ASSUME Orderly, nm'.previous = nm.previous,
           UNCHANGED <<read, commands, table, stopped>>
    PROVE  Orderly'
<1>1. PendingAdds' = PendingAdds /\ (Idle' <=> Idle) /\ VpnRows' = VpnRows
  BY DEF PendingAdds, Pending, Idle, VpnRows
<1>2. QED
  BY <1>1 DEF Orderly, ReadsAlone, OneRoute, AddsFit, Remembered, Swept, Pending

LEMMA OrderlySync ==
    ASSUME TypeOK, Orderly, Quiet, NEW es \in SUBSET Endpoints, SyncRoutes(es)
    PROVE  Orderly'
<1>1. PendingAdds' = PendingAdds /\ (Idle' <=> Idle) /\ VpnRows' = VpnRows
  BY DEF SyncRoutes, PendingAdds, Pending, Idle, VpnRows
<1>2. Idle /\ nm'.previous = nm.previous
  BY DEF Quiet, SyncRoutes, TypeOK
<1>3. read'.st # "printed" /\ stopped' = NoGw
  BY DEF SyncRoutes, Quiet, TypeOK
<1>4. QED
  BY <1>1, <1>2, <1>3
  DEF SyncRoutes, Orderly, ReadsAlone, OneRoute, AddsFit, Remembered, Swept, Pending

\* A stop that meets nothing under way deletes every host of its gateway.
LEMMA OrderlyStop ==
    ASSUME TypeOK, Orderly, Quiet, Stop
    PROVE  Orderly'
<1> DEFINE cs == {DeleteHost(row[1]) : row \in {x \in table : x[2] = nm.gateway}}
<1>1. Idle /\ read.st = "off"
  BY DEF Quiet
<1>2. /\ \A c \in Commands : ~Pending(c)
      /\ \A row \in VpnRows : row[1] \in nm.previous
  BY <1>1, IdleFacts
<1>3. UNCHANGED <<nm, read, table>> /\ stopped' = nm.gateway
  BY DEF Stop
<1>4. cs \in SUBSET Commands
  BY StopCommands
<1>5. nm.gateway # NoGw => \A c \in Commands : Pending(c)' <=> c \in cs
  <2>1. nm.gateway # NoGw => Run(cs)
    BY <1>1 DEF Stop
  <2>2. QED
    BY <1>1, <1>4, <2>1, RunAlone
<1>6. nm.gateway = NoGw => \A c \in Commands : ~Pending(c)'
  BY <1>2 DEF Stop, Pending
<1>7. PendingAdds' = {}
  <2>1. \A c \in cs : c.kind = "delete"
    BY DEF DeleteHost
  <2>2. QED
    BY <1>5, <1>6, <2>1 DEF PendingAdds
<1>8. Swept'
  <2>1. ASSUME nm.gateway # NoGw, NEW row \in table, row[1] \notin Networks, row[2] = nm.gateway
        PROVE  Pending(Delete(row[1]))'
    <3>1. row[1] \in Endpoints
      BY DEF TypeOK
    <3>2. DeleteHost(row[1]) \in cs
      BY <2>1
    <3>3. DeleteHost(row[1]) \in Commands /\ DeleteHost(row[1]) = Delete(row[1])
      BY <2>1, <3>1, DeleteHostType DEF DeleteHost, Delete
    <3> HIDE DEF cs
    <3>4. QED
      BY <1>5, <2>1, <3>2, <3>3
  <2>2. QED
    BY <1>1, <1>3, <1>7, <2>1 DEF Swept
<1> HIDE DEF cs
<1>9. Remembered'
  BY <1>2, <1>3 DEF Remembered, VpnRows
<1>10. AddsFit'
  BY <1>7 DEF AddsFit
<1>11. ReadsAlone' /\ OneRoute'
  BY <1>1, <1>3 DEF Orderly, ReadsAlone, OneRoute
<1>12. QED
  BY <1>8, <1>9, <1>10, <1>11 DEF Orderly

\* What a read starts is for destinations without a route, or deletes what it
\* forgets.
LEMMA OrderlyRead ==
    ASSUME TypeOK, Orderly, ReadFinished
    PROVE  Orderly'
<1> DEFINE gone == {e \in nm.previous : e \in read.current /\ e \notin nm.connected}
           new  == {e \in nm.connected : e \notin read.current}
           cs   == {Delete(e) : e \in gone} \cup Adds(new)
<1>1. Idle /\ Dests(table) \subseteq read.current /\ stopped = NoGw
  BY DEF ReadFinished, Orderly, ReadsAlone, Swept
<1>2. \A row \in VpnRows : row[1] \in nm.previous
  BY <1>1, IdleFacts
<1>3. Run(cs) /\ nm' = [nm EXCEPT !.previous = (@ \ gone) \cup new]
  BY DEF ReadFinished, Update
<1>4. gone \in SUBSET Endpoints /\ new \in SUBSET Endpoints
  BY DEF TypeOK
<1>5. UNCHANGED <<table, stopped>> /\ read'.st = "off"
  BY DEF ReadFinished
<1>6. \A row \in table : row[1] \in Endpoints /\ row[1] \notin new
  <2>1. \A row \in table : row[1] \in Dests(table)
    BY DEF Dests
  <2>2. QED
    BY <1>1, <2>1 DEF TypeOK
<1>7. nm'.previous = (nm.previous \ gone) \cup new
  BY <1>3 DEF TypeOK
<1>8. \A c \in cs : \/ c.kind = "delete"
                    \/ c.dest \in new /\ c.gw = nm.gw
  BY DEF Delete, Adds, Add
<1>9. \A e \in gone : Delete(e) \in cs
  OBVIOUS
<1>10. cs \in SUBSET Commands
  BY <1>4, ReadCommands
<1> HIDE DEF gone, new, cs
<1>11. \A c \in Commands : Pending(c)' <=> c \in cs
  BY <1>1, <1>3, <1>10, RunAlone
<1>12. \A c \in PendingAdds' : c.dest \in new /\ c.gw = nm.gw
  BY <1>8, <1>11 DEF PendingAdds
<1>13. AddsFit'
  BY <1>5, <1>6, <1>7, <1>12 DEF AddsFit
<1>14. Remembered'
  <2>1. \A e \in gone : Pending(Delete(e))'
    BY <1>9, <1>10, <1>11
  <2>2. QED
    BY <1>2, <1>5, <1>7, <2>1 DEF Remembered, VpnRows
<1>15. ReadsAlone' /\ OneRoute' /\ Swept'
  BY <1>1, <1>5 DEF Orderly, ReadsAlone, OneRoute, Swept
<1>16. QED
  BY <1>13, <1>14, <1>15 DEF Orderly

LEMMA OrderlyNetstat ==
    ASSUME Orderly, ReadFails \/ Netstat
    PROVE  Orderly'
<1>1. /\ UNCHANGED <<nm, commands, table, stopped>> /\ read.st = "running"
      /\ read'.st = "printed" => read'.current = Dests(table)
  <2>1. CASE Netstat
    BY <2>1 DEF Netstat
  <2>2. CASE ReadFails /\ read' = [read EXCEPT !.st = "failed"]
    BY <2>2 DEF ReadFails, Orderly
  <2>3. QED
    BY <2>1, <2>2 DEF ReadFails
<1>2. PendingAdds' = PendingAdds /\ (Idle' <=> Idle) /\ VpnRows' = VpnRows
  BY <1>1 DEF PendingAdds, Pending, Idle, VpnRows
<1>3. QED
  BY <1>1, <1>2
  DEF Orderly, ReadsAlone, OneRoute, AddsFit, Remembered, Swept, Pending, Dests

\* A command does what it was started for.
LEMMA OrderlyCommand ==
    ASSUME TypeOK, Orderly, NEW c \in Commands, Command(c)
    PROVE  Orderly'
<1>1. /\ UNCHANGED <<nm, read, stopped>> /\ Pending(c)
      /\ commands' = [commands EXCEPT ![c] = @ - 1]
  BY DEF Command, Pending
<1>2. commands[c] \in Nat /\ \A d \in Commands : commands[d] \in Nat
  BY DEF TypeOK
<1>3. \A d \in Commands : /\ Pending(d)' => Pending(d)
                          /\ d # c /\ Pending(d) => Pending(d)'
  BY <1>1, <1>2 DEF Pending, TypeOK
<1>4. PendingAdds' \subseteq PendingAdds
  BY <1>3 DEF PendingAdds
<1>5. read.st = "off"
  <2>1. ~Idle
    BY <1>1 DEF Idle, Pending
  <2>2. QED
    BY <2>1 DEF Orderly, ReadsAlone
<1>6. \A row \in table : row[1] \in Endpoints /\ Delete(row[1]) \in Commands
  BY DEF TypeOK, Delete, Commands
<1>7. CASE table' = table /\ c.kind = "add"
  <2>1. \A row \in table : Delete(row[1]) # c
    BY <1>7 DEF Delete
  <2>2. QED
    BY <1>1, <1>3, <1>4, <1>5, <1>6, <1>7, <2>1
    DEF Orderly, ReadsAlone, OneRoute, AddsFit, Remembered, Swept, VpnRows
<1>8. CASE table' = table \cup {<<c.dest, c.gw>>} /\ c.kind = "add"
  <2>1. c \in PendingAdds /\ stopped = NoGw
    BY <1>1, <1>8 DEF PendingAdds, Orderly, Swept
  <2>2. /\ c.dest \in nm.previous
        /\ \A row \in table : row[1] = c.dest => row[2] = c.gw
        /\ \A d \in PendingAdds : d.dest = c.dest => d.gw = c.gw
    BY <2>1 DEF Orderly, AddsFit
  <2>3. \A row \in table : row[1] = c.dest => row = <<c.dest, c.gw>>
    BY <2>2 DEF TypeOK
  <2>4. OneRoute'
    BY <1>8, <2>3 DEF Orderly, OneRoute
  <2>5. AddsFit'
    BY <1>1, <1>4, <1>8, <2>2 DEF Orderly, AddsFit
  <2>6. \A row \in table : Delete(row[1]) # c
    BY <1>8 DEF Delete
  <2>7. Remembered'
    BY <1>1, <1>3, <1>6, <1>8, <2>2, <2>6 DEF Orderly, Remembered, VpnRows
  <2>8. QED
    BY <1>1, <1>5, <2>1, <2>4, <2>5, <2>7 DEF Orderly, ReadsAlone, Swept
<1>9. CASE /\ c.kind = "delete"
           /\ \/ /\ {row \in table : row[1] = c.dest} = {} \/ c.host # (c.dest \notin Networks)
                 /\ table' = table
              \/ \E row \in table : row[1] = c.dest /\ table' = table \ {row}
  <2>1. table' \subseteq table
    BY <1>9
  <2>2. ASSUME NEW row \in table', Delete(row[1]) = c PROVE FALSE
    <3>1. c.dest = row[1] /\ c.host = (c.dest \notin Networks) /\ row \in table
      BY <2>1, <2>2 DEF Delete
    <3>2. PICK x \in table : x[1] = c.dest /\ table' = table \ {x}
      BY <1>9, <3>1
    <3>3. x = row
      BY <3>1, <3>2 DEF Orderly, OneRoute
    <3>4. QED
      BY <2>2, <3>2, <3>3
  <2>3. \A row \in table' : Pending(Delete(row[1])) => Pending(Delete(row[1]))'
    BY <1>3, <1>6, <2>1, <2>2
  <2>4. Remembered' /\ Swept'
    BY <1>1, <1>4, <2>1, <2>3 DEF Orderly, Remembered, Swept, VpnRows
  <2>5. QED
    BY <1>1, <1>4, <1>5, <2>1, <2>4 DEF Orderly, ReadsAlone, OneRoute, AddsFit
<1>10. QED
  BY <1>7, <1>8, <1>9 DEF Command

\* The end of the VPN only takes routes away.
LEMMA OrderlyDown ==
    ASSUME TypeOK, Orderly, Down
    PROVE  Orderly'
<1>1. /\ UNCHANGED <<nm, read, commands, stopped>>
      /\ table' \subseteq table /\ VpnRows' \subseteq VpnRows
  BY DEF Down, VpnRows
<1>2. PendingAdds' = PendingAdds /\ (Idle' <=> Idle) /\ Dests(table)' \subseteq Dests(table)
  BY <1>1 DEF PendingAdds, Pending, Idle, Dests
<1>3. QED
  BY <1>1, <1>2
  DEF Orderly, ReadsAlone, OneRoute, AddsFit, Remembered, Swept, Pending

LEMMA NextOInv == OInv /\ [Next]_vars => OInv'
<1> SUFFICES ASSUME OInv, [Next]_vars PROVE OInv'
  OBVIOUS
<1>1. TypeOK /\ TypeOK'
  BY NextTypes DEF OInv
<1> SUFFICES ASSUME ~overlap' PROVE Orderly'
  BY <1>1 DEF OInv
<1>2. overlap \in BOOLEAN
  BY <1>1 DEF TypeOK
<1>3. CASE \E g \in Gateways, f \in Gateways \cup {NoGw} : ServerConfig(g, f)
  BY <1>1, <1>3, OrderlyElsewhere DEF ServerConfig, OInv, TypeOK
<1>4. CASE \E fallback \in BOOLEAN : SetFallback(fallback)
  BY <1>1, <1>4, OrderlyElsewhere DEF SetFallback, OInv, TypeOK
<1>5. CASE \E endpoints \in SUBSET Endpoints : SyncRoutes(endpoints)
  <2>1. ~overlap /\ Quiet
    BY <1>2, <1>5 DEF SyncRoutes
  <2>2. QED
    BY <1>1, <1>5, <2>1, OrderlySync DEF OInv
<1>6. CASE Stop
  <2>1. ~overlap /\ Quiet
    BY <1>2, <1>6 DEF Stop
  <2>2. QED
    BY <1>1, <1>6, <2>1, OrderlyStop DEF OInv
<1>7. CASE ReadFinished
  BY <1>1, <1>7, OrderlyRead DEF ReadFinished, OInv
<1>8. CASE ReadFails \/ Netstat
  BY <1>8, OrderlyNetstat DEF ReadFails, Netstat, OInv
<1>9. CASE \E c \in Commands : Command(c)
  <2>1. PICK c \in Commands : Command(c)
    BY <1>9
  <2>2. overlap' = overlap
    BY <2>1 DEF Command
  <2>3. QED
    BY <1>1, <2>1, <2>2, OrderlyCommand DEF OInv
<1>10. CASE Down
  BY <1>1, <1>10, OrderlyDown DEF Down, OInv
<1>11. CASE UNCHANGED vars
  BY <1>11, OrderlyElsewhere DEF vars, OInv
<1>12. CASE StopUnread
  BY <1>2, <1>12, OrderlyElsewhere DEF StopUnread, OInv
<1>13. QED
  BY <1>3, <1>4, <1>5, <1>6, <1>7, <1>8, <1>9, <1>10, <1>11, <1>12 DEF Next

LEMMA OInvariance == Spec => []OInv
<1>1. Init => OInv
  BY InitTypes, InitOrderly DEF OInv
<1>2. QED
  BY <1>1, NextOInv, PTL DEF Spec

\* As long as nothing overlaps, every route that was added can be deleted by a
\* later synchronisation.
THEOREM AddedIsKnown == Spec => []RoutesAreKnown
<1>1. OInv => RoutesAreKnown
  BY IdleFacts DEF OInv, RoutesAreKnown
<1>2. QED
  BY <1>1, OInvariance, PTL

\* As long as nothing overlaps, no host is routed through the gateway of a stop
\* that could read the table.
THEOREM StopIsComplete == Spec => []StopRemovesHosts
<1>1. OInv => StopRemovesHosts
  <2> SUFFICES ASSUME OInv, ~overlap, stopped # NoGw, Idle, NEW row \in table,
                      row[1] \notin Networks, row[2] = stopped
               PROVE  FALSE
    BY DEF StopRemovesHosts
  <2>1. Pending(Delete(row[1]))
    BY DEF OInv, Orderly, Swept
  <2>2. Delete(row[1]) \in Commands
    BY DEF OInv, TypeOK, Delete, Commands
  <2>3. QED
    BY <2>1, <2>2, IdleFacts DEF OInv
<1>2. QED
  BY <1>1, OInvariance, PTL
=============================================================================
