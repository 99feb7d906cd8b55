----------------------------- MODULE PartsProofs -----------------------------
(***************************************************************************)
(* Proofs about Processes and HttpServer, for all values of the constants, *)
(* and about the composition of the parts.                                 *)
(*                                                                         *)
(* A Process that nobody but the manager has started gets its first zombie *)
(* timer when its program has ended, so no timer finds that program alive. *)
(*                                                                         *)
(* What the server keeps of a connection is the last of what it has read,  *)
(* from a request line on; and while the pieces are tidy it is the first   *)
(* tokens of one request, those before it having been handled.             *)
(***************************************************************************)
EXTENDS Parts, HttpClientProofs, SequenceTheorems, WellFoundedInduction

-----------------------------------------------------------------------------
(* Processes. *)

ProcessStates == {"Idle", "Starting", "Started", "Zombie"}

ProcessType == [listed : BOOLEAN, state : ProcessStates, program : Programs,
           zombies : 0..MaxZombies, handled : BOOLEAN]

\* The Process objects that only the manager has touched, and Process objects on
\* their way out of the list.
Fresh(p) == p.program \in {"launching", "running", "exited"} /\ ~p.handled => p.zombies = 0

Leaving(p) ==
    p.listed => \/ p.program \in {"launching", "running", "exited", "failed", "detached"}
                \/ p.zombies > 0
                \/ p.handled

GoodProcess(p) == p \in ProcessType /\ Fresh(p) /\ Leaving(p) /\ (p.listed \/ p.program = "none")

ProcessesInductive == process \in [Addresses -> ProcessType] /\ \A s \in Addresses : GoodProcess(process[s])

\* No Process at all is a good one.
LEMMA AbsentIsGood == GoodProcess(Absent)
BY ProcessesAssumption DEF GoodProcess, Fresh, Leaving, Absent, ProcessType, ProcessStates, Programs

\* A start leaves a good Process, if somebody else is known to have touched it
\* or it is new.
LEMMA StartIsGood ==
    ASSUME NEW p \in ProcessType, NEW detach \in BOOLEAN, NEW q \in StartEx(p, detach),
           p.listed,
           p.handled \/ (p.zombies = 0 /\ p.state = "Idle" /\ p.program = "none")
    PROVE  GoodProcess(q)
<1>1. CASE p.state = "Idle" /\ p.program = "none"
  <2>1. q \in Launched(p, detach)
    BY <1>1 DEF StartEx
  <2>2. PICK r \in {"detached", "launching", "failed"} :
            q = [p EXCEPT !.state = "Starting", !.program = r]
    BY <2>1 DEF Launched
  <2>3. QED
    BY <2>2 DEF GoodProcess, Fresh, Leaving, ProcessType, ProcessStates, Programs
<1>2. CASE ~(p.state = "Idle" /\ p.program = "none")
  <2>1. q = [p EXCEPT !.program = "none"] /\ p.handled
    BY <1>2 DEF StartEx
  <2>2. QED
    BY <2>1 DEF GoodProcess, Fresh, Leaving, ProcessType, ProcessStates, Programs
<1>3. QED
  BY <1>1, <1>2

\* Process::startEx keeps a Process in the list.
LEMMA StartedIsListed ==
    ASSUME NEW p \in ProcessType, NEW detach \in BOOLEAN, NEW q \in StartEx(p, detach), p.listed
    PROVE  q \in ProcessType /\ q.listed
<1>1. CASE p.state = "Idle" /\ p.program = "none"
  <2>1. q \in Launched(p, detach)
    BY <1>1 DEF StartEx
  <2>2. PICK r \in {"detached", "launching", "failed"} :
            q = [p EXCEPT !.state = "Starting", !.program = r]
    BY <2>1 DEF Launched
  <2>3. QED
    BY <2>2 DEF ProcessType, ProcessStates, Programs
<1>2. CASE ~(p.state = "Idle" /\ p.program = "none")
  <2>1. q = [p EXCEPT !.program = "none"]
    BY <1>2 DEF StartEx
  <2>2. QED
    BY <2>1 DEF ProcessType, Programs
<1>3. QED
  BY <1>1, <1>2

\* Whatever happens to one Process, the others stay good.
LEMMA OneProcess ==
    ASSUME ProcessesInductive, NEW s \in Addresses, NEW p,
           GoodProcess(p), process' = [process EXCEPT ![s] = p]
    PROVE  ProcessesInductive'
<1>1. p \in ProcessType
  BY DEF GoodProcess
<1>2. QED
  BY <1>1 DEF ProcessesInductive

\* Every step keeps all Process objects good.
LEMMA ProcessesStep ==
    ASSUME ProcessesInductive, [ProcessesNext]_processVars
    PROVE  ProcessesInductive'
<1>1. CASE Shutdown
  BY <1>1, AbsentIsGood DEF Shutdown, ProcessesInductive, GoodProcess
<1>2. ASSUME NEW s \in Addresses, NEW detach \in BOOLEAN, StartNew(s, detach)
      PROVE  ProcessesInductive'
  <2>1. PICK p \in StartEx([Absent EXCEPT !.listed = TRUE], detach) :
            process' = [process EXCEPT ![s] = p]
    BY <1>2 DEF StartNew
  <2>2. [Absent EXCEPT !.listed = TRUE] \in ProcessType
    BY AbsentIsGood DEF GoodProcess, ProcessType
  <2>3. GoodProcess(p)
    BY <2>2, StartIsGood DEF Absent
  <2>4. QED
    BY <2>1, <2>3, OneProcess
<1>3. ASSUME NEW s \in Addresses, NEW detach \in BOOLEAN, StartAgain(s, detach)
      PROVE  ProcessesInductive'
  <2>1. PICK p \in StartEx(process[s], detach) :
            process' = [process EXCEPT ![s] = [p EXCEPT !.handled = TRUE]]
    BY <1>3 DEF StartAgain
  <2>2. process[s] \in ProcessType /\ process[s].listed
    BY <1>3 DEF ProcessesInductive, StartAgain
  <2>3. p \in ProcessType /\ p.listed
    BY <2>2, StartedIsListed
  <2>4. GoodProcess([p EXCEPT !.handled = TRUE])
    BY <2>3 DEF GoodProcess, Fresh, Leaving, ProcessType
  <2>5. QED
    BY <2>1, <2>4, OneProcess
<1>4. ASSUME NEW s \in Addresses, StopOne(s)
      PROVE  ProcessesInductive'
  <2>1. process[s] \in ProcessType
    BY DEF ProcessesInductive
  <2>2. GoodProcess([process[s] EXCEPT !.program = "none", !.handled = TRUE])
    BY <2>1 DEF GoodProcess, Fresh, Leaving, ProcessType, Programs
  <2>3. QED
    BY <1>4, <2>2, OneProcess DEF StopOne
<1>5. ASSUME NEW s \in Addresses,
             ProcessStarted(s) \/ ProcessError(s) \/ Exits(s)
      PROVE  ProcessesInductive'
  <2>1. GoodProcess(process[s]) /\ process[s] \in ProcessType
    BY DEF ProcessesInductive
  <2>2. PICK state \in ProcessStates, program \in {"running", "failed", "exited"} :
            process' = [process EXCEPT ![s].program = program, ![s].state = state]
    BY <1>5, <2>1 DEF ProcessStarted, ProcessError, Exits, ProcessStates, ProcessType, ProcessesInductive
  <2>3. GoodProcess([process[s] EXCEPT !.program = program, !.state = state])
    BY <1>5, <2>1 DEF GoodProcess, Fresh, Leaving, ProcessType, Programs, ProcessStarted, ProcessError, Exits
  <2>4. QED
    BY <2>2, <2>3, OneProcess
<1>6. ASSUME NEW s \in Addresses, NEW crashed \in BOOLEAN, ProcessFinished(s, crashed)
      PROVE  ProcessesInductive'
  <2>1. process[s] \in ProcessType /\ process[s].listed
    BY <1>6 DEF ProcessesInductive, GoodProcess, ProcessFinished
  <2> DEFINE p == [process[s] EXCEPT !.program = "over", !.state = "Idle", !.zombies = @ + 1]
  <2>4. process[s].zombies + 1 \in 1..MaxZombies
    BY <1>6, <2>1, ProcessesAssumption DEF ProcessFinished, ProcessType
  <2>2. GoodProcess(p)
    <3>1. p \in ProcessType
      <4>1. ASSUME NEW n \in 0..MaxZombies
            PROVE  [process[s] EXCEPT !.program = "over", !.state = "Idle", !.zombies = n] \in ProcessType
        BY <2>1 DEF ProcessType, ProcessStates, Programs
      <4>2. process[s].zombies + 1 \in 0..MaxZombies
        BY <2>4, ProcessesAssumption
      <4>3. QED
        BY <4>1, <4>2
    <3>2. p.program = "over" /\ p.zombies > 0
      BY <2>1, <2>4 DEF ProcessType
    <3>4. p.listed
      BY <2>1 DEF ProcessType
    <3>3. QED
      BY <3>1, <3>2, <3>4 DEF GoodProcess, Fresh, Leaving
  <2>3. QED
    BY <1>6, <2>2, OneProcess DEF ProcessFinished
<1>7. ASSUME NEW s \in Addresses, ProcessZombie(s)
      PROVE  ProcessesInductive'
  BY <1>7, AbsentIsGood, OneProcess DEF ProcessZombie
<1>8. CASE UNCHANGED processVars
  BY <1>8 DEF processVars, ProcessesInductive
<1>9. QED
  BY <1>1, <1>2, <1>3, <1>4, <1>5, <1>6, <1>7, <1>8 DEF ProcessesNext

\* At any time all Process objects are good.
LEMMA ProcessesStart == ProcessesInit => ProcessesInductive
BY AbsentIsGood DEF ProcessesInit, ProcessesInductive, GoodProcess

LEMMA ProcessesSafe == ProcessesSpec => []ProcessesInductive
BY ProcessesStart, ProcessesStep, PTL DEF ProcessesSpec

LEMMA ProcessesAreKnown == ProcessesInductive => ProcessesTypeOK /\ NothingElseStays
BY DEF ProcessesInductive, GoodProcess, Leaving, ProcessesTypeOK, NothingElseStays, Alive,
       ProcessType, ProcessStates

\* Whatever is in the manager's list leaves it, but for programs that could not
\* be started or are detached, and Process objects that somebody else used.
THEOREM OnlyThreeKindsStay == ProcessesSpec => [](ProcessesTypeOK /\ NothingElseStays)
BY ProcessesAreKnown, ProcessesSafe, PTL

\* The manager ends no program that it alone has started, except when it ends.
THEOREM ProgramsAreSafe == ProcessesSpec => NoProgramIsKilled
<1> DEFINE Ends(s) == Alive(s) /\ ~process[s].handled /\ ~process'[s].listed
<1>1. ASSUME ProcessesInductive, ProcessesNext, NEW s \in Addresses, Ends(s)
      PROVE  Shutdown
  <2>1. process[s] \in ProcessType /\ process[s].zombies = 0 /\ process[s].listed
    BY <1>1 DEF ProcessesInductive, GoodProcess, Fresh, Alive
  <2>2. SUFFICES ASSUME NEW t \in Addresses,
                        \/ \E detach \in BOOLEAN : StartNew(t, detach) \/ StartAgain(t, detach)
                        \/ StopOne(t)
                        \/ ProcessStarted(t) \/ ProcessError(t) \/ Exits(t)
                        \/ \E crashed \in BOOLEAN : ProcessFinished(t, crashed)
                        \/ ProcessZombie(t)
                 PROVE  FALSE
    BY <1>1 DEF ProcessesNext
  <2>3. process'[s].listed
    <3>1. CASE t # s
      <4>1. ASSUME NEW detach \in BOOLEAN, StartNew(t, detach) \/ StartAgain(t, detach)
            PROVE  process'[s] = process[s]
        BY <1>1, <3>1, <4>1 DEF StartNew, StartAgain, ProcessesInductive
      <4>2. ASSUME StopOne(t) PROVE process'[s] = process[s]
        BY <1>1, <3>1, <4>2 DEF StopOne, ProcessesInductive
      <4>3. ASSUME ProcessStarted(t) PROVE process'[s] = process[s]
        BY <1>1, <3>1, <4>3 DEF ProcessStarted, ProcessesInductive
      <4>4. ASSUME ProcessError(t) PROVE process'[s] = process[s]
        BY <1>1, <3>1, <4>4 DEF ProcessError, ProcessesInductive
      <4>5. ASSUME Exits(t) PROVE process'[s] = process[s]
        BY <1>1, <3>1, <4>5 DEF Exits, ProcessesInductive
      <4>6. ASSUME NEW crashed \in BOOLEAN, ProcessFinished(t, crashed)
            PROVE  process'[s] = process[s]
        BY <1>1, <3>1, <4>6 DEF ProcessFinished, ProcessesInductive
      <4>7. ASSUME ProcessZombie(t) PROVE process'[s] = process[s]
        BY <1>1, <3>1, <4>7 DEF ProcessZombie, ProcessesInductive
      <4>8. process'[s] = process[s]
        BY <2>2, <4>1, <4>2, <4>3, <4>4, <4>5, <4>6, <4>7
      <4>9. QED
        BY <2>1, <4>8
    <3>2. ASSUME t = s, NEW detach \in BOOLEAN, StartNew(t, detach) \/ StartAgain(t, detach)
          PROVE  process'[s].listed
      <4>1. PICK p \in StartEx(process[s], detach) :
                process' = [process EXCEPT ![s] = [p EXCEPT !.handled = TRUE]]
        BY <2>1, <3>2 DEF StartNew, StartAgain
      <4>2. p \in ProcessType /\ p.listed
        BY <2>1, StartedIsListed
      <4>3. QED
        BY <1>1, <4>1, <4>2 DEF ProcessType, ProcessesInductive
    <3>3. CASE t = s /\ ~\E detach \in BOOLEAN : StartNew(t, detach) \/ StartAgain(t, detach)
      BY <1>1, <2>1, <2>2, <3>3
      DEF StopOne, ProcessStarted, ProcessError, Exits, ProcessFinished, ProcessZombie,
          ProcessType, ProcessesInductive
    <3>4. QED
      BY <3>1, <3>2, <3>3
  <2>4. QED
    BY <1>1, <2>3
<1>2. ProcessesInductive /\ [ProcessesNext]_processVars =>
        [\A s \in Addresses : Ends(s) => Shutdown]_processVars
  BY <1>1
<1>3. QED
  BY <1>2, ProcessesSafe, PTL DEF ProcessesSpec, NoProgramIsKilled

-----------------------------------------------------------------------------
(* Numbers. *)

\* A set of natural numbers has a least element.
LEMMA LeastNumber ==
    ASSUME NEW T, T \subseteq Nat, T # {}
    PROVE  \E x \in T : \A y \in T : x <= y
<1> DEFINE Below == OpToRel(<, Nat)
<1>1. IsWellFoundedOn(Below, Nat)
  BY NatLessThanWellFounded
<1>2. \A x, y \in Nat : y < x => <<y, x>> \in Below
  BY DEF OpToRel
<1> HIDE DEF Below
<1>3. PICK x \in T : \A y \in T : ~ (<<y, x>> \in Below)
  BY <1>1, WFMin
<1>4. ASSUME NEW y \in T
      PROVE  x <= y
  <2>1. x \in Nat /\ y \in Nat /\ ~ (<<y, x>> \in Below)
    BY <1>3
  <2>2. ~ (y < x)
    BY <2>1, <1>2
  <2>3. QED
    BY <2>1, <2>2
<1>5. QED
  BY <1>4

\* A set with 0 and, below n, every successor has all numbers up to n.
LEMMA AllUpTo ==
    ASSUME NEW n \in Nat, NEW T, 0 \in T,
           \A k \in 0..n - 1 : k \in T => k + 1 \in T
    PROVE  \A k \in 0..n : k \in T
<1>1. SUFFICES ASSUME (0..n) \ T # {}
               PROVE  FALSE
  OBVIOUS
<1>2. PICK k \in (0..n) \ T : \A j \in (0..n) \ T : k <= j
  <2> DEFINE U == (0..n) \ T
  <2>1. U \subseteq Nat /\ U # {}
    BY <1>1
  <2> HIDE DEF U
  <2>2. \E x \in U : \A y \in U : x <= y
    BY <2>1, LeastNumber
  <2>3. QED
    BY <2>2 DEF U
<1>3. k \in 1..n
  BY <1>2
<1>4. k - 1 \in 0..n - 1 /\ k - 1 \in T
  BY <1>2, <1>3
<1>5. (k - 1) + 1 \in T
  BY <1>4
<1>6. QED
  BY <1>2, <1>3, <1>5

\* Of some numbers up to n, Min is the least and Max the greatest.
LEMMA Extremes ==
    ASSUME NEW n \in Nat, NEW T, T \subseteq 1..n, T # {}
    PROVE  /\ Min(T) \in T /\ \A y \in T : Min(T) <= y
           /\ Max(T) \in T /\ \A y \in T : Max(T) >= y
<1>1. \E x \in T : \A y \in T : x <= y
  <2>1. T \subseteq Nat
    OBVIOUS
  <2>2. QED
    BY <2>1, LeastNumber
<1>2. \E x \in T : \A y \in T : x >= y
  <2> DEFINE U == {n - x : x \in T}
  <2>1. U \subseteq Nat /\ U # {}
    <3>1. \A x \in T : n - x \in Nat
      OBVIOUS
    <3>2. QED
      BY <3>1
  <2>2. PICK u \in U : \A v \in U : u <= v
    <3> HIDE DEF U
    <3> QED BY <2>1, LeastNumber
  <2>3. PICK x \in T : u = n - x
    OBVIOUS
  <2>4. ASSUME NEW y \in T
        PROVE  x >= y
    <3>1. n - y \in U /\ x \in 1..n /\ y \in 1..n
      OBVIOUS
    <3>2. n - x <= n - y
      BY <2>2, <2>3, <3>1
    <3>3. QED
      BY <3>1, <3>2
  <2>5. QED
    BY <2>4
<1>3. QED
  BY <1>1, <1>2 DEF Min, Max

-----------------------------------------------------------------------------
(* Sums. *)

\* What the sums of the first k lengths are.
AddsUpTo(f, lengths, k) ==
    /\ f \in [0..k -> Nat]
    /\ f[0] = 0
    /\ \A j \in 1..k : f[j] = f[j - 1] + lengths[j]

Adds(f, lengths) == AddsUpTo(f, lengths, Len(lengths))

\* There are sums.
LEMMA SumsExist ==
    ASSUME NEW lengths \in Seq(Nat)
    PROVE  \E f : Adds(f, lengths)
<1> DEFINE n == Len(lengths)
           T == {k \in 0..n : \E f : AddsUpTo(f, lengths, k)}
<1>0. n \in Nat /\ \A k \in 1..n : lengths[k] \in Nat
  OBVIOUS
<1>1. 0 \in T
  <2>1. AddsUpTo([k \in 0..0 |-> 0], lengths, 0)
    BY DEF AddsUpTo
  <2>2. QED
    BY <2>1, <1>0
<1>2. ASSUME NEW k \in 0..n - 1, k \in T
      PROVE  k + 1 \in T
  <2>1. PICK f : AddsUpTo(f, lengths, k)
    BY <1>2
  <2>0. k + 1 \in 0..n
    BY <1>0
  <2> DEFINE g == [j \in 0..k + 1 |-> IF j = k + 1 THEN f[k] + lengths[k + 1] ELSE f[j]]
  <2>2. k \in Nat /\ k + 1 \in 1..n
    BY <1>0
  <2>3. lengths[k + 1] \in Nat /\ f[k] \in Nat
    BY <2>1, <2>2, <1>0 DEF AddsUpTo
  <2>4. g \in [0..k + 1 -> Nat]
    BY <2>1, <2>2, <2>3 DEF AddsUpTo
  <2>5. g[0] = 0
    BY <2>1, <2>2 DEF AddsUpTo
  <2>6. ASSUME NEW j \in 1..k + 1
        PROVE  g[j] = g[j - 1] + lengths[j]
    <3>1. CASE j = k + 1
      <4>1. g[j] = f[k] + lengths[k + 1]
        BY <2>2, <3>1
      <4>2. j - 1 = k /\ g[k] = f[k]
        BY <2>2, <3>1
      <4>3. QED
        BY <3>1, <4>1, <4>2
    <3>2. CASE j \in 1..k
      <4>1. g[j] = f[j] /\ g[j - 1] = f[j - 1]
        BY <2>2, <3>2
      <4>2. f[j] = f[j - 1] + lengths[j]
        BY <2>1, <3>2 DEF AddsUpTo
      <4>3. QED
        BY <4>1, <4>2
    <3>3. QED
      BY <2>2, <3>1, <3>2
  <2>7. AddsUpTo(g, lengths, k + 1)
    BY <2>4, <2>5, <2>6 DEF AddsUpTo
  <2>8. \E h : AddsUpTo(h, lengths, k + 1)
    BY <2>7
  <2>9. QED
    BY <2>0, <2>8
<1>3. n \in T
  <2> HIDE DEF T
  <2>1. \A k \in 0..n : k \in T
    BY <1>0, <1>1, <1>2, AllUpTo
  <2>2. QED
    BY <2>1, <1>0
<1>4. QED
  BY <1>3 DEF Adds, AddsUpTo

\* Two functions that add the same lengths are the same.
LEMMA SumsAreUnique ==
    ASSUME NEW lengths, Len(lengths) \in Nat, NEW f, NEW g, Adds(f, lengths), Adds(g, lengths)
    PROVE  f = g
<1> DEFINE T == {k \in 0..Len(lengths) : f[k] = g[k]}
<1>1. 0 \in T
  BY DEF Adds, AddsUpTo
<1>2. ASSUME NEW k \in 0..Len(lengths) - 1, k \in T
      PROVE  k + 1 \in T
  <2>1. k + 1 \in 1..Len(lengths) /\ (k + 1) - 1 = k
    OBVIOUS
  <2>2. f[k + 1] = f[k] + lengths[k + 1] /\ g[k + 1] = g[k] + lengths[k + 1]
    BY <2>1 DEF Adds, AddsUpTo
  <2>3. QED
    BY <1>2, <2>1, <2>2
<1>3. \A k \in 0..Len(lengths) : k \in T
  <2> HIDE DEF T
  <2> QED BY <1>1, <1>2, AllUpTo
<1>4. QED
  BY <1>3 DEF Adds, AddsUpTo

\* Sums adds.
LEMMA SumsAdd ==
    ASSUME NEW lengths \in Seq(Nat)
    PROVE  Adds(Sums(lengths), lengths)
<1> DEFINE Is(f) == f = [k \in 0..Len(lengths) |-> IF k = 0 THEN 0 ELSE f[k - 1] + lengths[k]]
<1>1. Sums(lengths) = CHOOSE f : Is(f)
  BY DEF Sums
<1>2. PICK f : Adds(f, lengths)
  BY SumsExist
<1>3. Is(f)
  BY <1>2 DEF Adds, AddsUpTo
<1>4. Is(CHOOSE g : Is(g))
  <2> HIDE DEF Is
  <2> QED BY <1>3
<1>5. Is(Sums(lengths))
  BY <1>1, <1>4
<1> DEFINE g == Sums(lengths)
<1>6. g = [k \in 0..Len(lengths) |-> IF k = 0 THEN 0 ELSE g[k - 1] + lengths[k]]
  BY <1>5
<1> HIDE DEF g
<1>7. Len(lengths) \in Nat /\ \A k \in 1..Len(lengths) : lengths[k] \in Nat
  OBVIOUS
<1>8. DOMAIN g = 0..Len(lengths) /\ g[0] = 0
  BY <1>6, <1>7
<1>9. \A k \in 1..Len(lengths) : g[k] = g[k - 1] + lengths[k]
  BY <1>6, <1>7
<1> DEFINE T == {k \in 0..Len(lengths) : g[k] \in Nat}
<1>10. \A k \in 0..Len(lengths) : k \in T
  <2>1. 0 \in T
    BY <1>8, <1>7
  <2>2. ASSUME NEW k \in 0..Len(lengths) - 1, k \in T
        PROVE  k + 1 \in T
    <3>1. k + 1 \in 1..Len(lengths) /\ (k + 1) - 1 = k
      BY <1>7
    <3>2. g[k + 1] = g[k] + lengths[k + 1] /\ lengths[k + 1] \in Nat /\ g[k] \in Nat
      BY <1>7, <1>9, <2>2, <3>1
    <3>3. QED
      BY <3>1, <3>2
  <2> HIDE DEF T
  <2> QED BY <2>1, <2>2, <1>7, AllUpTo
<1>11. g \in [0..Len(lengths) -> Nat]
  BY <1>6, <1>10
<1>12. QED
  BY <1>8, <1>9, <1>11 DEF Adds, AddsUpTo, g

\* The sums of lengths that are not zero grow.
LEMMA SumsGrow ==
    ASSUME NEW lengths \in Seq(Nat \ {0}), NEW a \in 0..Len(lengths), NEW b \in 0..Len(lengths), a < b
    PROVE  Sums(lengths)[a] < Sums(lengths)[b]
<1> DEFINE f == Sums(lengths)
           n == Len(lengths)
           T == {k \in 0..n : a < k => f[a] < f[k]}
<1>1. AddsUpTo(f, lengths, n) /\ n \in Nat /\ \A k \in 1..n : lengths[k] \in Nat \ {0}
  <2>1. lengths \in Seq(Nat)
    OBVIOUS
  <2>2. QED
    BY <2>1, SumsAdd DEF Adds
<1> HIDE DEF f, n
<1>2. 0 \in T
  BY <1>1 DEF n
<1>3. ASSUME NEW k \in 0..n - 1, k \in T
      PROVE  k + 1 \in T
  <2>1. k + 1 \in 1..n /\ (k + 1) - 1 = k /\ k \in 0..n
    BY <1>1
  <2>2. f[k + 1] = f[k] + lengths[k + 1] /\ lengths[k + 1] \in Nat \ {0}
    BY <1>1, <2>1 DEF AddsUpTo
  <2>3. f[k] \in Nat /\ f[a] \in Nat
    BY <1>1, <2>1 DEF AddsUpTo, n
  <2>4. f[k] < f[k + 1]
    BY <2>2, <2>3
  <2>5. a < k + 1 => f[a] < f[k + 1]
    <3>1. CASE a = k
      BY <2>4, <3>1
    <3>2. CASE a < k
      <4>1. f[a] < f[k]
        BY <1>3, <3>2
      <4>2. f[k + 1] \in Nat
        BY <2>2, <2>3
      <4>3. QED
        BY <4>1, <4>2, <2>3, <2>4
    <3>3. CASE a > k
      BY <3>3, <2>1
    <3>4. QED
      BY <3>1, <3>2, <3>3, <2>1
  <2>6. QED
    BY <2>1, <2>5
<1>4. b \in T
  <2> HIDE DEF T
  <2>1. \A k \in 0..n : k \in T
    BY <1>1, <1>2, <1>3, AllUpTo
  <2>2. QED
    BY <2>1 DEF n
<1>5. QED
  BY <1>4 DEF f

\* The sum of a part is the difference of two sums.
LEMMA SumOfPart ==
    ASSUME NEW lengths \in Seq(Nat \ {0}), NEW a \in 0..Len(lengths), NEW b \in a..Len(lengths)
    PROVE  /\ Sum(SubSeq(lengths, a + 1, b)) = Sums(lengths)[b] - Sums(lengths)[a]
           /\ Sums(lengths)[a] \in Nat /\ Sums(lengths)[b] \in Nat
           /\ Sums(lengths)[a] <= Sums(lengths)[b]
<1> DEFINE f == Sums(lengths)
           n == Len(lengths)
           section == SubSeq(lengths, a + 1, b)
           g == [k \in 0..b - a |-> f[a + k] - f[a]]
<1>1. AddsUpTo(f, lengths, n) /\ n \in Nat /\ \A k \in 1..n : lengths[k] \in Nat \ {0}
  <2>1. lengths \in Seq(Nat)
    OBVIOUS
  <2>2. QED
    BY <2>1, SumsAdd DEF Adds
<1>2. a \in Int /\ b \in Int /\ 0 <= a /\ a <= b /\ b <= n
  BY <1>1
<1>3. /\ section \in Seq(Nat) /\ Len(section) = b - a
      /\ \A k \in 1..b - a : section[k] = lengths[a + k]
  <2>1. \A i \in a + 1..b : lengths[i] \in Nat
    BY <1>1, <1>2
  <2>2. a + 1 \in Int
    BY <1>2
  <2>3. /\ section \in Seq(Nat)
        /\ Len(section) = IF a + 1 <= b THEN b - (a + 1) + 1 ELSE 0
        /\ \A i \in 1..b - (a + 1) + 1 : section[i] = lengths[(a + 1) + i - 1]
    BY <1>2, <2>1, <2>2, SubSeqProperties
  <2> HIDE DEF section
  <2>4. Len(section) = b - a
    BY <1>2, <2>3
  <2>5. ASSUME NEW k \in 1..b - a
        PROVE  section[k] = lengths[a + k]
    <3>1. k \in 1..b - (a + 1) + 1 /\ (a + 1) + k - 1 = a + k
      BY <1>2
    <3>2. QED
      BY <2>3, <3>1
  <2>6. QED
    BY <2>3, <2>4, <2>5
<1> HIDE DEF f, n, section
<1>4. \A k \in 0..n : f[k] \in Nat
  BY <1>1 DEF AddsUpTo
<1>5. \A k \in a..n : f[a] <= f[k]
  <2>1. ASSUME NEW k \in a..n
        PROVE  f[a] <= f[k]
    <3>1. CASE k = a
      BY <3>1, <1>4, <1>2
    <3>2. CASE a < k
      <4>1. k \in 0..Len(lengths) /\ a \in 0..Len(lengths)
        BY <1>1, <1>2 DEF n
      <4>2. f[a] < f[k]
        BY <4>1, <3>2, SumsGrow DEF f
      <4>3. QED
        BY <4>2, <4>1, <1>4 DEF n
    <3>3. QED
      BY <3>1, <3>2, <1>2
  <2>2. QED
    BY <2>1
<1>6. Adds(g, section)
  <2>1. g \in [0..b - a -> Nat]
    <3>1. ASSUME NEW k \in 0..b - a
          PROVE  f[a + k] - f[a] \in Nat
      <4>1. a + k \in a..n /\ a + k \in 0..n /\ a \in 0..n
        BY <1>1, <1>2
      <4>2. QED
        BY <4>1, <1>4, <1>5
    <3>2. QED
      BY <3>1
  <2>2. g[0] = 0
    <3>1. 0 \in 0..b - a /\ a + 0 = a /\ f[a] \in Nat
      BY <1>1, <1>2, <1>4
    <3>2. QED
      BY <3>1
  <2>3. ASSUME NEW k \in 1..b - a
        PROVE  g[k] = g[k - 1] + section[k]
    <3>1. /\ k \in 0..b - a /\ k - 1 \in 0..b - a /\ a + k \in 1..n
          /\ a + (k - 1) = (a + k) - 1 /\ (a + k) - 1 \in 0..n /\ a + k \in 0..n /\ a \in 0..n
      BY <1>1, <1>2
    <3>2. g[k] = f[a + k] - f[a] /\ g[k - 1] = f[(a + k) - 1] - f[a]
      BY <3>1
    <3>3. f[a + k] = f[(a + k) - 1] + lengths[a + k]
      BY <1>1, <3>1 DEF AddsUpTo
    <3>4. f[a + k] \in Nat /\ f[(a + k) - 1] \in Nat /\ f[a] \in Nat /\ lengths[a + k] \in Nat
      BY <1>1, <1>4, <3>1
    <3>5. section[k] = lengths[a + k]
      BY <1>3
    <3> HIDE DEF g
    <3>6. QED
      BY <3>2, <3>3, <3>4, <3>5
  <2> HIDE DEF g
  <2>4. QED
    BY <1>3, <2>1, <2>2, <2>3 DEF Adds, AddsUpTo
<1>7. Sums(section) = g
  <2> HIDE DEF g
  <2>1. Adds(Sums(section), section) /\ Len(section) \in Nat
    BY <1>3, SumsAdd
  <2>2. QED
    BY <2>1, <1>6, SumsAreUnique
<1>8. Sum(section) = f[b] - f[a]
  <2>1. b - a \in 0..b - a /\ a + (b - a) = b
    BY <1>2
  <2>2. g[b - a] = f[b] - f[a]
    BY <2>1
  <2>3. QED
    BY <1>3, <1>7, <2>2 DEF Sum
<1>9. QED
  BY <1>2, <1>4, <1>5, <1>8 DEF f, section, n

-----------------------------------------------------------------------------
(* Tokens of one request. *)

TokenKinds == {"line", "length", "end", "content"}
TokenType == [of : Nat, kind : TokenKinds, size : Nat \ {0}]

Lengths == Seq(Nat \ {0})
Sizes(tokens) == [i \in DOMAIN tokens |-> tokens[i].size]

\* The tokens of the header of a request and their size.
HeaderTokens(shape) == IF shape = <<>> THEN 2 ELSE 3
HeaderBytes(shape) == IF shape = <<>> THEN LineSize + EndSize ELSE LineSize + LineSize + EndSize

\* Bytes of a part of some tokens.
LEMMA BytesOfPart ==
    ASSUME NEW tokens \in Seq(TokenType), NEW a \in 0..Len(tokens), NEW b \in a..Len(tokens)
    PROVE  Bytes(SubSeq(tokens, a + 1, b)) = Sums(Sizes(tokens))[b] - Sums(Sizes(tokens))[a]
<1> DEFINE section == SubSeq(tokens, a + 1, b)
<1>1. Len(tokens) \in Nat /\ DOMAIN tokens = 1..Len(tokens)
      /\ \A i \in 1..Len(tokens) : tokens[i] \in TokenType
  OBVIOUS
<1>2. a \in Int /\ b \in Int /\ 0 <= a /\ a <= b /\ b <= Len(tokens)
  BY <1>1
<1>3. Sizes(tokens) \in Lengths /\ Len(Sizes(tokens)) = Len(tokens)
  <2>1. \A i \in 1..Len(tokens) : tokens[i].size \in Nat \ {0}
    BY <1>1 DEF TokenType
  <2>2. Sizes(tokens) = [i \in 1..Len(tokens) |-> tokens[i].size]
    BY <1>1 DEF Sizes
  <2>3. QED
    BY <1>1, <2>1, <2>2 DEF Lengths
<1>4. Len(section) = b - a /\ DOMAIN section = 1..b - a /\ \A k \in 1..b - a : section[k] = tokens[a + k]
  <2>1. \A i \in a + 1..b : tokens[i] \in TokenType
    BY <1>1, <1>2
  <2>2. a + 1 \in Int
    BY <1>2
  <2>3. /\ section \in Seq(TokenType)
        /\ Len(section) = IF a + 1 <= b THEN b - (a + 1) + 1 ELSE 0
        /\ \A i \in 1..b - (a + 1) + 1 : section[i] = tokens[(a + 1) + i - 1]
    BY <1>2, <2>1, <2>2, SubSeqProperties
  <2> HIDE DEF section
  <2>4. Len(section) = b - a
    BY <1>2, <2>3
  <2>5. ASSUME NEW k \in 1..b - a
        PROVE  section[k] = tokens[a + k]
    <3>1. k \in 1..b - (a + 1) + 1 /\ (a + 1) + k - 1 = a + k
      BY <1>2
    <3>2. QED
      BY <2>3, <3>1
  <2>6. DOMAIN section = 1..Len(section)
    BY <2>3
  <2>7. QED
    BY <2>4, <2>5, <2>6
<1>5. [i \in DOMAIN section |-> section[i].size] = SubSeq(Sizes(tokens), a + 1, b)
  <2> DEFINE s == SubSeq(Sizes(tokens), a + 1, b)
             t == [i \in DOMAIN section |-> section[i].size]
  <2>1. s = [k \in 1..b - a |-> Sizes(tokens)[a + k]]
    <3>1. s = [k \in 1..(b - (a + 1)) + 1 |-> Sizes(tokens)[k + (a + 1) - 1]]
      BY <1>2
    <3>2. (b - (a + 1)) + 1 = b - a /\ \A k \in 1..b - a : k + (a + 1) - 1 = a + k
      BY <1>2
    <3>3. QED
      BY <3>1, <3>2
  <2>2. \A k \in 1..b - a : Sizes(tokens)[a + k] = tokens[a + k].size
    <3>1. \A k \in 1..b - a : a + k \in 1..Len(tokens)
      BY <1>1, <1>2
    <3>2. QED
      BY <3>1, <1>1 DEF Sizes
  <2>3. t = [k \in 1..b - a |-> tokens[a + k].size]
    <3> HIDE DEF section
    <3>1. QED BY <1>4
  <2>4. QED
    <3> HIDE DEF s, t
    <3>1. s = t
      BY <2>1, <2>2, <2>3
    <3>2. QED
      BY <3>1 DEF s, t
<1>6. Sum(SubSeq(Sizes(tokens), a + 1, b)) = Sums(Sizes(tokens))[b] - Sums(Sizes(tokens))[a]
  BY <1>3, SumOfPart DEF Lengths
<1>7. QED
  BY <1>5, <1>6 DEF Bytes

\* Headers put together line by line.
LEMMA Headers ==
    ASSUME NEW S, NEW a \in S, NEW b \in S, NEW c \in S
    PROVE  /\ <<a>> \o <<>> \o <<b>> = <<a, b>>
           /\ <<a>> \o <<b>> \o <<c>> = <<a, b, c>>
<1>1. <<a>> \in Seq(S) /\ <<b>> \in Seq(S) /\ <<c>> \in Seq(S)
  OBVIOUS
<1>2. <<a>> \o <<>> = <<a>>
  BY <1>1, ConcatEmptySeq
<1> DEFINE ab == <<a>> \o <<b>>
           abc == ab \o <<c>>
           s == <<a, b>>
           t == <<a, b, c>>
<1>3. ab \in Seq(S) /\ Len(ab) = 2 /\ ab[1] = a /\ ab[2] = b
  OBVIOUS
<1>4. s \in Seq(S) /\ Len(s) = 2 /\ s[1] = a /\ s[2] = b
  OBVIOUS
<1>5. t \in Seq(S) /\ Len(t) = 3 /\ t[1] = a /\ t[2] = b /\ t[3] = c
  OBVIOUS
<1> HIDE DEF s, t
<1>6. ab = s
  <2> HIDE DEF ab
  <2>1. \A k \in 1..Len(ab) : ab[k] = s[k]
    BY <1>3, <1>4
  <2>2. QED
    BY <1>3, <1>4, <2>1, SeqEqual
<1>7. abc \in Seq(S) /\ Len(abc) = 3 /\ abc[1] = a /\ abc[2] = b /\ abc[3] = c
  <2> DEFINE u == <<c>>
  <2>1. u \in Seq(S) /\ Len(u) = 1 /\ u[1] = c
    OBVIOUS
  <2> HIDE DEF ab, u
  <2>2. QED
    BY <1>3, <2>1, ConcatProperties DEF u
<1>8. abc = t
  <2> HIDE DEF abc
  <2>1. \A k \in 1..Len(abc) : abc[k] = t[k]
    BY <1>5, <1>7
  <2>2. QED
    BY <1>5, <1>7, <2>1, SeqEqual
<1>9. QED
  BY <1>2, <1>6, <1>8 DEF s, t

\* What the tokens of a request are: the header first, then the content.
LEMMA TokensOfRequest ==
    ASSUME NEW i \in Nat, NEW shape \in Lengths
    PROVE  LET T == Tokens(i, shape)
               h == HeaderTokens(shape)
           IN  /\ T \in Seq(TokenType)
               /\ Len(T) = h + Len(shape)
               /\ \A k \in 1..Len(T) : T[k].of = i
               /\ T[1].kind = "line" /\ T[h].kind = "end"
               /\ \A k \in 2..Len(T) : T[k].kind # "line"
               /\ \A k \in 1..h - 1 : T[k].kind # "end"
               /\ \A k \in h + 1..Len(T) : T[k].kind = "content"
               /\ \A k \in 1..h : T[k].kind # "content"
               /\ \A k \in 1..Len(T) : T[k].kind = "length" <=> k = 2 /\ shape # <<>>
               /\ T[1].size = LineSize /\ T[h].size = EndSize
               /\ shape # <<>> => T[2].size = LineSize
               /\ \A j \in 1..Len(shape) : T[h + j].size = shape[j]
<1> DEFINE T == Tokens(i, shape)
           h == HeaderTokens(shape)
           content == [j \in DOMAIN shape |-> Token(i, "content", shape[j])]
           n == Len(shape)
<1>1. /\ n \in Nat /\ DOMAIN shape = 1..n
      /\ \A j \in 1..n : shape[j] \in Nat \ {0}
  BY DEF Lengths
<1>2. /\ content \in Seq(TokenType) /\ Len(content) = n
      /\ \A j \in 1..n : content[j] = Token(i, "content", shape[j])
  <2>1. content = [j \in 1..n |-> Token(i, "content", shape[j])]
    BY <1>1
  <2>2. \A j \in 1..n : Token(i, "content", shape[j]) \in TokenType
    BY <1>1 DEF Token, TokenType, TokenKinds
  <2>3. QED
    BY <1>1, <2>1, <2>2
<1> DEFINE line == Token(i, "line", LineSize)
           lenLine == Token(i, "length", LineSize)
           end == Token(i, "end", EndSize)
<1>3. line \in TokenType /\ lenLine \in TokenType /\ end \in TokenType
  BY DEF Token, TokenType, TokenKinds, LineSize, EndSize
<1>4. CASE shape = <<>>
  <2>1. T = (<<line>> \o <<>> \o <<end>>) \o content /\ h = 2 /\ n = 0
    BY <1>4 DEF Tokens, HeaderTokens
  <2> HIDE DEF content, n, h
  <2> DEFINE two == <<line, end>>
  <2>2. <<line>> \o <<>> \o <<end>> = two
    <3> HIDE DEF line, lenLine, end
    <3> QED BY <1>3, Headers
  <2>3. T = two \o content
    BY <2>1, <2>2
  <2>4. two \in Seq(TokenType) /\ Len(two) = 2 /\ two[1] = line /\ two[2] = end
    BY <1>3
  <2> HIDE DEF two, T
  <2>5. /\ T \in Seq(TokenType) /\ Len(T) = 2
        /\ T[1] = line /\ T[2] = end
    <3>1. content = <<>>
      BY <1>2, <2>1
    <3>2. T = two
      BY <2>3, <2>4, <3>1, ConcatEmptySeq
    <3>3. QED
      BY <2>4, <3>2
  <2>6. /\ T[1].kind = "line" /\ T[2].kind = "end" /\ T[1].of = i /\ T[2].of = i
        /\ T[1].size = LineSize /\ T[2].size = EndSize
    BY <2>5 DEF Token
  <2>7. \A k \in 1..2 : k = 1 \/ k = 2
    OBVIOUS
  <2>8. /\ \A k \in 1..2 : T[k].of = i
        /\ \A k \in 2..2 : T[k].kind # "line"
        /\ \A k \in 1..1 : T[k].kind # "end"
        /\ \A k \in 3..2 : T[k].kind = "content"
        /\ \A k \in 1..2 : T[k].kind # "content"
        /\ \A k \in 1..2 : T[k].kind # "length"
        /\ \A j \in 1..0 : T[2 + j].size = shape[j]
    BY <2>6, <2>7
  <2>9. QED
    BY <1>4, <2>1, <2>5, <2>6, <2>8 DEF T, h, n
<1>5. CASE shape # <<>>
  <2>1. T = (<<line>> \o <<lenLine>> \o <<end>>) \o content /\ h = 3
    BY <1>5 DEF Tokens, HeaderTokens
  <2> HIDE DEF content, h
  <2> DEFINE three == <<line, lenLine, end>>
  <2>2. <<line>> \o <<lenLine>> \o <<end>> = three
    <3> HIDE DEF line, lenLine, end
    <3> QED BY <1>3, Headers
  <2>3. T = three \o content
    BY <2>1, <2>2
  <2>4. three \in Seq(TokenType) /\ Len(three) = 3 /\ three[1] = line /\ three[2] = lenLine /\ three[3] = end
    BY <1>3
  <2> HIDE DEF three, T, n
  <2>5. /\ T \in Seq(TokenType) /\ Len(T) = 3 + n
        /\ T[1] = line /\ T[2] = lenLine /\ T[3] = end
        /\ \A k \in 4..3 + n : T[k] = Token(i, "content", shape[k - 3])
    <3>0. /\ T \in Seq(TokenType) /\ Len(T) = Len(three) + Len(content)
          /\ \A k \in 1..Len(three) + Len(content) :
                T[k] = IF k <= Len(three) THEN three[k] ELSE content[k - Len(three)]
      BY <1>2, <2>3, <2>4, ConcatProperties
    <3>1. /\ T \in Seq(TokenType) /\ Len(T) = 3 + n
          /\ \A k \in 1..3 + n : T[k] = IF k <= 3 THEN three[k] ELSE content[k - 3]
      BY <1>2, <2>4, <3>0
    <3>2. \A k \in 4..3 + n : T[k] = content[k - 3] /\ k - 3 \in 1..n
      BY <1>1, <3>1
    <3>3. T[1] = three[1] /\ T[2] = three[2] /\ T[3] = three[3]
      BY <1>1, <3>1
    <3>4. QED
      BY <1>2, <2>4, <3>1, <3>2, <3>3
  <2>6. /\ \A k \in 1..3 + n : k = 1 \/ k = 2 \/ k = 3 \/ k \in 4..3 + n
        /\ \A j \in 1..n : 3 + j \in 4..3 + n /\ (3 + j) - 3 = j
    BY <1>1
  <2>7. /\ \A k \in 1..3 + n : T[k].of = i
        /\ \A k \in 4..3 + n : T[k].kind = "content"
        /\ \A j \in 1..n : T[3 + j].size = shape[j]
    <3>1. T[1].of = i /\ T[2].of = i /\ T[3].of = i
      BY <2>5 DEF Token
    <3>2. ASSUME NEW k \in 4..3 + n
          PROVE  T[k].of = i /\ T[k].kind = "content" /\ T[k].size = shape[k - 3]
      <4>1. T[k] = Token(i, "content", shape[k - 3])
        BY <2>5
      <4>2. QED
        BY <4>1 DEF Token
    <3>3. \A k \in 1..3 + n : T[k].of = i
      BY <2>6, <3>1, <3>2
    <3>4. \A j \in 1..n : T[3 + j].size = shape[j]
      BY <2>6, <3>2
    <3>5. QED
      BY <3>2, <3>3, <3>4
  <2>8. /\ T[1].kind = "line" /\ T[2].kind = "length" /\ T[3].kind = "end"
        /\ T[1].size = LineSize /\ T[2].size = LineSize /\ T[3].size = EndSize
    BY <2>5 DEF Token
  <2>9. /\ \A k \in 2..3 + n : T[k].kind # "line"
        /\ \A k \in 1..2 : T[k].kind # "end"
        /\ \A k \in 1..3 : T[k].kind # "content"
        /\ \A k \in 1..3 + n : T[k].kind = "length" <=> k = 2
    BY <2>6, <2>7, <2>8, <1>1
  <2>10. QED
    BY <1>1, <1>5, <2>1, <2>5, <2>7, <2>8, <2>9 DEF T, h, n
<1>6. QED
  BY <1>4, <1>5

\* The sizes of the tokens of a request add up to those of its header and content.
LEMMA BytesOfRequest ==
    ASSUME NEW i \in Nat, NEW shape \in Lengths, NEW j \in 0..Len(shape)
    PROVE  LET T == Tokens(i, shape)
               h == HeaderTokens(shape)
           IN  /\ Sizes(T) \in Lengths /\ Len(Sizes(T)) = Len(T)
               /\ Sums(Sizes(T))[h + j] = HeaderBytes(shape) + Sums(shape)[j]
<1> DEFINE T == Tokens(i, shape)
           h == HeaderTokens(shape)
           n == Len(shape)
           f == Sums(Sizes(T))
           g == Sums(shape)
<1>1. /\ T \in Seq(TokenType)
      /\ Len(T) = h + n
      /\ T[1].size = LineSize /\ T[h].size = EndSize
      /\ shape # <<>> => T[2].size = LineSize
      /\ \A k \in 1..n : T[h + k].size = shape[k]
  BY TokensOfRequest
<1>2. n \in Nat /\ shape \in Seq(Nat) /\ \A k \in 1..n : shape[k] \in Nat
  BY DEF Lengths
<1>3. h \in {2, 3} /\ (h = 2 <=> shape = <<>>)
  BY DEF HeaderTokens
<1> HIDE DEF T, h, n
<1>4. /\ Sizes(T) \in Lengths /\ Len(Sizes(T)) = h + n
      /\ \A k \in 1..h + n : Sizes(T)[k] = T[k].size
  <2>1. DOMAIN T = 1..h + n /\ \A k \in 1..h + n : T[k] \in TokenType
    BY <1>1
  <2>2. \A k \in 1..h + n : T[k].size \in Nat \ {0}
    BY <2>1 DEF TokenType
  <2>3. Sizes(T) = [k \in 1..h + n |-> T[k].size]
    BY <2>1 DEF Sizes
  <2>4. h + n \in Nat
    BY <1>2, <1>3
  <2>5. QED
    BY <2>2, <2>3, <2>4 DEF Lengths
<1>5. AddsUpTo(f, Sizes(T), h + n)
  <2>1. Sizes(T) \in Seq(Nat)
    BY <1>4 DEF Lengths
  <2>2. QED
    BY <1>4, <2>1, SumsAdd DEF Adds
<1>6. AddsUpTo(g, shape, n)
  BY <1>2, SumsAdd DEF Adds, n
<1> HIDE DEF f, g
<1>7. f[h] = HeaderBytes(shape)
  <2>1. \A k \in 1..h + n : f[k] = f[k - 1] + T[k].size
    BY <1>4, <1>5 DEF AddsUpTo
  <2>2. f[0] = 0
    BY <1>5 DEF AddsUpTo
  <2>3. 1 \in 1..h + n /\ 2 \in 1..h + n
    BY <1>2, <1>3
  <2>4. f[1] = f[1 - 1] + T[1].size /\ f[2] = f[2 - 1] + T[2].size
    BY <2>1, <2>3
  <2>5. f[1] = LineSize
    BY <1>1, <2>2, <2>4 DEF LineSize
  <2>6. CASE shape = <<>>
    BY <1>1, <1>3, <2>4, <2>5, <2>6 DEF HeaderBytes, LineSize, EndSize
  <2>7. CASE shape # <<>>
    <3>1. h = 3 /\ 3 \in 1..h + n
      BY <1>2, <1>3, <2>7
    <3>2. f[3] = f[3 - 1] + T[3].size
      BY <2>1, <3>1
    <3>3. f[2] = LineSize + LineSize
      BY <1>1, <2>4, <2>5, <2>7 DEF LineSize
    <3>4. QED
      BY <1>1, <2>7, <3>1, <3>2, <3>3 DEF HeaderBytes, LineSize, EndSize
  <2>8. QED
    BY <2>6, <2>7
<1> DEFINE I == {k \in 0..n : f[h + k] = HeaderBytes(shape) + g[k]}
<1>8. HeaderBytes(shape) \in Nat
  BY DEF HeaderBytes, LineSize, EndSize
<1>9. 0 \in I
  <2>1. g[0] = 0 /\ h + 0 = h
    BY <1>3, <1>6 DEF AddsUpTo
  <2>2. QED
    BY <1>2, <1>7, <1>8, <2>1
<1>10. ASSUME NEW k \in 0..n - 1, k \in I
       PROVE  k + 1 \in I
  <2>1. /\ k + 1 \in 1..n /\ (k + 1) - 1 = k /\ k \in 0..n
        /\ h + (k + 1) \in 1..h + n /\ (h + (k + 1)) - 1 = h + k
    BY <1>2, <1>3
  <2>2. g[k + 1] = g[k] + shape[k + 1] /\ g[k] \in Nat /\ shape[k + 1] \in Nat
    BY <1>2, <1>6, <2>1 DEF AddsUpTo
  <2>3. f[h + (k + 1)] = f[h + k] + Sizes(T)[h + (k + 1)]
    BY <1>5, <2>1 DEF AddsUpTo
  <2>4. Sizes(T)[h + (k + 1)] = shape[k + 1]
    BY <1>1, <1>4, <2>1
  <2>5. f[h + k] = HeaderBytes(shape) + g[k]
    BY <1>10
  <2>6. f[h + (k + 1)] = HeaderBytes(shape) + g[k + 1]
    BY <1>8, <2>2, <2>3, <2>4, <2>5
  <2>7. QED
    BY <2>1, <2>6
<1>11. \A k \in 0..n : k \in I
  <2> HIDE DEF I
  <2> QED BY <1>2, <1>9, <1>10, AllUpTo
<1>12. f[h + j] = HeaderBytes(shape) + g[j]
  BY <1>11 DEF n
<1>13. QED
  BY <1>1, <1>4, <1>12 DEF T, h, f, g

\* What readyRead makes of the first m tokens of a request.
LEMMA FirstTokens ==
    ASSUME NEW i \in Nat, NEW shape \in Lengths, NEW m \in 1..Len(Tokens(i, shape))
    PROVE  LET T == Tokens(i, shape)
               h == HeaderTokens(shape)
               data == SubSeq(T, 1, m)
           IN  /\ data \in Seq(TokenType) /\ Len(data) = m
               /\ \A k \in 1..m : data[k] = T[k]
               /\ Positions(data, "end") = IF m >= h THEN {h} ELSE {}
               /\ Positions(data, "length") = IF m >= 2 /\ shape # <<>> THEN {2} ELSE {}
               /\ m >= h => HeaderSize(data) = HeaderBytes(shape)
               /\ Bytes(data) >= HeaderBytes(shape) + Sum(shape) <=> m = Len(T)
               /\ m = Len(T) => Decoded(data) = [of |-> i, size |-> Sum(shape)]
<1> DEFINE T == Tokens(i, shape)
           h == HeaderTokens(shape)
           n == Len(shape)
           f == Sums(Sizes(T))
           data == SubSeq(T, 1, m)
<1>1. /\ T \in Seq(TokenType)
      /\ Len(T) = h + n
      /\ \A k \in 1..Len(T) : T[k].of = i
      /\ T[1].kind = "line" /\ T[h].kind = "end"
      /\ \A k \in 2..Len(T) : T[k].kind # "line"
      /\ \A k \in 1..h - 1 : T[k].kind # "end"
      /\ \A k \in h + 1..Len(T) : T[k].kind = "content"
      /\ \A k \in 1..h : T[k].kind # "content"
      /\ \A k \in 1..Len(T) : T[k].kind = "length" <=> k = 2 /\ shape # <<>>
  BY TokensOfRequest
<1>2. h \in {2, 3} /\ n \in Nat
  BY DEF HeaderTokens, Lengths
<1>3. Len(T) \in Nat /\ m \in 1..Len(T)
  BY <1>1, <1>2
<1>4. \A j \in 0..n : f[h + j] = HeaderBytes(shape) + Sums(shape)[j]
  BY BytesOfRequest
<1>5. Sizes(T) \in Lengths /\ Len(Sizes(T)) = Len(T)
  <2>1. 0 \in 0..Len(shape)
    BY <1>2
  <2>2. QED
    BY <2>1, BytesOfRequest
<1>6. /\ AddsUpTo(f, Sizes(T), Len(T))
      /\ AddsUpTo(Sums(shape), shape, n)
  <2>1. Sizes(T) \in Seq(Nat) /\ shape \in Seq(Nat)
    BY <1>5 DEF Lengths
  <2>2. QED
    BY <2>1, <1>5, SumsAdd DEF Adds
<1> HIDE DEF T, h, n, f
<1>7. data \in Seq(TokenType) /\ Len(data) = m /\ \A k \in 1..m : data[k] = T[k]
  <2>1. \A k \in 1..m : T[k] \in TokenType
    BY <1>1, <1>3
  <2>2. 1 \in Int /\ m \in Int /\ 1 <= m
    BY <1>3
  <2>3. /\ data \in Seq(TokenType)
        /\ Len(data) = IF 1 <= m THEN m - 1 + 1 ELSE 0
        /\ \A k \in 1..m - 1 + 1 : data[k] = T[1 + k - 1]
    BY <2>1, <2>2, SubSeqProperties
  <2> HIDE DEF data
  <2>4. m - 1 + 1 = m /\ \A k \in 1..m : 1 + k - 1 = k
    BY <2>2
  <2>5. QED
    BY <2>2, <2>3, <2>4
<1>8. \A a \in 0..Len(T), b \in 0..Len(T) : a <= b => Bytes(SubSeq(T, a + 1, b)) = f[b] - f[a]
  BY <1>1, <1>3, BytesOfPart DEF f
<1>9. Bytes(data) = f[m]
  <2>1. 0 \in 0..Len(T) /\ m \in 0..Len(T) /\ 0 <= m /\ 0 + 1 = 1
    BY <1>3
  <2>2. Bytes(SubSeq(T, 0 + 1, m)) = f[m] - f[0]
    BY <1>8, <2>1
  <2>3. f[0] = 0 /\ f[m] \in Nat
    BY <1>6, <2>1 DEF AddsUpTo
  <2>4. QED
    BY <2>1, <2>2, <2>3
<1>10. DOMAIN data = 1..m
  BY <1>7
<1> HIDE DEF data
<1>11. Positions(data, "end") = IF m >= h THEN {h} ELSE {}
  <2>1. \A k \in 1..m : T[k].kind = "end" <=> k = h
    <3>1. \A k \in 1..m : k \in 1..h - 1 \/ k = h \/ k \in h + 1..Len(T)
      BY <1>2, <1>3
    <3>2. QED
      BY <1>1, <3>1
  <2>2. Positions(data, "end") = {k \in 1..m : k = h}
    BY <1>7, <1>10, <2>1 DEF Positions
  <2>3. QED
    BY <1>2, <1>3, <2>2
<1>12. Positions(data, "length") = IF m >= 2 /\ shape # <<>> THEN {2} ELSE {}
  <2>1. \A k \in 1..m : k \in 1..Len(T)
    BY <1>3
  <2>2. Positions(data, "length") = {k \in 1..m : k = 2 /\ shape # <<>>}
    BY <1>1, <1>7, <1>10, <2>1 DEF Positions
  <2>3. QED
    BY <1>3, <2>2
<1>13. ASSUME m >= h
       PROVE  HeaderSize(data) = HeaderBytes(shape)
  <2>1. Positions(data, "end") = {h}
    BY <1>11, <1>13
  <2>2. Min({h}) = h
    <3>1. {h} \subseteq 1..h /\ h \in Nat /\ {h} # {}
      BY <1>2
    <3>2. QED
      BY <3>1, Extremes
  <2>3. SubSeq(data, 1, h) = SubSeq(T, 1, h)
    <3>1. SubSeq(data, 1, h) = [k \in 1..(h - 1) + 1 |-> data[k + 1 - 1]]
      BY <1>2
    <3>2. SubSeq(T, 1, h) = [k \in 1..(h - 1) + 1 |-> T[k + 1 - 1]]
      BY <1>2
    <3>3. \A k \in 1..(h - 1) + 1 : data[k + 1 - 1] = T[k + 1 - 1]
      BY <1>2, <1>3, <1>7, <1>13
    <3>4. QED
      BY <3>1, <3>2, <3>3
  <2>4. Bytes(SubSeq(T, 1, h)) = f[h]
    <3>1. 0 \in 0..Len(T) /\ h \in 0..Len(T) /\ 0 <= h /\ 0 + 1 = 1
      BY <1>2, <1>3, <1>13
    <3>2. Bytes(SubSeq(T, 0 + 1, h)) = f[h] - f[0]
      BY <1>8, <3>1
    <3>3. f[0] = 0 /\ f[h] \in Nat
      BY <1>6, <3>1 DEF AddsUpTo
    <3>4. QED
      BY <3>1, <3>2, <3>3
  <2>5. f[h] = HeaderBytes(shape)
    <3>1. 0 \in 0..n /\ h + 0 = h
      BY <1>2
    <3>2. f[h + 0] = HeaderBytes(shape) + Sums(shape)[0] /\ Sums(shape)[0] = 0
      BY <1>4, <1>6, <3>1 DEF AddsUpTo
    <3>3. HeaderBytes(shape) \in Nat
      BY DEF HeaderBytes, LineSize, EndSize
    <3>4. QED
      BY <3>1, <3>2, <3>3
  <2>6. HeaderSize(data) = Bytes(SubSeq(data, 1, h))
    BY <2>1, <2>2 DEF HeaderSize
  <2>7. QED
    BY <2>3, <2>4, <2>5, <2>6
<1>14. f[Len(T)] = HeaderBytes(shape) + Sum(shape)
  <2>1. n \in 0..n
    BY <1>2
  <2>2. QED
    BY <1>1, <1>4, <2>1 DEF Sum, n
<1>15. Bytes(data) >= HeaderBytes(shape) + Sum(shape) <=> m = Len(T)
  <2>1. m \in 0..Len(T) /\ Len(T) \in 0..Len(T)
    BY <1>3
  <2>2. f[m] \in Nat /\ f[Len(T)] \in Nat
    BY <1>6, <2>1 DEF AddsUpTo
  <2>3. m < Len(T) => f[m] < f[Len(T)]
    BY <1>5, <2>1, SumsGrow DEF f, Lengths
  <2>4. m = Len(T) => f[m] = f[Len(T)]
    OBVIOUS
  <2>5. m < Len(T) \/ m = Len(T)
    BY <1>3
  <2>6. f[m] >= f[Len(T)] <=> m = Len(T)
    BY <2>2, <2>3, <2>4, <2>5
  <2>7. QED
    BY <1>9, <1>14, <2>6
<1>16. ASSUME m = Len(T)
       PROVE  Decoded(data) = [of |-> i, size |-> Sum(shape)]
  <2>1. DOMAIN data \ Positions(data, "content") = 1..h
    <3>1. \A k \in 1..m : T[k].kind = "content" <=> ~ (k \in 1..h)
      <4>1. \A k \in 1..m : k \in 1..h \/ k \in h + 1..Len(T)
        BY <1>2, <1>3
      <4>2. \A k \in h + 1..Len(T) : ~ (k \in 1..h)
        BY <1>2, <1>3
      <4>3. QED
        BY <1>1, <4>1, <4>2
    <3>2. \A k \in 1..m : data[k].kind = "content" <=> ~ (k \in 1..h)
      BY <1>7, <3>1
    <3>3. \A k \in 1..h : k \in 1..m
      BY <1>1, <1>2, <1>16
    <3>4. QED
      BY <1>10, <3>2, <3>3 DEF Positions
  <2>2. Max(1..h) = h
    <3>1. h \in Nat /\ h \in 1..h
      BY <1>2
    <3> DEFINE H == 1..h
    <3>2. H \subseteq 1..h /\ H # {} /\ h \in H
      BY <3>1
    <3>3. Max(H) \in H /\ \A y \in H : Max(H) >= y
      <4> HIDE DEF H
      <4> QED BY <3>1, <3>2, Extremes
    <3>4. Max(H) >= h /\ Max(H) \in 1..h
      BY <3>2, <3>3
    <3>5. QED
      BY <1>2, <3>4
  <2>3. data = T
    <3>1. SubSeq(T, 1, Len(T)) = T
      BY <1>1, SubSeqFull
    <3>2. QED
      BY <3>1, <1>16 DEF data
  <2>4. Bytes(SubSeq(data, h + 1, Len(data))) = Sum(shape)
    <3>1. h \in 0..Len(T) /\ Len(T) \in 0..Len(T) /\ h <= Len(T)
      BY <1>1, <1>2, <1>3
    <3>2. Bytes(SubSeq(T, h + 1, Len(T))) = f[Len(T)] - f[h]
      BY <1>8, <3>1
    <3>3. f[h] = HeaderBytes(shape)
      <4>1. 0 \in 0..n /\ h + 0 = h
        BY <1>2
      <4>2. f[h + 0] = HeaderBytes(shape) + Sums(shape)[0] /\ Sums(shape)[0] = 0
        BY <1>4, <1>6, <4>1 DEF AddsUpTo
      <4>3. HeaderBytes(shape) \in Nat
        BY DEF HeaderBytes, LineSize, EndSize
      <4>4. QED
        BY <4>1, <4>2, <4>3
    <3>4. Sum(shape) \in Nat /\ HeaderBytes(shape) \in Nat
      <4>1. n \in 0..n
        BY <1>2
      <4>2. Sums(shape)[n] \in Nat
        BY <1>6, <4>1 DEF AddsUpTo
      <4>3. QED
        BY <4>2 DEF Sum, n, HeaderBytes, LineSize, EndSize
    <3>5. QED
      BY <2>3, <3>2, <3>3, <3>4, <1>14
  <2>5. data[1].of = i
    BY <1>1, <1>3, <2>3
  <2>6. QED
    BY <2>1, <2>2, <2>4, <2>5 DEF Decoded
<1>17. QED
  BY <1>7, <1>11, <1>12, <1>13, <1>15, <1>16 DEF T, h, data

\* Where the empty line of a request is among its first tokens.
LEMMA FirstEnd ==
    ASSUME NEW i \in Nat, NEW shape \in Lengths, NEW m \in 1..Len(Tokens(i, shape))
    PROVE  Positions(SubSeq(Tokens(i, shape), 1, m), "end")
                = IF m >= HeaderTokens(shape) THEN {HeaderTokens(shape)} ELSE {}
BY FirstTokens

-----------------------------------------------------------------------------
(* What is sent on a connection. *)

\* What the first k requests are, for each k up to n.
JoinsUpTo(f, requests, n) ==
    /\ f \in [0..n -> Seq(TokenType)]
    /\ f[0] = <<>>
    /\ \A k \in 1..n : f[k] = f[k - 1] \o Tokens(k, requests[k])

LEMMA ShapesAreLengths == \A shape \in Shapes : shape \in Lengths
<1>1. SUFFICES ASSUME NEW shape \in Shapes
               PROVE  shape \in Seq(Nat \ {0})
  BY DEF Lengths
<1>2. Shapes \subseteq Seq(Nat \ {0})
  BY HttpServerAssumption
<1>3. QED
  BY <1>2

\* Streams joins the requests.
LEMMA StreamsJoin ==
    ASSUME NEW requests \in Seq(Shapes)
    PROVE  JoinsUpTo(Streams(requests), requests, Len(requests))
<1> DEFINE n == Len(requests)
           T == {k \in 0..n : \E f : JoinsUpTo(f, requests, k)}
<1>0. n \in Nat /\ \A k \in 1..n : Tokens(k, requests[k]) \in Seq(TokenType)
  <2>1. n \in Nat /\ \A k \in 1..n : requests[k] \in Shapes /\ k \in Nat
    OBVIOUS
  <2>2. QED
    BY <2>1, ShapesAreLengths, TokensOfRequest
<1>1. 0 \in T
  <2>1. <<>> \in Seq(TokenType)
    OBVIOUS
  <2>2. JoinsUpTo([k \in 0..0 |-> <<>>], requests, 0)
    BY <2>1 DEF JoinsUpTo
  <2>3. QED
    BY <2>2, <1>0
<1>2. ASSUME NEW k \in 0..n - 1, k \in T
      PROVE  k + 1 \in T
  <2>1. PICK f : JoinsUpTo(f, requests, k)
    BY <1>2
  <2> DEFINE next == f[k] \o Tokens(k + 1, requests[k + 1])
             g == [j \in 0..k + 1 |-> IF j = k + 1 THEN next ELSE f[j]]
  <2>2. k \in Nat /\ k + 1 \in 1..n /\ k + 1 \in 0..n
    BY <1>0
  <2>3. next \in Seq(TokenType)
    <3>1. f[k] \in Seq(TokenType)
      BY <2>1, <2>2 DEF JoinsUpTo
    <3>2. QED
      BY <1>0, <2>2, <3>1, ConcatProperties
  <2> HIDE DEF next
  <2>4. g \in [0..k + 1 -> Seq(TokenType)]
    BY <2>1, <2>2, <2>3 DEF JoinsUpTo
  <2>5. g[0] = <<>>
    BY <2>1, <2>2 DEF JoinsUpTo
  <2>6. ASSUME NEW j \in 1..k + 1
        PROVE  g[j] = g[j - 1] \o Tokens(j, requests[j])
    <3>1. CASE j = k + 1
      <4>1. g[j] = next
        BY <2>2, <3>1
      <4>2. j - 1 = k /\ g[k] = f[k]
        BY <2>2, <3>1
      <4>3. QED
        BY <3>1, <4>1, <4>2 DEF next
    <3>2. CASE j \in 1..k
      <4>1. g[j] = f[j] /\ g[j - 1] = f[j - 1]
        BY <2>2, <3>2
      <4>2. f[j] = f[j - 1] \o Tokens(j, requests[j])
        BY <2>1, <3>2 DEF JoinsUpTo
      <4>3. QED
        BY <4>1, <4>2
    <3>3. j = k + 1 \/ j \in 1..k
      BY <2>2
    <3> HIDE DEF g
    <3>4. QED
      BY <3>1, <3>2, <3>3
  <2>7. JoinsUpTo(g, requests, k + 1)
    <3> HIDE DEF g
    <3> QED BY <2>4, <2>5, <2>6 DEF JoinsUpTo
  <2>8. \E h : JoinsUpTo(h, requests, k + 1)
    BY <2>7
  <2>9. QED
    BY <2>2, <2>8
<1>3. PICK f : JoinsUpTo(f, requests, n)
  <2>1. \A k \in 0..n : k \in T
    <3> HIDE DEF T
    <3> QED BY <1>0, <1>1, <1>2, AllUpTo
  <2>2. n \in T
    BY <2>1, <1>0
  <2>3. QED
    BY <2>2
<1> DEFINE Is(g) == g = [k \in 0..n |-> IF k = 0 THEN <<>> ELSE g[k - 1] \o Tokens(k, requests[k])]
           s == Streams(requests)
<1>4. s = CHOOSE g : Is(g)
  BY DEF Streams
<1>5. Is(f)
  <2>1. ASSUME NEW k \in 0..n
        PROVE  f[k] = IF k = 0 THEN <<>> ELSE f[k - 1] \o Tokens(k, requests[k])
    <3>1. k = 0 \/ k \in 1..n
      BY <1>0
    <3>2. QED
      BY <1>3, <3>1 DEF JoinsUpTo
  <2>2. f = [k \in 0..n |-> f[k]]
    BY <1>3 DEF JoinsUpTo
  <2> HIDE DEF n, T
  <2>3. QED
    BY <2>1, <2>2
<1>6. Is(s)
  <2> HIDE DEF Is, s
  <2> QED BY <1>4, <1>5
<1>7. s = [k \in 0..n |-> IF k = 0 THEN <<>> ELSE s[k - 1] \o Tokens(k, requests[k])]
  <2> HIDE DEF s
  <2> QED BY <1>6
<1> HIDE DEF s, Is
<1>8. DOMAIN s = 0..n /\ s[0] = <<>>
  BY <1>0, <1>7
<1>9. \A k \in 1..n : s[k] = s[k - 1] \o Tokens(k, requests[k])
  <2>1. ASSUME NEW k \in 1..n
        PROVE  s[k] = s[k - 1] \o Tokens(k, requests[k])
    <3>1. k \in 0..n /\ k # 0
      BY <1>0
    <3> HIDE DEF n, T
    <3>2. QED
      BY <1>7, <3>1
  <2>2. QED
    BY <2>1
<1> DEFINE U == {k \in 0..n : s[k] \in Seq(TokenType)}
<1>10. \A k \in 0..n : k \in U
  <2>1. 0 \in U
    <3>1. 0 \in 0..n /\ <<>> \in Seq(TokenType)
      BY <1>0
    <3>2. QED
      BY <1>8, <3>1
  <2>2. ASSUME NEW k \in 0..n - 1, k \in U
        PROVE  k + 1 \in U
    <3>1. k + 1 \in 1..n /\ (k + 1) - 1 = k /\ k + 1 \in 0..n
      BY <1>0
    <3>2. s[k + 1] = s[k] \o Tokens(k + 1, requests[k + 1])
      BY <1>9, <3>1
    <3>3. s[k] \in Seq(TokenType) /\ Tokens(k + 1, requests[k + 1]) \in Seq(TokenType)
      BY <1>0, <2>2, <3>1
    <3>4. s[k + 1] \in Seq(TokenType)
      BY <3>2, <3>3, ConcatProperties
    <3>5. QED
      BY <3>1, <3>4
  <2> HIDE DEF U
  <2> QED BY <2>1, <2>2, <1>0, AllUpTo
<1>11. s \in [0..n -> Seq(TokenType)]
  BY <1>7, <1>10
<1>12. QED
  BY <1>8, <1>9, <1>11 DEF JoinsUpTo, s

\* Where the requests begin: each where the one before it ends.
LEMMA RequestEnds ==
    ASSUME NEW requests \in Seq(Shapes), NEW i \in 1..Len(requests)
    PROVE  LET s == Streams(requests)
               T == Tokens(i, requests[i])
           IN  /\ s[i - 1] \in Seq(TokenType) /\ s[i] \in Seq(TokenType)
               /\ requests[i] \in Lengths
               /\ T \in Seq(TokenType) /\ Len(T) \in Nat \ {0, 1}
               /\ Len(s[i]) = Len(s[i - 1]) + Len(T)
               /\ \A p \in 1..Len(s[i - 1]) : s[i][p] = s[i - 1][p]
               /\ \A q \in 1..Len(T) : s[i][Len(s[i - 1]) + q] = T[q]
<1> DEFINE s == Streams(requests)
           T == Tokens(i, requests[i])
<1>1. JoinsUpTo(s, requests, Len(requests)) /\ Len(requests) \in Nat /\ requests[i] \in Shapes
  BY StreamsJoin
<1>2. i \in Nat /\ i - 1 \in 0..Len(requests) /\ i \in 0..Len(requests)
  BY <1>1
<1>3. requests[i] \in Lengths
  BY <1>1, ShapesAreLengths
<1>4. T \in Seq(TokenType) /\ Len(T) = HeaderTokens(requests[i]) + Len(requests[i])
  BY <1>2, <1>3, TokensOfRequest
<1>5. Len(T) \in Nat \ {0, 1}
  <2>1. HeaderTokens(requests[i]) \in {2, 3} /\ Len(requests[i]) \in Nat
    BY <1>3 DEF HeaderTokens, Lengths
  <2>2. QED
    BY <1>4, <2>1
<1> HIDE DEF s, T
<1>6. s[i - 1] \in Seq(TokenType) /\ s[i] \in Seq(TokenType) /\ s[i] = s[i - 1] \o T
  BY <1>1, <1>2 DEF JoinsUpTo, T
<1> DEFINE a == s[i - 1]
<1>7. a \in Seq(TokenType) /\ s[i] = a \o T /\ Len(a) \in Nat
  BY <1>6
<1> HIDE DEF a
<1>8. /\ Len(s[i]) = Len(a) + Len(T)
      /\ \A p \in 1..Len(a) + Len(T) : s[i][p] = IF p <= Len(a) THEN a[p] ELSE T[p - Len(a)]
  <2> DEFINE b == a \o T
  <2>1. /\ Len(b) = Len(a) + Len(T)
        /\ \A p \in 1..Len(a) + Len(T) : b[p] = IF p <= Len(a) THEN a[p] ELSE T[p - Len(a)]
    <3>1. a \in Seq(TokenType) /\ T \in Seq(TokenType)
      BY <1>4, <1>7
    <3>2. QED
      BY <3>1, ConcatProperties, Zenon
  <2>2. s[i] = b
    BY <1>7
  <2> HIDE DEF b
  <2>3. QED
    BY <2>1, <2>2
<1>9. \A p \in 1..Len(a) : s[i][p] = a[p]
  BY <1>5, <1>7, <1>8
<1>10. ASSUME NEW q \in 1..Len(T)
       PROVE  s[i][Len(a) + q] = T[q]
  <2>1. Len(a) + q \in 1..Len(a) + Len(T) /\ ~ (Len(a) + q <= Len(a)) /\ (Len(a) + q) - Len(a) = q
    BY <1>5, <1>7
  <2>2. QED
    BY <1>8, <2>1
<1>11. QED
  BY <1>3, <1>4, <1>5, <1>6, <1>8, <1>9, <1>10 DEF a, s, T

\* What was sent stays as it is when more is sent.
LEMMA StreamsExtend ==
    ASSUME NEW requests \in Seq(Shapes), NEW j \in 0..Len(requests), NEW k \in j..Len(requests)
    PROVE  LET s == Streams(requests)
           IN  /\ s[j] \in Seq(TokenType) /\ s[k] \in Seq(TokenType)
               /\ Len(s[j]) <= Len(s[k])
               /\ j < k => Len(s[j]) < Len(s[k])
               /\ \A p \in 1..Len(s[j]) : s[k][p] = s[j][p]
<1> DEFINE s == Streams(requests)
           n == Len(requests)
           Extends(m) == /\ Len(s[j]) <= Len(s[m])
                         /\ j < m => Len(s[j]) < Len(s[m])
                         /\ \A p \in 1..Len(s[j]) : s[m][p] = s[j][p]
           T == {m \in 0..n : j <= m => Extends(m)}
<1>1. n \in Nat /\ \A m \in 0..n : s[m] \in Seq(TokenType)
  <2>1. JoinsUpTo(s, requests, n) /\ n \in Nat
    BY StreamsJoin
  <2> HIDE DEF s, n
  <2>2. QED
    BY <2>1 DEF JoinsUpTo
<1>2. \A m \in 1..n : /\ Len(s[m - 1]) < Len(s[m])
                      /\ \A p \in 1..Len(s[m - 1]) : s[m][p] = s[m - 1][p]
  <2>1. ASSUME NEW m \in 1..n
        PROVE  /\ Len(s[m - 1]) < Len(s[m])
               /\ \A p \in 1..Len(s[m - 1]) : s[m][p] = s[m - 1][p]
    <3> DEFINE M == Tokens(m, requests[m])
    <3>1. /\ Len(M) \in Nat \ {0, 1} /\ s[m - 1] \in Seq(TokenType)
          /\ Len(s[m]) = Len(s[m - 1]) + Len(M)
          /\ \A p \in 1..Len(s[m - 1]) : s[m][p] = s[m - 1][p]
      BY RequestEnds
    <3> HIDE DEF M, s
    <3>2. Len(s[m - 1]) \in Nat
      BY <3>1
    <3>3. QED
      BY <3>1, <3>2
  <2>2. QED
    BY <2>1
<1> HIDE DEF s, n
<1>3. \A m \in 0..n : Len(s[m]) \in Nat
  BY <1>1
<1>4. 0 \in T
  BY <1>1, <1>3 DEF n
<1>5. ASSUME NEW m \in 0..n - 1, m \in T
      PROVE  m + 1 \in T
  <2>1. m \in 0..n /\ m + 1 \in 1..n /\ (m + 1) - 1 = m /\ m + 1 \in 0..n /\ j \in 0..n
    BY <1>1 DEF n
  <2>2. Len(s[m]) < Len(s[m + 1]) /\ \A p \in 1..Len(s[m]) : s[m + 1][p] = s[m][p]
    BY <1>2, <2>1
  <2>3. Len(s[m]) \in Nat /\ Len(s[m + 1]) \in Nat /\ Len(s[j]) \in Nat
    BY <1>3, <2>1
  <2>4. CASE j = m + 1
    <3>1. Extends(m + 1)
      BY <2>3, <2>4
    <3>2. QED
      BY <2>1, <3>1
  <2>5. CASE j <= m
    <3>1. Extends(m)
      BY <1>5, <2>5
    <3>2. \A p \in 1..Len(s[j]) : p \in 1..Len(s[m])
      BY <2>3, <3>1
    <3>3. \A p \in 1..Len(s[j]) : s[m + 1][p] = s[j][p]
      BY <2>2, <3>1, <3>2
    <3>4. Extends(m + 1)
      BY <2>2, <2>3, <3>1, <3>3
    <3>5. QED
      BY <2>1, <3>4
  <2>6. CASE j > m + 1
    BY <2>1, <2>6
  <2>7. QED
    BY <2>1, <2>4, <2>5, <2>6
<1>6. \A m \in 0..n : m \in T
  <2> HIDE DEF T
  <2> QED BY <1>1, <1>4, <1>5, AllUpTo
<1>7. k \in 0..n /\ j \in 0..n /\ j <= k
  BY <1>1 DEF n
<1>8. Extends(k)
  BY <1>6, <1>7
<1>9. QED
  BY <1>1, <1>7, <1>8 DEF s

\* All that is sent.
Sent(requests) == Streams(requests)[Len(requests)]

\* Where the tokens of a request are in what is sent.
LEMMA RequestIsSent ==
    ASSUME NEW requests \in Seq(Shapes), NEW i \in 1..Len(requests),
           NEW q \in 1..Len(Tokens(i, requests[i]))
    PROVE  LET s == Streams(requests)
               p == Len(s[i - 1]) + q
           IN  /\ Sent(requests) \in Seq(TokenType)
               /\ p \in 1..Len(Sent(requests)) /\ p <= Len(s[i])
               /\ Sent(requests)[p] = Tokens(i, requests[i])[q]
               /\ Sent(requests)[p].of = i
               /\ Sent(requests)[p].kind = "line" <=> q = 1
<1> DEFINE s == Streams(requests)
           T == Tokens(i, requests[i])
           n == Len(requests)
           X == Sent(requests)
           p == Len(s[i - 1]) + q
<1>1. n \in Nat /\ i \in Nat /\ i \in 0..n /\ n \in i..n
  OBVIOUS
<1>2. /\ s[i - 1] \in Seq(TokenType) /\ s[i] \in Seq(TokenType)
      /\ requests[i] \in Lengths
      /\ T \in Seq(TokenType) /\ Len(T) \in Nat \ {0, 1}
      /\ Len(s[i]) = Len(s[i - 1]) + Len(T)
      /\ \A r \in 1..Len(T) : s[i][Len(s[i - 1]) + r] = T[r]
  BY RequestEnds
<1>3. /\ s[n] \in Seq(TokenType) /\ Len(s[i]) <= Len(s[n])
      /\ \A r \in 1..Len(s[i]) : s[n][r] = s[i][r]
  BY <1>1, StreamsExtend
<1>4. /\ \A k \in 1..Len(T) : T[k].of = i
      /\ T[1].kind = "line"
      /\ \A k \in 2..Len(T) : T[k].kind # "line"
  BY <1>1, <1>2, TokensOfRequest
<1>5. X = s[n]
  BY DEF Sent
<1> HIDE DEF s, T, n, X
<1>6. Len(s[i - 1]) \in Nat /\ Len(s[i]) \in Nat /\ Len(X) \in Nat /\ q \in 1..Len(T)
  <2>1. q \in 1..Len(T)
    BY DEF T
  <2>2. QED
    BY <1>2, <1>3, <1>5, <2>1
<1>7. p \in 1..Len(s[i]) /\ p <= Len(s[i]) /\ p \in 1..Len(X)
  BY <1>2, <1>3, <1>5, <1>6
<1>8. X[p] = T[q]
  BY <1>2, <1>3, <1>5, <1>6, <1>7
<1>9. T[q].kind = "line" <=> q = 1
  BY <1>2, <1>4, <1>6
<1>10. QED
  BY <1>3, <1>4, <1>5, <1>6, <1>7, <1>8, <1>9 DEF X, T, s

\* Everything that is sent is of a request.
LEMMA SentIsOfRequests ==
    ASSUME NEW requests \in Seq(Shapes), NEW p \in 1..Len(Sent(requests))
    PROVE  \E i \in 1..Len(requests) : \E q \in 1..Len(Tokens(i, requests[i])) :
                p = Len(Streams(requests)[i - 1]) + q
<1> DEFINE s == Streams(requests)
           n == Len(requests)
           T == {i \in 0..n : p <= Len(s[i])}
<1>1. n \in Nat /\ JoinsUpTo(s, requests, n)
  BY StreamsJoin
<1>2. s[0] = <<>> /\ \A i \in 0..n : Len(s[i]) \in Nat
  <2> HIDE DEF s, n
  <2>1. \A i \in 0..n : s[i] \in Seq(TokenType)
    BY <1>1 DEF JoinsUpTo
  <2>2. QED
    BY <1>1, <2>1 DEF JoinsUpTo
<1>3. p \in 1..Len(s[n]) /\ n \in 0..n
  BY <1>1 DEF Sent
<1>4. \A i \in 1..n : Len(s[i]) = Len(s[i - 1]) + Len(Tokens(i, requests[i]))
                      /\ Len(Tokens(i, requests[i])) \in Nat
  <2>1. ASSUME NEW i \in 1..n
        PROVE  Len(s[i]) = Len(s[i - 1]) + Len(Tokens(i, requests[i]))
               /\ Len(Tokens(i, requests[i])) \in Nat
    BY RequestEnds
  <2>2. QED
    BY <2>1
<1> HIDE DEF s, n
<1>5. T \subseteq Nat /\ T # {}
  BY <1>1, <1>2, <1>3
<1>6. PICK i \in T : \A j \in T : i <= j
  <2> HIDE DEF T
  <2> QED BY <1>5, LeastNumber
<1>7. i # 0
  <2>1. SUFFICES ASSUME i = 0
                 PROVE  FALSE
    OBVIOUS
  <2>2. p <= 0
    BY <1>2, <1>6, <2>1
  <2>3. QED
    BY <1>2, <1>3, <2>2
<1>8. i \in 1..n /\ i - 1 \in 0..n /\ i - 1 < i
  BY <1>1, <1>6, <1>7
<1>9. ~ (p <= Len(s[i - 1]))
  <2>1. SUFFICES ASSUME p <= Len(s[i - 1])
                 PROVE  FALSE
    OBVIOUS
  <2>2. i - 1 \in T
    BY <1>8, <2>1
  <2>3. i <= i - 1
    BY <1>6, <2>2
  <2>4. QED
    BY <1>8, <2>3
<1> DEFINE q == p - Len(s[i - 1])
<1>10. Len(s[i - 1]) \in Nat /\ p \in Nat /\ p <= Len(s[i]) /\ Len(s[i]) \in Nat
  BY <1>2, <1>3, <1>6, <1>8
<1>11. q \in 1..Len(Tokens(i, requests[i])) /\ p = Len(s[i - 1]) + q
  <2> DEFINE a == Len(s[i - 1])
             b == Len(s[i])
             m == Len(Tokens(i, requests[i]))
  <2>1. b = a + m /\ m \in Nat
    BY <1>4, <1>8
  <2>2. a \in Nat /\ p \in Nat /\ p <= b /\ ~ (p <= a)
    BY <1>9, <1>10
  <2> HIDE DEF a, b, m
  <2>3. p - a \in 1..m /\ p = a + (p - a)
    BY <2>1, <2>2
  <2>4. QED
    BY <2>3 DEF a, m
<1>12. QED
  <2> HIDE DEF q
  <2> QED BY <1>8, <1>11 DEF s, n

\* The requests are sent one after the other, and a line begins a new one.
LEMMA SentInOrder ==
    ASSUME NEW requests \in Seq(Shapes), NEW p \in 1..Len(Sent(requests)),
           NEW r \in 1..Len(Sent(requests)), p < r
    PROVE  /\ Sent(requests)[p].of <= Sent(requests)[r].of
           /\ Sent(requests)[r].kind = "line" => Sent(requests)[p].of < Sent(requests)[r].of
<1> DEFINE s == Streams(requests)
           X == Sent(requests)
<1>i. PICK i \in 1..Len(requests) :
            \E a \in 1..Len(Tokens(i, requests[i])) : p = Len(s[i - 1]) + a
  BY SentIsOfRequests
<1>1. PICK a \in 1..Len(Tokens(i, requests[i])) : p = Len(s[i - 1]) + a
  BY <1>i
<1>j. PICK j \in 1..Len(requests) :
            \E b \in 1..Len(Tokens(j, requests[j])) : r = Len(s[j - 1]) + b
  BY SentIsOfRequests
<1>2. PICK b \in 1..Len(Tokens(j, requests[j])) : r = Len(s[j - 1]) + b
  BY <1>j
<1>3. X[p].of = i /\ p <= Len(s[i])
  BY <1>1, RequestIsSent
<1>4. X[r].of = j /\ r <= Len(s[j]) /\ (X[r].kind = "line" <=> b = 1)
  BY <1>2, RequestIsSent
<1>5. Len(requests) \in Nat /\ i \in Nat /\ j \in Nat
  OBVIOUS
<1>6. p \in Nat /\ r \in Nat
  <2>1. \A m \in Nat : \A k \in 1..m : k \in Nat
    OBVIOUS
  <2>2. Len(X) \in Nat
    BY <1>1, RequestIsSent
  <2>3. QED
    BY <2>1, <2>2
<1>7. ASSUME j < i
      PROVE  FALSE
  <2>1. j \in 0..Len(requests) /\ i - 1 \in j..Len(requests)
    BY <1>5, <1>7
  <2>2. Len(s[j]) <= Len(s[i - 1]) /\ s[j] \in Seq(TokenType) /\ s[i - 1] \in Seq(TokenType)
    BY <2>1, StreamsExtend
  <2> HIDE DEF s
  <2>3. Len(s[j]) \in Nat /\ Len(s[i - 1]) \in Nat
    BY <2>2
  <2>4. a \in Nat
    <3>1. Len(Tokens(i, requests[i])) \in Nat
      BY RequestEnds
    <3>2. QED
      BY <3>1
  <2>5. r <= Len(s[i - 1]) /\ Len(s[i - 1]) <= p
    BY <1>1, <1>4, <1>6, <2>2, <2>3, <2>4
  <2>6. QED
    BY <1>6, <2>3, <2>5
<1>8. ASSUME j = i, X[r].kind = "line"
      PROVE  FALSE
  <2>1. r = Len(s[i - 1]) + 1
    BY <1>2, <1>4, <1>8
  <2>2. s[i - 1] \in Seq(TokenType) /\ Len(Tokens(i, requests[i])) \in Nat
    BY RequestEnds
  <2> HIDE DEF s
  <2>3. Len(s[i - 1]) \in Nat /\ a >= 1 /\ a \in Nat
    BY <2>2
  <2>4. QED
    BY <1>1, <1>6, <2>1, <2>3
<1> HIDE DEF X
<1>9. QED
  BY <1>3, <1>4, <1>5, <1>7, <1>8 DEF X

-----------------------------------------------------------------------------
(* Pieces. *)

\* The n elements of a sequence that follow the first r.
LEMMA Segment ==
    ASSUME NEW S, NEW X \in Seq(S), NEW r \in Nat, NEW n \in Nat \ {0}, r + n <= Len(X)
    PROVE  LET piece == SubSeq(X, r + 1, r + n)
           IN  /\ piece \in Seq(S) /\ Len(piece) = n
               /\ \A j \in 1..n : piece[j] = X[r + j]
<1> DEFINE lo == r + 1
           hi == r + n
           piece == SubSeq(X, lo, hi)
<1>1. lo \in Int /\ hi \in Int /\ lo <= hi /\ hi - lo + 1 = n
      /\ \A j \in 1..n : lo + j - 1 = r + j
  OBVIOUS
<1>2. \A p \in lo..hi : X[p] \in S
  <2>1. \A p \in lo..hi : p \in 1..Len(X)
    OBVIOUS
  <2>2. QED
    BY <2>1
<1> HIDE DEF lo, hi
<1>3. /\ piece \in Seq(S)
      /\ Len(piece) = IF lo <= hi THEN hi - lo + 1 ELSE 0
      /\ \A j \in 1..hi - lo + 1 : piece[j] = X[lo + j - 1]
  BY <1>1, <1>2, SubSeqProperties
<1> HIDE DEF piece
<1>4. piece \in Seq(S) /\ Len(piece) = n /\ \A j \in 1..n : piece[j] = X[r + j]
  BY <1>1, <1>3
<1>5. QED
  BY <1>4 DEF piece, lo, hi

\* What is sent is tokens of the connection's requests.
LEMMA SentIsTokens ==
    ASSUME NEW requests \in Seq(Shapes)
    PROVE  /\ Sent(requests) \in Seq(TokenType)
           /\ Len(Sent(requests)) \in Nat
           /\ \A p \in 1..Len(Sent(requests)) : Sent(requests)[p].of \in 1..Len(requests)
<1> DEFINE X == Sent(requests)
<1>1. X \in Seq(TokenType)
  <2>1. JoinsUpTo(Streams(requests), requests, Len(requests)) /\ Len(requests) \in 0..Len(requests)
    BY StreamsJoin
  <2>2. QED
    BY <2>1 DEF JoinsUpTo, Sent
<1>2. ASSUME NEW p \in 1..Len(X)
      PROVE  X[p].of \in 1..Len(requests)
  <2>1. PICK i \in 1..Len(requests) :
                \E q \in 1..Len(Tokens(i, requests[i])) : p = Len(Streams(requests)[i - 1]) + q
    BY SentIsOfRequests
  <2>2. PICK q \in 1..Len(Tokens(i, requests[i])) : p = Len(Streams(requests)[i - 1]) + q
    BY <2>1
  <2>3. X[p].of = i
    BY <2>2, RequestIsSent
  <2>4. QED
    BY <2>3
<1>3. QED
  BY <1>1, <1>2

\* A piece of what is sent, after r tokens.
LEMMA PieceIsSent ==
    ASSUME NEW requests \in Seq(Shapes), NEW r \in Nat, NEW n \in Nat \ {0},
           r + n <= Len(Sent(requests))
    PROVE  LET X == Sent(requests)
               piece == SubSeq(X, r + 1, r + n)
           IN  /\ piece \in Seq(TokenType) /\ Len(piece) = n
               /\ \A j \in 1..n : piece[j] = X[r + j]
               /\ \A j \in 1..n : piece[j].of \in 1..Len(requests)
<1> DEFINE X == Sent(requests)
           piece == SubSeq(X, r + 1, r + n)
<1>1. /\ X \in Seq(TokenType) /\ Len(X) \in Nat
      /\ \A p \in 1..Len(X) : X[p].of \in 1..Len(requests)
      /\ r + n <= Len(X)
  BY SentIsTokens
<1> HIDE DEF X
<1>2. piece \in Seq(TokenType) /\ Len(piece) = n /\ \A j \in 1..n : piece[j] = X[r + j]
  BY <1>1, Segment
<1> HIDE DEF piece
<1>3. \A j \in 1..n : r + j \in 1..Len(X)
  BY <1>1
<1>4. \A j \in 1..n : piece[j].of \in 1..Len(requests)
  BY <1>1, <1>2, <1>3
<1>5. QED
  BY <1>2, <1>4 DEF X, piece

\* What was read from b on, with the next piece.
LEMMA PieceIsAppended ==
    ASSUME NEW requests \in Seq(Shapes), NEW b \in Nat, NEW r \in Nat, NEW n \in Nat \ {0},
           b <= r, r + n <= Len(Sent(requests))
    PROVE  LET X == Sent(requests)
               data == SubSeq(X, b + 1, r) \o SubSeq(X, r + 1, r + n)
           IN  /\ data = SubSeq(X, b + 1, r + n)
               /\ data \in Seq(TokenType) /\ Len(data) = r + n - b
               /\ \A j \in 1..r + n - b : data[j] = X[b + j]
               /\ \A j \in 1..r + n - b : data[j].of \in 1..Len(requests)
<1> DEFINE X == Sent(requests)
<1>1. X \in Seq(TokenType) /\ Len(X) \in Nat /\ r + n <= Len(X)
  BY SentIsTokens
<1>2. SubSeq(X, b + 1, r) \o SubSeq(X, r + 1, r + n) = SubSeq(X, b + 1, r + n)
  <2> HIDE DEF X
  <2>1. b + 1 \in 1..Len(X) + 1 /\ r \in (b + 1) - 1..Len(X) /\ r + n \in r..Len(X)
    BY <1>1
  <2>2. QED
    BY <1>1, <2>1, ConcatAdjacentSubSeq
<1>3. PICK m \in Nat \ {0} : m = r + n - b
  OBVIOUS
<1>4. b + m = r + n /\ b + m <= Len(X)
  BY <1>1, <1>3
<1>5. LET data == SubSeq(X, b + 1, b + m)
      IN  /\ data \in Seq(TokenType) /\ Len(data) = m
          /\ \A j \in 1..m : data[j] = X[b + j]
          /\ \A j \in 1..m : data[j].of \in 1..Len(requests)
  BY <1>4, PieceIsSent
<1>6. QED
  BY <1>2, <1>3, <1>4, <1>5

\* The first a tokens of request i are the last of r that were read, and the n
\* that follow are of the same request.
ReadSoFar(requests, i, a, r) == r = Len(Streams(requests)[i - 1]) + a
FollowedBy(requests, i, r, n) == \A j \in 1..n : Sent(requests)[r + j].of = i

\* A piece that is all of one request, after the first tokens of that request.
LEMMA PieceOfRequest ==
    ASSUME NEW requests \in Seq(Shapes), NEW i \in 1..Len(requests),
           NEW a \in 0..Len(Tokens(i, requests[i])), NEW n \in Nat \ {0}, NEW r \in Nat,
           ReadSoFar(requests, i, a, r),
           r + n <= Len(Sent(requests)),
           FollowedBy(requests, i, r, n)
    PROVE  LET T == Tokens(i, requests[i])
           IN  /\ a + n \in 1..Len(T)
               /\ SubSeq(T, 1, a) \o SubSeq(Sent(requests), r + 1, r + n) = SubSeq(T, 1, a + n)
<1> DEFINE T == Tokens(i, requests[i])
           s == Streams(requests)
           X == Sent(requests)
           start == Len(s[i - 1])
           u == SubSeq(X, r + 1, r + n)
           v == SubSeq(T, a + 1, a + n)
<1>1. /\ s[i - 1] \in Seq(TokenType) /\ T \in Seq(TokenType) /\ Len(T) \in Nat \ {0, 1}
      /\ Len(s[i]) = start + Len(T)
  BY RequestEnds
<1>2. X \in Seq(TokenType) /\ Len(X) \in Nat
  BY SentIsTokens
<1>3. ASSUME NEW q \in 1..Len(T)
      PROVE  X[start + q] = T[q]
  BY RequestIsSent
<1>4. PICK l \in Nat : l = Len(T)
  BY <1>1
<1>5. PICK b \in Nat : b = start
  BY <1>1
<1>6. PICK x \in Nat : x = Len(X)
  BY <1>2
<1>7. a \in Nat /\ a <= l /\ r = b + a /\ r + n <= x
  <2>1. r = b + a
    BY <1>5 DEF ReadSoFar
  <2>2. QED
    BY <1>4, <1>6, <2>1
<1>8. ASSUME NEW p \in 1..x, X[p].of = i
      PROVE  p <= b + l
  <2>1. PICK k \in 1..Len(requests) :
            \E q \in 1..Len(Tokens(k, requests[k])) : p = Len(s[k - 1]) + q
    BY <1>6, SentIsOfRequests
  <2>2. PICK q \in 1..Len(Tokens(k, requests[k])) : p = Len(s[k - 1]) + q
    BY <2>1
  <2>3. X[p].of = k /\ p <= Len(s[k])
    BY <2>2, RequestIsSent
  <2>4. k = i
    BY <1>8, <2>3
  <2>5. QED
    BY <1>1, <1>4, <1>5, <2>3, <2>4
<1>9. \A j \in 1..n : X[r + j].of = i
  BY DEF FollowedBy
<1> HIDE DEF T, s, X, start
<1>10. a + n <= l
  <2>1. SUFFICES ASSUME l < a + n
                 PROVE  FALSE
    BY <1>7
  <2>2. PICK j \in 1..n : j = (l + 1) - a
    BY <1>7, <2>1
  <2>3. r + j \in 1..x /\ r + j = b + l + 1
    <3>1. j \in Nat /\ 1 <= j /\ j <= n /\ a + j = l + 1
      BY <1>7, <2>2
    <3>2. r + j = b + l + 1 /\ r + j <= x /\ 1 <= r + j
      BY <1>7, <3>1
    <3>3. QED
      BY <3>1, <3>2
  <2>4. r + j <= b + l
    BY <1>8, <1>9, <2>3
  <2>5. QED
    BY <2>3, <2>4
<1>11. ASSUME NEW j \in 1..n
      PROVE  X[r + j] = T[a + j]
  <2>1. a + j \in 1..l /\ r + j = b + (a + j)
    BY <1>7, <1>10
  <2>2. QED
    BY <1>3, <1>4, <1>5, <2>1
<1>12. u = v
  <2>1. u \in Seq(TokenType) /\ Len(u) = n /\ \A j \in 1..n : u[j] = X[r + j]
    <3>1. X \in Seq(TokenType) /\ r \in Nat /\ n \in Nat \ {0} /\ r + n <= Len(X)
      BY <1>2, <1>6, <1>7
    <3>2. LET piece == SubSeq(X, r + 1, r + n)
          IN  /\ piece \in Seq(TokenType) /\ Len(piece) = n
              /\ \A j \in 1..n : piece[j] = X[r + j]
      BY <3>1, Segment
    <3>3. QED
      BY <3>2
  <2>2. v \in Seq(TokenType) /\ Len(v) = n /\ \A j \in 1..n : v[j] = T[a + j]
    BY <1>1, <1>4, <1>7, <1>10, Segment
  <2> HIDE DEF u, v
  <2>3. \A j \in 1..Len(u) : u[j] = v[j]
    BY <1>11, <2>1, <2>2
  <2>4. QED
    BY <2>1, <2>2, <2>3, SeqEqual
<1>13. SubSeq(T, 1, a) \o v = SubSeq(T, 1, a + n)
  <2>1. 1 \in 1..Len(T) + 1 /\ a \in 1 - 1..Len(T) /\ a + n \in a..Len(T)
    BY <1>1, <1>4, <1>7, <1>10
  <2>2. QED
    BY <1>1, <2>1, ConcatAdjacentSubSeq
<1>14. a + n \in 1..Len(T)
  BY <1>4, <1>7, <1>10
<1>15. QED
  BY <1>12, <1>13, <1>14 DEF T, X

-----------------------------------------------------------------------------
(* What is read and handled on one connection. *)

Handlings == [of : Nat, size : Nat]

\* Expected, with the connection's requests as a parameter.
ExpectedOf(requests, tokens) ==
    HeaderSize(tokens)
    + (IF Positions(tokens, "length") = {} THEN 0
       ELSE Sum(requests[tokens[Max(Positions(tokens, "length"))].of]))

\* The bytes of any part are a number.
LEMMA BytesAreANumber ==
    ASSUME NEW tokens \in Seq(TokenType), NEW a \in 0..Len(tokens), NEW b \in a..Len(tokens)
    PROVE  Bytes(SubSeq(tokens, a + 1, b)) \in Nat
<1> DEFINE lengths == Sizes(tokens)
<1>1. lengths \in Lengths /\ Len(lengths) = Len(tokens)
  <2>1. Len(tokens) \in Nat /\ DOMAIN tokens = 1..Len(tokens)
        /\ \A i \in 1..Len(tokens) : tokens[i] \in TokenType
    OBVIOUS
  <2>2. \A i \in 1..Len(tokens) : tokens[i].size \in Nat \ {0}
    BY <2>1 DEF TokenType
  <2>3. Sizes(tokens) = [i \in 1..Len(tokens) |-> tokens[i].size]
    BY <2>1 DEF Sizes
  <2>4. QED
    BY <2>1, <2>2, <2>3 DEF Lengths
<1> HIDE DEF lengths
<1>2. Bytes(SubSeq(tokens, a + 1, b)) = Sums(lengths)[b] - Sums(lengths)[a]
  BY BytesOfPart DEF lengths
<1>3. /\ Sums(lengths)[a] \in Nat /\ Sums(lengths)[b] \in Nat
      /\ Sums(lengths)[a] <= Sums(lengths)[b]
  BY <1>1, SumOfPart DEF Lengths
<1>4. QED
  BY <1>2, <1>3

\* The sum of a request's lengths is a number.
LEMMA SumIsANumber ==
    ASSUME NEW shape \in Lengths
    PROVE  Sum(shape) \in Nat
<1>1. Len(shape) \in Nat
  BY DEF Lengths
<1>2. Sums(shape)[Len(shape)] \in Nat
  BY <1>1, SumOfPart DEF Lengths
<1>3. QED
  BY <1>2 DEF Sum

\* HttpHeaders and HttpRequest read numbers from whatever starts with a line.
LEMMA MessageIsRead ==
    ASSUME NEW requests \in Seq(Shapes), NEW tokens \in Seq(TokenType), Len(tokens) > 0,
           \A j \in 1..Len(tokens) : tokens[j].of \in 1..Len(requests)
    PROVE  /\ ExpectedOf(requests, tokens) \in Nat
           /\ tokens[1].kind = "line" => /\ Decoded(tokens) \in Handlings
                                         /\ Decoded(tokens).of = tokens[1].of
<1>1. PICK l \in Nat \ {0} : l = Len(tokens)
  OBVIOUS
<1>2. DOMAIN tokens = 1..l
  BY <1>1
<1>3. \A kind : Positions(tokens, kind) \subseteq 1..l
  BY <1>2 DEF Positions
<1>4. HeaderSize(tokens) \in Nat
  <2>1. CASE Positions(tokens, "end") = {}
    BY <2>1 DEF HeaderSize
  <2>2. CASE Positions(tokens, "end") # {}
    <3>1. PICK m \in 1..l : m = Min(Positions(tokens, "end"))
      BY <1>3, <2>2, Extremes
    <3>2. Bytes(SubSeq(tokens, 0 + 1, m)) \in Nat
      BY <1>1, <3>1, BytesAreANumber
    <3>3. QED
      BY <2>2, <3>1, <3>2 DEF HeaderSize
  <2>3. QED
    BY <2>1, <2>2
<1>5. ExpectedOf(requests, tokens) \in Nat
  <2>1. CASE Positions(tokens, "length") = {}
    BY <1>4, <2>1 DEF ExpectedOf
  <2>2. CASE Positions(tokens, "length") # {}
    <3>1. PICK m \in 1..l : m = Max(Positions(tokens, "length"))
      BY <1>3, <2>2, Extremes
    <3>2. PICK i \in 1..Len(requests) : i = tokens[m].of
      BY <1>1, <3>1
    <3>3. requests[i] \in Lengths
      BY ShapesAreLengths
    <3>4. Sum(requests[i]) \in Nat
      BY <3>3, SumIsANumber
    <3>5. QED
      BY <1>4, <2>2, <3>1, <3>2, <3>4 DEF ExpectedOf
  <2>3. QED
    BY <2>1, <2>2
<1>6. ASSUME tokens[1].kind = "line"
      PROVE  Decoded(tokens) \in Handlings /\ Decoded(tokens).of = tokens[1].of
  <2> DEFINE lines == DOMAIN tokens \ Positions(tokens, "content")
  <2>1. 1 \in lines /\ lines \subseteq 1..l
    BY <1>2, <1>6 DEF Positions
  <2>2. PICK m \in 1..l : m = Max(lines)
    <3> HIDE DEF lines
    <3> QED BY <2>1, Extremes
  <2>3. Bytes(SubSeq(tokens, m + 1, l)) \in Nat
    BY <1>1, <2>2, BytesAreANumber
  <2>4. Decoded(tokens) = [of |-> tokens[1].of, size |-> Bytes(SubSeq(tokens, m + 1, l))]
    BY <1>1, <2>2 DEF Decoded
  <2>5. tokens[1].of \in Nat
    BY <1>1 DEF TokenType
  <2>6. QED
    BY <2>3, <2>4, <2>5 DEF Handlings
<1>7. QED
  BY <1>5, <1>6

\* What is kept is the last of what was read, starting with a line; what was
\* handled came before, and no request came twice.
Apart(requests, r, data, done) ==
    LET b == r - Len(data)
        X == Sent(requests)
    IN  /\ Len(data) <= r /\ r <= Len(X)
        /\ data = SubSeq(X, b + 1, r)
        /\ data # <<>> => data[1].kind = "line"
        /\ \A i \in 1..Len(done) : \E p \in 1..b : X[p].of = done[i].of
        /\ \A i, j \in 1..Len(done) : i < j => done[i].of < done[j].of

\* What is kept, and the next piece.
Joined(requests, r, n, data) == data \o SubSeq(Sent(requests), r + 1, r + n)

\* The next piece is dropped.
LEMMA ApartDropped ==
    ASSUME NEW requests \in Seq(Shapes), NEW r \in Nat, NEW n \in Nat \ {0},
           r + n <= Len(Sent(requests)), NEW done \in Seq(Handlings),
           Apart(requests, r, <<>>, done)
    PROVE  Apart(requests, r + n, <<>>, done)
<1> DEFINE X == Sent(requests)
<1>1. X \in Seq(TokenType) /\ Len(X) \in Nat /\ r + n <= Len(X)
  BY SentIsTokens
<1>2. Len(<<>>) = 0
  OBVIOUS
<1>3. /\ \A i \in 1..Len(done) : \E p \in 1..r : X[p].of = done[i].of
      /\ \A i, j \in 1..Len(done) : i < j => done[i].of < done[j].of
  <2>1. r - Len(<<>>) = r
    BY <1>2
  <2>2. /\ \A i \in 1..Len(done) : \E p \in 1..r - Len(<<>>) : X[p].of = done[i].of
        /\ \A i, j \in 1..Len(done) : i < j => done[i].of < done[j].of
    BY DEF Apart
  <2>3. QED
    BY <2>1, <2>2
<1>4. \A p \in 1..r : p \in 1..r + n
  OBVIOUS
<1>5. SubSeq(X, r + n + 1, r + n) = <<>>
  <2> HIDE DEF X
  <2>1. QED
    BY <1>1
<1>6. QED
  <2> HIDE DEF X
  <2>1. (r + n) - 0 = r + n
    OBVIOUS
  <2>2. QED
    BY <1>1, <1>2, <1>3, <1>4, <1>5, <2>1 DEF Apart, X

\* The next piece is appended and kept.
LEMMA ApartKept ==
    ASSUME NEW requests \in Seq(Shapes), NEW r \in Nat, NEW n \in Nat \ {0},
           r + n <= Len(Sent(requests)), NEW done \in Seq(Handlings), NEW data \in Seq(TokenType),
           Apart(requests, r, data, done),
           NEW all, all = Joined(requests, r, n, data), Decodes(all)
    PROVE  /\ Apart(requests, r + n, all, done)
           /\ all \in Seq(TokenType) /\ Len(all) > 0
           /\ \A j \in 1..Len(all) : all[j].of \in 1..Len(requests)
<1> DEFINE X == Sent(requests)
<1>1. X \in Seq(TokenType) /\ Len(X) \in Nat /\ r + n <= Len(X)
  BY SentIsTokens
<1>2. PICK l \in Nat : l = Len(data)
  OBVIOUS
<1>3. l <= r
  BY <1>2 DEF Apart
<1>4. PICK b \in Nat : b = r - l
  BY <1>3
<1>5. /\ data = SubSeq(X, b + 1, r)
      /\ \A i \in 1..Len(done) : \E p \in 1..b : X[p].of = done[i].of
      /\ \A i, j \in 1..Len(done) : i < j => done[i].of < done[j].of
  BY <1>2, <1>4 DEF Apart
<1>6. /\ all = SubSeq(X, b + 1, r + n)
      /\ all \in Seq(TokenType) /\ Len(all) = r + n - b
      /\ \A j \in 1..r + n - b : all[j].of \in 1..Len(requests)
  <2>1. b <= r
    BY <1>3, <1>4
  <2>2. LET Y == Sent(requests)
            data2 == SubSeq(Y, b + 1, r) \o SubSeq(Y, r + 1, r + n)
        IN  /\ data2 = SubSeq(Y, b + 1, r + n)
            /\ data2 \in Seq(TokenType) /\ Len(data2) = r + n - b
            /\ \A j \in 1..r + n - b : data2[j] = Y[b + j]
            /\ \A j \in 1..r + n - b : data2[j].of \in 1..Len(requests)
    BY <2>1, PieceIsAppended
  <2>3. all = SubSeq(X, b + 1, r) \o SubSeq(X, r + 1, r + n)
    BY <1>5 DEF Joined
  <2>4. b <= r + n
    BY <1>3, <1>4
  <2>5. QED
    BY <2>2, <2>3, <2>4
<1>7. Len(all) <= r + n /\ (r + n) - Len(all) = b /\ Len(all) > 0
  <2>1. Len(all) = r + n - b /\ b <= r
    BY <1>3, <1>4, <1>6
  <2>2. QED
    BY <2>1
<1> HIDE DEF X
<1>8. QED
  BY <1>1, <1>5, <1>6, <1>7 DEF Apart, Decodes, X

\* The next piece is appended, and the request is handled.
LEMMA ApartHandled ==
    ASSUME NEW requests \in Seq(Shapes), NEW r \in Nat, NEW done \in Seq(Handlings),
           NEW all \in Seq(TokenType), Len(all) > 0, all[1].kind = "line",
           Apart(requests, r, all, done),
           NEW result \in Handlings, result.of = all[1].of
    PROVE  Apart(requests, r, <<>>, Append(done, result))
<1> DEFINE X == Sent(requests)
<1>1. X \in Seq(TokenType) /\ Len(X) \in Nat
  BY SentIsTokens
<1>2. PICK l \in Nat \ {0} : l = Len(all)
  OBVIOUS
<1>3. l <= r /\ r <= Len(X)
  BY <1>2 DEF Apart
<1>4. PICK b \in Nat : b = r - l
  BY <1>3
<1>5. /\ all = SubSeq(X, b + 1, b + l)
      /\ \A i \in 1..Len(done) : \E p \in 1..b : X[p].of = done[i].of
      /\ \A i, j \in 1..Len(done) : i < j => done[i].of < done[j].of
  <2>1. b + l = r
    BY <1>3, <1>4
  <2>2. QED
    BY <1>2, <1>4, <2>1 DEF Apart
<1>6. b + l = r /\ b + 1 \in 1..r /\ b + 1 \in 1..Len(X) /\ b + l <= Len(X)
  BY <1>1, <1>3, <1>4
<1>7. all[1] = X[b + 1]
  <2> DEFINE section == SubSeq(X, b + 1, b + l)
  <2>1. \A j \in 1..l : section[j] = X[b + j]
    <3> HIDE DEF X
    <3>1. section \in Seq(TokenType) /\ Len(section) = l /\ \A j \in 1..l : section[j] = X[b + j]
      BY <1>1, <1>6, Segment
    <3>2. QED
      BY <3>1
  <2>2. 1 \in 1..l
    OBVIOUS
  <2>3. QED
    BY <1>5, <2>1, <2>2
<1>8. ASSUME NEW i \in 1..Len(done)
      PROVE  done[i].of < result.of
  <2>1. PICK p \in 1..b : X[p].of = done[i].of
    BY <1>5
  <2>2. p \in 1..Len(X) /\ p < b + 1
    BY <1>6
  <2>3. X[p].of < X[b + 1].of
    BY <1>6, <1>7, <2>2, SentInOrder
  <2>4. QED
    BY <1>7, <2>1, <2>3
<1> DEFINE now == Append(done, result)
<1>9. PICK d \in Nat : d = Len(done)
  OBVIOUS
<1>10. Len(now) = d + 1 /\ now[d + 1] = result /\ \A i \in 1..d : now[i] = done[i]
  BY <1>9
<1> HIDE DEF X, now
<1>11. ASSUME NEW i \in 1..Len(now)
       PROVE  \E p \in 1..r : X[p].of = now[i].of
  <2>1. CASE i = d + 1
    BY <1>6, <1>7, <1>10, <2>1
  <2>2. CASE i # d + 1
    <3>1. i \in 1..d
      BY <1>10, <2>2
    <3>2. PICK p \in 1..b : X[p].of = done[i].of
      BY <1>5, <1>9, <3>1
    <3>3. p \in 1..r
      BY <1>6
    <3>4. QED
      BY <1>10, <3>1, <3>2, <3>3
  <2>3. QED
    BY <2>1, <2>2
<1>12. ASSUME NEW i \in 1..Len(now), NEW j \in 1..Len(now), i < j
       PROVE  now[i].of < now[j].of
  <2>1. i \in 1..d
    BY <1>10, <1>12
  <2>2. CASE j = d + 1
    BY <1>8, <1>9, <1>10, <2>1, <2>2
  <2>3. CASE j # d + 1
    <3>1. j \in 1..d
      BY <1>10, <2>3
    <3>2. QED
      BY <1>5, <1>9, <1>10, <1>12, <2>1, <3>1
  <2>4. QED
    BY <2>2, <2>3
<1>13. <<>> = SubSeq(X, r + 1, r)
  BY <1>1
<1>14. Len(<<>>) = 0 /\ r - 0 = r /\ Len(<<>>) <= r
  OBVIOUS
<1>15. /\ Len(<<>>) <= r /\ r <= Len(X)
       /\ <<>> = SubSeq(X, (r - Len(<<>>)) + 1, r)
       /\ \A i \in 1..Len(now) : \E p \in 1..r - Len(<<>>) : X[p].of = now[i].of
       /\ \A i, j \in 1..Len(now) : i < j => now[i].of < now[j].of
  BY <1>3, <1>11, <1>12, <1>13, <1>14
<1>16. QED
  BY <1>15 DEF Apart, X, now

-----------------------------------------------------------------------------
(* What is read and handled while the pieces are tidy. *)

\* The first n requests were handled; of the next one, if anything was read, the
\* header was, and not all of the rest.
WholeAt(requests, r, data, expected, done, n) ==
    LET i == n + 1
        T == Tokens(i, requests[i])
    IN  /\ done = [j \in 1..n |-> [of |-> j, size |-> Sum(requests[j])]]
        /\ r = Len(Streams(requests)[n]) + Len(data)
        /\ data # <<>> =>
            /\ n < Len(requests)
            /\ HeaderTokens(requests[i]) <= Len(data) /\ Len(data) < Len(T)
            /\ data = SubSeq(T, 1, Len(data))
            /\ expected = HeaderBytes(requests[i]) + Sum(requests[i])

Whole(requests, r, data, expected, done) ==
    \E n \in 0..Len(requests) : WholeAt(requests, r, data, expected, done, n)

\* IsTidy and readyRead's choice of the expected size, for the joined pieces.
TidyPiece(requests, r, n, data) == IsTidy(data, SubSeq(Sent(requests), r + 1, r + n))

NextExpected(requests, r, n, data, expected) ==
    IF data = <<>> THEN ExpectedOf(requests, SubSeq(Sent(requests), r + 1, r + n)) ELSE expected

\* When so much of the next request was read, a tidy piece brings more of it, the
\* size that is expected is that of the request, and it is complete at its end.
LEMMA TidyPieceIsOfRequest ==
    ASSUME NEW requests \in Seq(Shapes), NEW r \in Nat, NEW n \in Nat \ {0},
           r + n <= Len(Sent(requests)),
           NEW data \in Seq(TokenType), NEW expected, NEW done,
           NEW k \in 0..Len(requests), WholeAt(requests, r, data, expected, done, k),
           TidyPiece(requests, r, n, data)
    PROVE  LET T == Tokens(k + 1, requests[k + 1])
               all == Joined(requests, r, n, data)
               m == Len(data) + n
           IN  /\ k < Len(requests)
               /\ HeaderTokens(requests[k + 1]) <= m /\ m <= Len(T)
               /\ all = SubSeq(T, 1, m)
               /\ NextExpected(requests, r, n, data, expected)
                    = HeaderBytes(requests[k + 1]) + Sum(requests[k + 1])
<1> DEFINE X == Sent(requests)
           s == Streams(requests)
           piece == SubSeq(X, r + 1, r + n)
<1>1. PICK a \in Nat : a = Len(data)
  <2>1. Len(data) \in Nat
    OBVIOUS
  <2>2. QED
    BY <2>1
<1>2. X \in Seq(TokenType) /\ Len(X) \in Nat /\ r + n <= Len(X) /\ X = s[Len(requests)]
  BY SentIsTokens DEF Sent
<1>3. Len(requests) \in Nat
  OBVIOUS
<1>4. piece \in Seq(TokenType) /\ Len(piece) = n /\ \A j \in 1..n : piece[j] = X[r + j]
  BY PieceIsSent
<1>5. r = Len(s[k]) + a
  BY <1>1 DEF WholeAt
<1>6. k < Len(requests)
  <2>1. SUFFICES ASSUME k = Len(requests)
                 PROVE  FALSE
    BY <1>3
  <2>2. r = Len(X) + a
    BY <1>2, <1>5, <2>1
  <2>3. QED
    <3> HIDE DEF X
    <3> QED BY <1>1, <1>2, <2>2
<1>7. PICK i \in 1..Len(requests) : i = k + 1
  BY <1>3, <1>6
<1> DEFINE T == Tokens(i, requests[i])
           start == Len(s[i - 1])
<1>8. k = i - 1 /\ r = start + a
  BY <1>5, <1>7
<1>9. /\ requests[i] \in Lengths /\ i \in Nat
      /\ T \in Seq(TokenType) /\ Len(T) \in Nat \ {0, 1} /\ start \in Nat
  <2>1. /\ s[i - 1] \in Seq(TokenType) /\ s[i] \in Seq(TokenType)
        /\ requests[i] \in Lengths
        /\ T \in Seq(TokenType) /\ Len(T) \in Nat \ {0, 1}
        /\ Len(s[i]) = Len(s[i - 1]) + Len(T)
    BY RequestEnds
  <2>2. QED
    BY <2>1
<1>10. data # <<>> =>
            /\ HeaderTokens(requests[i]) <= a /\ a < Len(T)
            /\ data = SubSeq(T, 1, a)
            /\ expected = HeaderBytes(requests[i]) + Sum(requests[i])
  BY <1>1, <1>7 DEF WholeAt
<1>11. data = <<>> => a = 0 /\ data = SubSeq(T, 1, a)
  <2> HIDE DEF T
  <2>1. SubSeq(T, 1, 0) = <<>>
    BY <1>9
  <2>2. QED
    BY <1>1, <2>1
<1>12. a \in 0..Len(T) /\ data = SubSeq(T, 1, a)
  <2> HIDE DEF T
  <2>1. CASE data = <<>>
    BY <1>9, <1>11, <2>1
  <2>2. CASE data # <<>>
    BY <1>1, <1>9, <1>10, <2>2
  <2>3. QED
    BY <2>1, <2>2
<1> DEFINE all == data \o piece
<1>13. IsTidy(data, piece)
  BY DEF TidyPiece
<1>14. all[1].of = i
  <2>1. CASE data = <<>>
    <3>1. all = piece /\ 1 \in 1..n
      <4> HIDE DEF piece
      <4> QED BY <1>4, <2>1
    <3>2. piece[1] = X[r + 1]
      BY <1>4, <3>1
    <3>3. 1 \in 1..Len(T) /\ start + 1 = r + 1
      <4> HIDE DEF T, start
      <4> QED BY <1>8, <1>9, <1>11, <2>1
    <3>4. X[start + 1].of = i
      BY <3>3, RequestIsSent
    <3>5. QED
      BY <3>1, <3>2, <3>3, <3>4
  <2>2. CASE data # <<>>
    <3>1. a # 0 /\ 1 \in 1..a
      BY <1>1, <2>2
    <3>2. all[1] = data[1]
      <4> HIDE DEF piece
      <4> QED BY <1>1, <1>4, <3>1
    <3>3. data[1] = T[1]
      <4>1. a \in 1..Len(T)
        <5> HIDE DEF T
        <5> QED BY <1>9, <1>12, <3>1
      <4>2. \A j \in 1..a : SubSeq(T, 1, a)[j] = T[j]
        BY <1>9, <4>1, FirstTokens
      <4>3. QED
        BY <1>12, <3>1, <4>2
    <3>4. T[1].of = i
      <4>1. 1 \in 1..Len(T)
        <5> HIDE DEF T
        <5> QED BY <1>9
      <4>2. QED
        BY <1>9, <4>1, TokensOfRequest
    <3>5. QED
      BY <3>2, <3>3, <3>4
  <2>3. QED
    BY <2>1, <2>2
<1>15. \A j \in 1..n : X[r + j].of = i
  <2>1. \A j \in DOMAIN piece : piece[j].of = Head(all).of
    BY <1>13 DEF IsTidy
  <2>2. DOMAIN piece = 1..n /\ Head(all) = all[1]
    <3> HIDE DEF piece
    <3>1. Len(all) > 0 /\ all # <<>>
      BY <1>4
    <3>2. QED
      BY <1>4, <3>1
  <2>3. QED
    BY <1>4, <1>14, <2>1, <2>2
<1>16. a + n \in 1..Len(T) /\ all = SubSeq(T, 1, a + n)
  <2>1. LET U == Tokens(i, requests[i])
        IN  /\ a + n \in 1..Len(U)
            /\ SubSeq(U, 1, a) \o SubSeq(Sent(requests), r + 1, r + n) = SubSeq(U, 1, a + n)
    <3>1. ReadSoFar(requests, i, a, r)
      BY <1>8 DEF ReadSoFar
    <3>2. FollowedBy(requests, i, r, n)
      BY <1>15 DEF FollowedBy
    <3>3. QED
      BY <1>12, <3>1, <3>2, PieceOfRequest
  <2>2. QED
    BY <1>12, <2>1
<1>17. HeaderTokens(requests[i]) <= a + n
  <2>1. CASE data # <<>>
    <3>1. HeaderTokens(requests[i]) \in Nat
      BY DEF HeaderTokens
    <3>2. QED
      BY <1>10, <2>1, <3>1
  <2>2. CASE data = <<>>
    <3>1. Positions(piece, "end") # {}
      BY <1>13, <2>2 DEF IsTidy
    <3>2. all = piece /\ a = 0
      <4> HIDE DEF piece
      <4> QED BY <1>4, <1>11, <2>2
    <3>3. piece = SubSeq(T, 1, n) /\ n \in 1..Len(T)
      <4>1. a + n = n
        BY <3>2
      <4>2. QED
        BY <1>16, <3>2, <4>1
    <3> DEFINE h == HeaderTokens(requests[i])
    <3>4. Positions(SubSeq(T, 1, n), "end") = IF n >= h THEN {h} ELSE {}
      BY <1>9, <3>3, FirstEnd
    <3>5. n >= HeaderTokens(requests[i])
      BY <3>1, <3>3, <3>4
    <3>6. HeaderTokens(requests[i]) \in Nat
      BY DEF HeaderTokens
    <3>7. QED
      BY <3>2, <3>5, <3>6
  <2>3. QED
    BY <2>1, <2>2
<1>18. NextExpected(requests, r, n, data, expected) = HeaderBytes(requests[i]) + Sum(requests[i])
  <2>1. CASE data # <<>>
    BY <1>10, <2>1 DEF NextExpected
  <2>2. CASE data = <<>>
    <3>1. all = piece /\ a = 0
      <4> HIDE DEF piece
      <4> QED BY <1>4, <1>11, <2>2
    <3>2. piece = SubSeq(T, 1, n) /\ n \in 1..Len(T) /\ n >= HeaderTokens(requests[i])
      <4>1. a + n = n
        BY <3>1
      <4>2. HeaderTokens(requests[i]) \in Nat
        BY DEF HeaderTokens
      <4>3. QED
        BY <1>16, <1>17, <3>1, <4>1, <4>2
    <3>3. /\ \A q \in 1..n : piece[q] = T[q]
          /\ Positions(piece, "length") = IF n >= 2 /\ requests[i] # <<>> THEN {2} ELSE {}
          /\ HeaderSize(piece) = HeaderBytes(requests[i])
      <4> DEFINE h == HeaderTokens(requests[i])
                 U == Tokens(i, requests[i])
                 first == SubSeq(U, 1, n)
      <4>1. /\ \A q \in 1..n : first[q] = U[q]
            /\ Positions(first, "length") = IF n >= 2 /\ requests[i] # <<>> THEN {2} ELSE {}
            /\ n >= h => HeaderSize(first) = HeaderBytes(requests[i])
        BY <1>9, <3>2, FirstTokens
      <4>2. QED
        BY <3>2, <4>1
    <3>4. IF Positions(piece, "length") = {} THEN Sum(requests[i]) = 0
          ELSE requests[piece[Max(Positions(piece, "length"))].of] = requests[i]
      <4>1. CASE requests[i] = <<>>
        <5>1. Positions(piece, "length") = {}
          BY <3>3, <4>1
        <5>2. Sum(<<>>) = 0
          <6>1. <<>> \in Seq(Nat) /\ Len(<<>>) = 0 /\ 0 \in 0..0
            OBVIOUS
          <6>2. Sums(<<>>)[0] = 0
            BY <6>1, SumsAdd DEF Adds, AddsUpTo
          <6>3. QED
            BY <6>1, <6>2 DEF Sum
        <5>3. QED
          BY <4>1, <5>1, <5>2
      <4>2. CASE requests[i] # <<>>
        <5>1. n >= 3 /\ n >= 2
          BY <3>2, <4>2 DEF HeaderTokens
        <5>2. Positions(piece, "length") = {2}
          BY <3>3, <4>2, <5>1
        <5>3. Max({2}) = 2
          <6>1. {2} \subseteq 1..2 /\ {2} # {}
            OBVIOUS
          <6>2. Max({2}) \in {2}
            BY <6>1, Extremes
          <6>3. QED
            BY <6>2
        <5>4. 2 \in 1..n /\ 2 \in 1..Len(T)
          <6> HIDE DEF T
          <6> QED BY <1>9, <3>2, <5>1
        <5>5. piece[2].of = i
          <6>1. T[2].of = i
            BY <1>9, <5>4, TokensOfRequest
          <6>2. QED
            BY <3>3, <5>4, <6>1
        <5>6. QED
          BY <5>2, <5>3, <5>5
      <4>3. QED
        BY <4>1, <4>2
    <3>5. HeaderBytes(requests[i]) \in Nat
      BY DEF HeaderBytes, LineSize, EndSize
    <3>6. ExpectedOf(requests, piece) = HeaderBytes(requests[i]) + Sum(requests[i])
      <4> HIDE DEF piece
      <4>1. CASE Positions(piece, "length") = {}
        BY <3>3, <3>4, <3>5, <4>1 DEF ExpectedOf
      <4>2. CASE Positions(piece, "length") # {}
        BY <3>3, <3>4, <3>5, <4>2 DEF ExpectedOf
      <4>3. QED
        BY <4>1, <4>2
    <3>7. QED
      BY <2>2, <3>6 DEF NextExpected
  <2>3. QED
    BY <2>1, <2>2
<1>19. QED
  BY <1>1, <1>6, <1>7, <1>9, <1>16, <1>17, <1>18 DEF Joined

\* A request is complete when its bytes are there, and is decoded as it was sent.
LEMMA AllOfRequest ==
    ASSUME NEW i \in Nat, NEW shape \in Lengths, NEW m \in 1..Len(Tokens(i, shape))
    PROVE  LET T == Tokens(i, shape)
               data == SubSeq(T, 1, m)
           IN  /\ Bytes(data) >= HeaderBytes(shape) + Sum(shape) <=> m = Len(T)
               /\ m = Len(T) => Decoded(data) = [of |-> i, size |-> Sum(shape)]
BY FirstTokens

\* A tidy piece that does not complete the request, and one that does.
LEMMA WholeIsKept ==
    ASSUME NEW requests \in Seq(Shapes), NEW r \in Nat, NEW n \in Nat \ {0},
           r + n <= Len(Sent(requests)),
           NEW data \in Seq(TokenType), NEW expected, NEW done \in Seq(Handlings),
           Whole(requests, r, data, expected, done),
           TidyPiece(requests, r, n, data)
    PROVE  LET all == Joined(requests, r, n, data)
               e == NextExpected(requests, r, n, data, expected)
           IN  IF Bytes(all) >= e
               THEN Whole(requests, r + n, <<>>, e, Append(done, Decoded(all)))
               ELSE Whole(requests, r + n, all, e, done)
<1> DEFINE all == Joined(requests, r, n, data)
           e == NextExpected(requests, r, n, data, expected)
           s == Streams(requests)
<1>1. PICK k \in 0..Len(requests) : WholeAt(requests, r, data, expected, done, k)
  BY DEF Whole
<1>2. Len(requests) \in Nat /\ Len(data) \in Nat
  OBVIOUS
<1>3. PICK m \in Nat \ {0} : m = Len(data) + n
  BY <1>2
<1>4. /\ k < Len(requests)
      /\ HeaderTokens(requests[k + 1]) <= m /\ m <= Len(Tokens(k + 1, requests[k + 1]))
      /\ all = SubSeq(Tokens(k + 1, requests[k + 1]), 1, m)
      /\ e = HeaderBytes(requests[k + 1]) + Sum(requests[k + 1])
  BY <1>1, <1>3, TidyPieceIsOfRequest
<1>5. PICK i \in 1..Len(requests) : i = k + 1
  BY <1>2, <1>4
<1> DEFINE T == Tokens(i, requests[i])
           start == Len(s[i - 1])
<1>6. /\ requests[i] \in Lengths /\ i \in Nat
      /\ T \in Seq(TokenType) /\ Len(T) \in Nat \ {0, 1} /\ start \in Nat
      /\ Len(s[i]) = start + Len(T)
  <2>1. /\ s[i - 1] \in Seq(TokenType) /\ s[i] \in Seq(TokenType)
        /\ requests[i] \in Lengths
        /\ T \in Seq(TokenType) /\ Len(T) \in Nat \ {0, 1}
        /\ Len(s[i]) = Len(s[i - 1]) + Len(T)
    BY RequestEnds
  <2>2. QED
    BY <2>1
<1>7. k = i - 1 /\ k \in Nat
  BY <1>5
<1>8. /\ HeaderTokens(requests[i]) <= m /\ m \in 1..Len(T)
      /\ all = SubSeq(T, 1, m)
      /\ e = HeaderBytes(requests[i]) + Sum(requests[i])
  <2> HIDE DEF e, all
  <2>1. m <= Len(T)
    BY <1>4, <1>5
  <2>2. m \in 1..Len(T)
    <3> HIDE DEF T
    <3> QED BY <1>6, <2>1
  <2>3. QED
    BY <1>4, <1>5, <2>2
<1>9. Len(all) = m /\ (Bytes(all) >= e <=> m = Len(T))
      /\ (m = Len(T) => Decoded(all) = [of |-> i, size |-> Sum(requests[i])])
  <2> DEFINE first == SubSeq(T, 1, m)
  <2>1. Len(first) = m
    BY <1>6, <1>8, FirstTokens
  <2>2. /\ Bytes(first) >= HeaderBytes(requests[i]) + Sum(requests[i]) <=> m = Len(T)
        /\ m = Len(T) => Decoded(first) = [of |-> i, size |-> Sum(requests[i])]
    BY <1>6, <1>8, AllOfRequest
  <2> HIDE DEF first, e, all, T
  <2>3. all = first /\ e = HeaderBytes(requests[i]) + Sum(requests[i])
    BY <1>8 DEF first
  <2>4. QED
    BY <2>1, <2>2, <2>3
<1> DEFINE Entry(j) == [of |-> j, size |-> Sum(requests[j])]
<1>10. done = [j \in 1..i - 1 |-> Entry(j)] /\ r + n = start + m
  <2>1. done = [j \in 1..k |-> Entry(j)] /\ r = Len(s[k]) + Len(data)
    BY <1>1 DEF WholeAt
  <2>2. r = start + Len(data)
    BY <1>7, <2>1
  <2>3. r + n = start + m
    <3> HIDE DEF start
    <3> QED BY <1>2, <1>3, <1>6, <2>2
  <2>4. QED
    BY <1>7, <2>1, <2>3
<1> HIDE DEF all, e
<1>11. CASE Bytes(all) >= e
  <2>1. m = Len(T) /\ Decoded(all) = Entry(i)
    BY <1>9, <1>11
  <2>2. r + n = Len(s[i]) + 0
    <3> HIDE DEF T, s, start
    <3> QED BY <1>6, <1>10, <2>1
  <2> DEFINE now == Append(done, Decoded(all))
  <2>3. now = [j \in 1..i |-> Entry(j)]
    <3> HIDE DEF Entry
    <3>1. Len(done) = i - 1 /\ DOMAIN done = 1..i - 1
      <4>1. DOMAIN done = 1..i - 1 /\ i - 1 \in Nat
        BY <1>7, <1>10
      <4>2. DOMAIN done = 1..Len(done) /\ Len(done) \in Nat
        OBVIOUS
      <4>3. QED
        BY <4>1, <4>2
    <3>2. Decoded(all) \in Handlings
      <4>1. Sum(requests[i]) \in Nat
        BY <1>6, SumIsANumber
      <4>2. QED
        BY <1>6, <2>1, <4>1 DEF Handlings, Entry
    <3>3. PICK x \in Handlings : x = Decoded(all)
      BY <3>2
    <3>4. /\ now \in Seq(Handlings) /\ Len(now) = Len(done) + 1
          /\ \A j \in 1..Len(done) : now[j] = done[j]
          /\ now[Len(done) + 1] = x
      BY <3>3, AppendProperties
    <3> HIDE DEF now
    <3>5. Len(done) = i - 1 /\ Len(done) + 1 = i /\ \A j \in 1..i : j # i => j \in 1..i - 1
      BY <1>6, <3>1
    <3>6. now = [j \in 1..i |-> now[j]]
      BY <3>4, <3>5
    <3>7. \A j \in 1..i : now[j] = Entry(j)
      BY <1>10, <2>1, <3>3, <3>4, <3>5
    <3>8. QED
      BY <3>6, <3>7
  <2>4. WholeAt(requests, r + n, <<>>, e, now, i)
    <3>1. Len(<<>>) = 0
      OBVIOUS
    <3>2. QED
      BY <2>2, <2>3, <3>1 DEF WholeAt
  <2>5. Whole(requests, r + n, <<>>, e, now)
    <3>1. i \in 0..Len(requests)
      BY <1>2
    <3>2. QED
      BY <2>4, <3>1 DEF Whole
  <2>6. QED
    BY <1>11, <2>5 DEF all, e
<1>12. CASE ~(Bytes(all) >= e)
  <2>1. m # Len(T) /\ m < Len(T)
    <3> HIDE DEF T
    <3>1. m # Len(T)
      BY <1>9, <1>12
    <3>2. QED
      BY <1>6, <1>8, <3>1
  <2>2. WholeAt(requests, r + n, all, e, done, k)
    <3>1. k + 1 = i /\ 1..i - 1 = 1..k
      BY <1>5, <1>7
    <3>2. done = [j \in 1..k |-> [of |-> j, size |-> Sum(requests[j])]]
      BY <1>10, <3>1
    <3>3. r + n = Len(Streams(requests)[k]) + Len(all)
      <4>1. start = Len(Streams(requests)[k])
        BY <1>7
      <4> HIDE DEF start
      <4>2. QED
        BY <1>9, <1>10, <4>1
    <3>4. all = SubSeq(T, 1, Len(all)) /\ HeaderTokens(requests[i]) <= Len(all) /\ Len(all) < Len(T)
      <4> HIDE DEF T
      <4> QED BY <1>8, <1>9, <2>1
    <3>5. QED
      BY <1>4, <1>8, <3>1, <3>2, <3>3, <3>4 DEF WholeAt
  <2>3. QED
    BY <1>12, <2>2 DEF Whole, all, e
<1>13. QED
  BY <1>11, <1>12

\* Then what was handled is the requests that were read to their end.
LEMMA WholeIsComplete ==
    ASSUME NEW requests \in Seq(Shapes), NEW r \in Nat, NEW data \in Seq(TokenType), NEW expected,
           NEW done, Whole(requests, r, data, expected, done)
    PROVE  done = [i \in {j \in DOMAIN requests : Len(Streams(requests)[j]) <= r} |->
                        [of |-> i, size |-> Sum(requests[i])]]
<1> DEFINE s == Streams(requests)
           complete == {j \in DOMAIN requests : Len(s[j]) <= r}
<1>1. PICK k \in 0..Len(requests) : WholeAt(requests, r, data, expected, done, k)
  BY DEF Whole
<1>2. PICK l \in Nat : l = Len(requests)
  <2>1. Len(requests) \in Nat
    OBVIOUS
  <2>2. QED
    BY <2>1
<1>3. DOMAIN requests = 1..l /\ k \in 0..l /\ k \in Nat
  BY <1>2
<1>4. PICK a \in Nat : a = Len(data)
  <2>1. Len(data) \in Nat
    OBVIOUS
  <2>2. QED
    BY <2>1
<1>5. /\ done = [j \in 1..k |-> [of |-> j, size |-> Sum(requests[j])]]
      /\ r = Len(s[k]) + a
      /\ a # 0 => k < l /\ a < Len(Tokens(k + 1, requests[k + 1]))
  <2>1. a # 0 => data # <<>>
    BY <1>4
  <2>2. QED
    BY <1>1, <1>2, <1>4, <2>1 DEF WholeAt
<1>6. ASSUME NEW j \in 1..l
      PROVE  Len(s[j]) \in Nat /\ Len(s[k]) \in Nat /\ (Len(s[j]) <= r <=> j <= k)
  <2>1. CASE j <= k
    <3>1. j \in 0..Len(requests) /\ k \in j..Len(requests)
      BY <1>2, <1>3, <2>1
    <3>2. s[j] \in Seq(TokenType) /\ s[k] \in Seq(TokenType) /\ Len(s[j]) <= Len(s[k])
      BY <3>1, StreamsExtend
    <3>3. Len(s[j]) \in Nat /\ Len(s[k]) \in Nat
      BY <3>2
    <3> HIDE DEF s
    <3>4. QED
      BY <1>5, <2>1, <3>2, <3>3
  <2>2. CASE ~(j <= k)
    <3>1. PICK i \in 1..Len(requests) : i = k + 1
      BY <1>2, <1>3, <2>2
    <3> DEFINE T == Tokens(i, requests[i])
    <3>2. /\ s[i - 1] \in Seq(TokenType) /\ s[i] \in Seq(TokenType)
          /\ requests[i] \in Lengths
          /\ T \in Seq(TokenType) /\ Len(T) \in Nat \ {0, 1}
          /\ Len(s[i]) = Len(s[i - 1]) + Len(T)
      BY RequestEnds
    <3>3. i \in 0..Len(requests) /\ j \in i..Len(requests)
      BY <1>2, <1>3, <2>2, <3>1
    <3>4. s[j] \in Seq(TokenType) /\ Len(s[i]) <= Len(s[j])
      BY <3>3, StreamsExtend
    <3>5. i - 1 = k
      BY <1>3, <3>1
    <3>6. Len(s[j]) \in Nat /\ Len(s[k]) \in Nat /\ Len(s[i]) \in Nat
      <4>1. s[k] \in Seq(TokenType)
        BY <3>2, <3>5
      <4>2. s[i] \in Seq(TokenType) /\ s[j] \in Seq(TokenType)
        BY <3>2, <3>4
      <4>3. \A q \in Seq(TokenType) : Len(q) \in Nat
        OBVIOUS
      <4> HIDE DEF s
      <4>4. QED
        BY <4>1, <4>2, <4>3
    <3>7. a < Len(T)
      <4>1. CASE a = 0
        BY <3>2, <4>1
      <4>2. CASE a # 0
        BY <1>5, <3>1, <4>2
      <4>3. QED
        BY <4>1, <4>2
    <3>8. Len(s[i]) = Len(s[k]) + Len(T) /\ Len(T) \in Nat
      BY <3>2, <3>5
    <3> HIDE DEF s, T
    <3>9. ~(Len(s[j]) <= r)
      BY <1>5, <3>4, <3>6, <3>7, <3>8
    <3>10. QED
      BY <2>2, <3>6, <3>9
  <2>3. QED
    BY <2>1, <2>2
<1>7. complete = 1..k
  <2>1. complete = {j \in 1..l : j <= k}
    <3> HIDE DEF s
    <3> QED BY <1>3, <1>6
  <2>2. QED
    BY <1>3, <2>1
<1> HIDE DEF complete
<1>8. done = [i \in complete |-> [of |-> i, size |-> Sum(requests[i])]]
  BY <1>5, <1>7
<1>9. QED
  BY <1>8 DEF complete

-----------------------------------------------------------------------------
(* The server. *)

Wires == [open : BOOLEAN, requests : Seq(Shapes), read : Nat]
Contexts == [data : Seq(TokenType), expected : Nat]

ConnectionGood(w, x, done, ok) ==
    /\ Apart(w.requests, w.read, x.data, done)
    /\ ok => Whole(w.requests, w.read, x.data, x.expected, done)
    /\ ~w.open => w.requests = <<>> /\ w.read = 0 /\ x.data = <<>>

\* The server's own record: what it announced, and how often Core was attached.
Listening ==
    /\ server \in [port : 0..PortMod, running : BOOLEAN, listening : BOOLEAN,
                   attached : 0..MaxAttaches + 1, bound : 0..PortMod - 1,
                   announced : 0..PortMod - 1]
    /\ ~server.running => server.attached <= MaxAttaches
    /\ AnnouncedIsBound

Connections ==
    /\ wire \in [Sockets -> Wires]
    /\ contexts \in [Sockets -> Contexts]
    /\ handled \in [Sockets -> Seq(Handlings)]
    /\ tidy \in [Sockets -> BOOLEAN]
    /\ \A c \in Sockets : ConnectionGood(wire[c], contexts[c], handled[c], tidy[c])

ServerInductive == Listening /\ Connections

LEMMA PortsExist == PortMod \in Nat /\ PortMod > 4804 /\ PortMod > Ephemeral
BY DEF PortMod, Ephemeral

\* When a connection is new, nothing was read.
LEMMA ConnectionIsNew ==
    ASSUME NEW requests \in Seq(Shapes), NEW expected
    PROVE  /\ Apart(requests, 0, <<>>, <<>>)
           /\ Whole(requests, 0, <<>>, expected, <<>>)
<1>1. /\ Len(Sent(requests)) \in Nat /\ Sent(requests) \in Seq(TokenType)
      /\ Len(requests) \in Nat /\ Len(<<>>) = 0
  BY SentIsTokens
<1>2. Apart(requests, 0, <<>>, <<>>)
  <2>1. SubSeq(Sent(requests), 1, 0) = <<>>
    BY <1>1
  <2>2. 0 - 0 = 0 /\ 0 + 1 = 1
    OBVIOUS
  <2>3. QED
    BY <1>1, <2>1, <2>2 DEF Apart
<1>3. Streams(requests)[0] = <<>>
  BY StreamsJoin DEF JoinsUpTo
<1>4. WholeAt(requests, 0, <<>>, expected, <<>>, 0)
  <2>1. <<>> = [j \in 1..0 |-> [of |-> j, size |-> Sum(requests[j])]]
    OBVIOUS
  <2>2. QED
    BY <1>1, <1>3, <2>1 DEF WholeAt
<1>5. QED
  BY <1>1, <1>2, <1>4 DEF Whole

\* What happens on one connection leaves the others as they are.
LEMMA OneConnection ==
    ASSUME Connections, NEW c \in Sockets, NEW w \in Wires, NEW x \in Contexts,
           NEW done \in Seq(Handlings), NEW ok \in BOOLEAN, ConnectionGood(w, x, done, ok),
           wire' = [wire EXCEPT ![c] = w], contexts' = [contexts EXCEPT ![c] = x],
           handled' = [handled EXCEPT ![c] = done], tidy' = [tidy EXCEPT ![c] = ok]
    PROVE  Connections'
BY DEF Connections

LEMMA IncomingStep ==
    ASSUME Connections, NEW c \in Sockets, NEW requests \in Seq(Shapes),
           IncomingConnection(c, requests)
    PROVE  Connections'
<1> DEFINE w == [open |-> TRUE, requests |-> requests, read |-> 0]
<1>1. PICK x \in Contexts : x = contexts[c]
  BY DEF Connections
<1>2. x.data = <<>>
  BY <1>1 DEF Connections, ConnectionGood, IncomingConnection
<1>3. ConnectionGood(w, x, <<>>, TRUE)
  BY <1>2, ConnectionIsNew DEF ConnectionGood
<1>4. w \in Wires /\ <<>> \in Seq(Handlings)
  BY DEF Wires
<1>5. contexts' = [contexts EXCEPT ![c] = x]
  BY <1>1 DEF Connections, IncomingConnection
<1>6. QED
  BY <1>3, <1>4, <1>5, OneConnection DEF IncomingConnection

LEMMA DisconnectedStep ==
    ASSUME Connections, NEW c \in Sockets, Disconnected(c)
    PROVE  Connections'
<1> DEFINE w == [open |-> FALSE, requests |-> <<>>, read |-> 0]
<1>1. w \in Wires /\ Unread \in Contexts /\ <<>> \in Seq(Handlings) /\ <<>> \in Seq(Shapes)
  BY DEF Wires, Contexts, Unread
<1>2. ConnectionGood(w, Unread, <<>>, TRUE)
  BY <1>1, ConnectionIsNew DEF ConnectionGood, Unread
<1>3. QED
  BY <1>1, <1>2, OneConnection DEF Disconnected

\* More of a connection is read.
LEMMA ReadOn ==
    ASSUME NEW old \in Wires, NEW t \in Nat, NEW w, w = [old EXCEPT !.read = t]
    PROVE  w \in Wires /\ w.open = old.open /\ w.requests = old.requests /\ w.read = t
BY DEF Wires

LEMMA ReadStep ==
    ASSUME Connections, NEW c \in Sockets, NEW n \in 1..Len(Stream(c)), ReadyRead(c, n)
    PROVE  Connections'
<1>1. PICK requests \in Seq(Shapes) : requests = wire[c].requests
  BY DEF Connections, Wires
<1>2. PICK r \in Nat : r = wire[c].read
  BY DEF Connections, Wires
<1>3. PICK data \in Seq(TokenType) : data = contexts[c].data
  BY DEF Connections, Contexts
<1>4. PICK expected \in Nat : expected = contexts[c].expected
  BY DEF Connections, Contexts
<1>5. PICK done \in Seq(Handlings) : done = handled[c]
  BY DEF Connections
<1>6. PICK ok \in BOOLEAN : ok = tidy[c]
  BY DEF Connections
<1>7. Stream(c) = Sent(requests)
  BY <1>1 DEF Stream, Sent
<1>8. /\ Apart(requests, r, data, done)
      /\ ok => Whole(requests, r, data, expected, done)
  BY <1>1, <1>2, <1>3, <1>4, <1>5, <1>6 DEF Connections, ConnectionGood
<1>9. n \in Nat \ {0} /\ r + n <= Len(Sent(requests))
  BY <1>2, <1>7, SentIsTokens DEF ReadyRead
<1>10. PICK t \in Nat : t = r + n
  BY <1>9
<1>11. PICK piece : piece = SubSeq(Sent(requests), r + 1, r + n)
  OBVIOUS
<1>12. piece \in Seq(TokenType) /\ Len(piece) = n
       /\ \A j \in 1..n : piece[j].of \in 1..Len(requests)
  BY <1>9, <1>11, PieceIsSent
<1>13. PICK all : all = data \o piece
  OBVIOUS
<1>14. all = Joined(requests, r, n, data)
  BY <1>11, <1>13 DEF Joined
<1>15. PICK e : e = NextExpected(requests, r, n, data, expected)
  OBVIOUS
<1>16. e = IF data = <<>> THEN ExpectedOf(requests, piece) ELSE expected
  BY <1>11, <1>15 DEF NextExpected
<1>17. PICK now \in BOOLEAN : now = (ok /\ IsTidy(data, piece))
  OBVIOUS
<1>18. Expected(c, piece) = ExpectedOf(requests, piece)
  BY <1>1 DEF Expected, ContentLength, ExpectedOf
<1>19. /\ Read(c, piece)
       /\ tidy' = [tidy EXCEPT ![c] = now]
       /\ wire[c].open /\ wire' = [wire EXCEPT ![c].read = t]
  <2>1. piece = SubSeq(Stream(c), wire[c].read + 1, wire[c].read + n)
    BY <1>2, <1>7, <1>11
  <2>2. tidy' = [tidy EXCEPT ![c] = tidy[c] /\ IsTidy(contexts[c].data, piece)]
    BY <2>1 DEF ReadyRead
  <2>3. QED
    BY <1>2, <1>3, <1>6, <1>17, <1>10, <2>1, <2>2 DEF ReadyRead
<1>20. PICK w : w = [wire[c] EXCEPT !.read = t]
  OBVIOUS
<1>21. /\ wire' = [wire EXCEPT ![c] = w]
      /\ w \in Wires /\ w.open /\ w.requests = requests /\ w.read = t
  <2>1. PICK old \in Wires : old = wire[c]
    BY DEF Connections
  <2>2. w \in Wires /\ w.open = old.open /\ w.requests = old.requests /\ w.read = t
    BY <1>20, <2>1, ReadOn
  <2>3. wire' = [wire EXCEPT ![c] = [wire[c] EXCEPT !.read = t]]
    BY <1>19
  <2>4. QED
    BY <1>1, <1>19, <1>20, <2>1, <2>2, <2>3
<1>22. tidy' = [tidy EXCEPT ![c] = now]
  BY <1>19
<1>23. e \in Nat
  <2>1. Len(piece) > 0
    BY <1>9, <1>12
  <2>2. ExpectedOf(requests, piece) \in Nat
    BY <1>12, <2>1, MessageIsRead
  <2>3. QED
    BY <1>16, <2>2
<1>24. now => ok /\ TidyPiece(requests, r, n, data)
  BY <1>11, <1>17 DEF TidyPiece
<1>25. now =>
        IF Bytes(all) >= e
        THEN Whole(requests, r + n, <<>>, e, Append(done, Decoded(all)))
        ELSE Whole(requests, r + n, all, e, done)
  BY <1>8, <1>9, <1>14, <1>15, <1>24, WholeIsKept
<1>26. CASE data = <<>> /\ ~Decodes(piece)
  <2>1. UNCHANGED <<contexts, handled>>
    BY <1>3, <1>19, <1>26 DEF Read
  <2>2. ~now
    BY <1>17, <1>26 DEF IsTidy
  <2>3. Apart(requests, r + n, <<>>, done)
    BY <1>8, <1>9, <1>26, ApartDropped
  <2>4. ConnectionGood(w, [data |-> data, expected |-> expected], done, now)
    BY <1>21, <1>10, <1>26, <2>2, <2>3 DEF ConnectionGood
  <2>5. /\ [data |-> data, expected |-> expected] \in Contexts
        /\ contexts' = [contexts EXCEPT ![c] = [data |-> data, expected |-> expected]]
        /\ handled' = [handled EXCEPT ![c] = done]
    BY <1>3, <1>4, <1>5, <2>1 DEF Connections, Contexts
  <2>6. QED
    BY <1>22, <1>21, <2>4, <2>5, OneConnection
<1>27. CASE ~(data = <<>> /\ ~Decodes(piece))
  <2>1. Decodes(all)
    <3>1. CASE data = <<>>
      <4>1. all = piece
        BY <1>12, <1>13, <3>1
      <4>2. QED
        BY <1>27, <3>1, <4>1
    <3>2. CASE data # <<>>
      <4>1. data[1].kind = "line"
        BY <1>8, <3>2 DEF Apart
      <4>2. all[1] = data[1]
        BY <1>12, <1>13, <3>2
      <4>3. QED
        BY <4>1, <4>2 DEF Decodes
    <3>3. QED
      BY <3>1, <3>2
  <2>2. /\ Apart(requests, r + n, all, done)
        /\ all \in Seq(TokenType) /\ Len(all) > 0
        /\ \A j \in 1..Len(all) : all[j].of \in 1..Len(requests)
    BY <1>8, <1>9, <1>14, <2>1, ApartKept
  <2>3. IF Bytes(all) >= e
        THEN /\ contexts' = [contexts EXCEPT ![c] = [data |-> <<>>, expected |-> e]]
             /\ handled' = [handled EXCEPT ![c] = Append(done, Decoded(all))]
        ELSE /\ contexts' = [contexts EXCEPT ![c] = [data |-> all, expected |-> e]]
             /\ handled' = handled
    BY <1>3, <1>4, <1>5, <1>13, <1>16, <1>18, <1>19, <1>27 DEF Read
  <2>4. CASE Bytes(all) >= e
    <3>1. Decoded(all) \in Handlings /\ Decoded(all).of = all[1].of
      BY <2>1, <2>2, MessageIsRead DEF Decodes
    <3>2. PICK result \in Handlings : result = Decoded(all)
      BY <3>1
    <3>3. Apart(requests, r + n, <<>>, Append(done, result))
      <4>1. all[1].kind = "line" /\ r + n \in Nat
        BY <1>9, <2>1 DEF Decodes
      <4>2. QED
        BY <2>2, <3>1, <3>2, <4>1, ApartHandled
    <3>4. PICK x \in Contexts : x = [data |-> <<>>, expected |-> e]
      <4>1. <<>> \in Seq(TokenType)
        OBVIOUS
      <4>2. QED
        BY <1>23, <4>1 DEF Contexts
    <3>5. PICK longer \in Seq(Handlings) : longer = Append(done, result)
      BY AppendProperties
    <3>6. ConnectionGood(w, x, longer, now)
      BY <1>21, <1>10, <1>25, <2>4, <3>2, <3>3, <3>4, <3>5 DEF ConnectionGood
    <3>7. contexts' = [contexts EXCEPT ![c] = x] /\ handled' = [handled EXCEPT ![c] = longer]
      BY <2>3, <2>4, <3>2, <3>4, <3>5
    <3>8. QED
      BY <1>22, <1>21, <3>6, <3>7, OneConnection
  <2>5. CASE ~(Bytes(all) >= e)
    <3>1. PICK x \in Contexts : x = [data |-> all, expected |-> e]
      BY <1>23, <2>2 DEF Contexts
    <3>2. ConnectionGood(w, x, done, now)
      BY <1>21, <1>10, <1>25, <2>2, <2>5, <3>1 DEF ConnectionGood
    <3>3. contexts' = [contexts EXCEPT ![c] = x]
      BY <2>3, <2>5, <3>1
    <3>4. handled' = [handled EXCEPT ![c] = done]
      BY <1>5, <2>3, <2>5 DEF Connections
    <3>5. QED
      BY <1>22, <1>21, <3>2, <3>3, <3>4, OneConnection
  <2>6. QED
    BY <2>4, <2>5
<1>28. QED
  BY <1>26, <1>27

LEMMA ServerStep == ServerInductive /\ [ServerNext]_httpVars => ServerInductive'
<1> SUFFICES ASSUME ServerInductive, [ServerNext]_httpVars
             PROVE  ServerInductive'
  OBVIOUS
<1>1. ASSUME UNCHANGED <<wire, contexts, handled, tidy>>
      PROVE  Connections'
  BY <1>1 DEF ServerInductive, Connections
<1>2. ASSUME NEW port \in InitialPorts, SetInitialPort(port)
      PROVE  ServerInductive'
  <2>1. port \in 0..PortMod
    BY HttpServerAssumption
  <2>2. Listening'
    BY <1>2, <2>1 DEF ServerInductive, Listening, SetInitialPort, AnnouncedIsBound
  <2>3. QED
    BY <1>1, <1>2, <2>2 DEF SetInitialPort, ServerInductive
<1>3. CASE ServerStart
  <2>1. ASSUME NEW scan \in Scans(server.port)
        PROVE  /\ scan.bound \in 0..PortMod - 1 /\ scan.announced \in 0..PortMod - 1
               /\ scan.announced \in {scan.bound, 0}
    <3>1. PICK i \in Int : scan = [bound |-> IF (server.port + i) % PortMod = 0 THEN Ephemeral
                                             ELSE (server.port + i) % PortMod,
                                   announced |-> (server.port + i) % PortMod]
      <4> DEFINE zeros == {i \in 0..MaxScanned - 1 : (server.port + i) % PortMod = 0}
                 last == IF zeros = {} THEN MaxScanned - 1 ELSE Min(zeros)
      <4>1. zeros # {} => Min(zeros) \in zeros
        <5>1. zeros \subseteq Nat
          BY DEF MaxScanned
        <5> HIDE DEF zeros
        <5>2. QED
          BY <5>1, LeastNumber DEF Min
      <4>2. last \in Int
        BY <4>1 DEF MaxScanned
      <4>3. PICK i \in 0..last :
                scan = [bound |-> IF (server.port + i) % PortMod = 0 THEN Ephemeral
                                  ELSE (server.port + i) % PortMod,
                        announced |-> (server.port + i) % PortMod]
        BY <2>1 DEF Scans
      <4> HIDE DEF last
      <4>4. i \in Int
        BY <4>2
      <4>5. QED
        BY <4>3, <4>4
    <3>2. server.port + i \in Int
      BY DEF ServerInductive, Listening
    <3>3. (server.port + i) % PortMod \in 0..PortMod - 1
      BY <3>2, PortsExist
    <3>4. Ephemeral \in 0..PortMod - 1
      BY PortsExist DEF Ephemeral
    <3>5. QED
      BY <3>1, <3>3, <3>4
  <2>2. Listening'
    <3>1. MaxAttaches \in Nat
      BY HttpServerAssumption
    <3>5. server.attached + 1 \in 0..MaxAttaches + 1
      <4>1. server.attached \in 0..MaxAttaches + 1
        BY DEF ServerInductive, Listening
      <4>2. server.attached <= MaxAttaches
        BY <1>3 DEF ServerInductive, Listening, ServerStart
      <4>3. QED
        BY <3>1, <4>1, <4>2
    <3>2. ASSUME NEW scan \in Scans(server.port),
                 server' = [server EXCEPT !.running = TRUE, !.listening = TRUE, !.attached = @ + 1,
                                          !.bound = scan.bound, !.announced = scan.announced]
          PROVE  Listening'
      <4>2. scan.bound \in 0..PortMod - 1 /\ scan.announced \in 0..PortMod - 1
            /\ scan.announced \in {scan.bound, 0}
        BY <2>1
      <4>3. PICK a \in 0..MaxAttaches + 1 : a = server.attached + 1
        BY <3>5
      <4>4. server' = [server EXCEPT !.running = TRUE, !.listening = TRUE, !.attached = a,
                                     !.bound = scan.bound, !.announced = scan.announced]
        BY <3>2, <4>3
      <4>5. server' \in [port : 0..PortMod, running : BOOLEAN, listening : BOOLEAN,
                         attached : 0..MaxAttaches + 1, bound : 0..PortMod - 1,
                         announced : 0..PortMod - 1]
        BY <4>2, <4>4 DEF ServerInductive, Listening
      <4>6. server'.running /\ server'.bound = scan.bound /\ server'.announced = scan.announced
        BY <4>4 DEF ServerInductive, Listening
      <4>7. QED
        BY <4>2, <4>5, <4>6 DEF Listening, AnnouncedIsBound
    <3>3. ASSUME server.attached < MaxAttaches, server' = [server EXCEPT !.attached = @ + 1]
          PROVE  Listening'
      <4>1. server.attached + 1 \in 0..MaxAttaches + 1 /\ server.attached + 1 <= MaxAttaches
        BY <3>1, <3>3 DEF ServerInductive, Listening
      <4>2. QED
        BY <3>3, <4>1 DEF ServerInductive, Listening, AnnouncedIsBound
    <3>4. QED
      BY <1>3, <3>2, <3>3 DEF ServerStart
  <2>3. QED
    BY <1>1, <1>3, <2>2 DEF ServerStart, ServerInductive
<1>4. CASE ServerStop
  <2>1. Listening'
    BY <1>4 DEF ServerInductive, Listening, ServerStop, AnnouncedIsBound
  <2>2. QED
    BY <1>1, <1>4, <2>1 DEF ServerStop, ServerInductive
<1>5. ASSUME UNCHANGED server
      PROVE  Listening'
  BY <1>5 DEF ServerInductive, Listening, AnnouncedIsBound
<1>6. ASSUME NEW c \in Sockets, NEW k \in 1..MaxRequests, NEW requests \in [1..k -> Shapes],
             IncomingConnection(c, requests)
      PROVE  ServerInductive'
  <2>1. k \in Nat
    BY HttpServerAssumption
  <2>2. requests \in Seq(Shapes)
    BY <2>1
  <2>3. QED
    BY <1>5, <1>6, <2>2, IncomingStep DEF IncomingConnection, ServerInductive
<1>7. ASSUME NEW c \in Sockets, NEW n \in 1..Len(Stream(c)), ReadyRead(c, n)
      PROVE  ServerInductive'
  BY <1>5, <1>7, ReadStep DEF ReadyRead, ServerInductive
<1>8. ASSUME NEW c \in Sockets, Disconnected(c)
      PROVE  ServerInductive'
  BY <1>5, <1>8, DisconnectedStep DEF Disconnected, ServerInductive
<1>9. CASE UNCHANGED httpVars
  BY <1>1, <1>5, <1>9 DEF httpVars, ServerInductive
<1>10. QED
  BY <1>2, <1>3, <1>4, <1>6, <1>7, <1>8, <1>9 DEF ServerNext

LEMMA ServerStarts == ServerInit => ServerInductive
<1> SUFFICES ASSUME ServerInit
             PROVE  ServerInductive
  OBVIOUS
<1>1. Listening
  <2>1. 4804 \in 0..PortMod /\ 0 \in 0..PortMod - 1
    BY PortsExist
  <2>2. MaxAttaches \in Nat
    BY HttpServerAssumption
  <2>3. QED
    BY <2>1, <2>2 DEF ServerInit, Listening, AnnouncedIsBound
<1>2. Connections
  <2>1. <<>> \in Seq(Shapes) /\ <<>> \in Seq(TokenType) /\ <<>> \in Seq(Handlings)
    OBVIOUS
  <2> DEFINE w == [open |-> FALSE, requests |-> <<>>, read |-> 0]
  <2>2. ConnectionGood(w, Unread, <<>>, TRUE) /\ w \in Wires /\ Unread \in Contexts
    BY <2>1, ConnectionIsNew DEF ConnectionGood, Unread, Wires, Contexts
  <2>3. QED
    BY <2>1, <2>2 DEF ServerInit, Connections
<1>3. QED
  BY <1>1, <1>2 DEF ServerInductive

LEMMA ServerSafe == ServerSpec => []ServerInductive
BY ServerStarts, ServerStep, PTL DEF ServerSpec

\* Server and connections are as they should be.
LEMMA ServerIsTyped == ServerInductive => ServerTypeOK /\ AnnouncedIsBound
<1> SUFFICES ASSUME ServerInductive
             PROVE  ServerTypeOK /\ AnnouncedIsBound
  OBVIOUS
<1>1. ASSUME NEW c \in Sockets
      PROVE  wire[c].read \in 0..Len(Stream(c)) /\ contexts[c].expected \in Nat
  <2>1. /\ Apart(wire[c].requests, wire[c].read, contexts[c].data, handled[c])
        /\ wire[c].read \in Nat /\ contexts[c].expected \in Nat /\ wire[c].requests \in Seq(Shapes)
    BY DEF ServerInductive, Connections, ConnectionGood, Wires, Contexts
  <2>2. PICK requests \in Seq(Shapes) : requests = wire[c].requests
    BY <2>1
  <2>3. Len(Stream(c)) \in Nat
    BY <2>2, SentIsTokens DEF Stream, Sent
  <2>4. wire[c].read <= Len(Stream(c))
    BY <2>1 DEF Apart, Stream, Sent
  <2>5. QED
    BY <2>1, <2>3, <2>4
<1>2. QED
  BY <1>1 DEF ServerInductive, Listening, Connections, ServerTypeOK

\* However the connections are cut into pieces, no request is handled twice, and
\* while pieces are tidy all complete ones are, with all of their content.
THEOREM RequestsAreHandledOnce == ServerSpec => []HandledOnceAndWhole
<1>1. ServerInductive => HandledOnceAndWhole
  <2> SUFFICES ASSUME ServerInductive, NEW c \in Sockets
               PROVE  /\ \A i, j \in DOMAIN handled[c] :
                            i < j => handled[c][i].of < handled[c][j].of
                      /\ tidy[c] => handled[c] = [i \in Complete(c) |->
                                        [of |-> i, size |-> Sum(wire[c].requests[i])]]
    BY DEF HandledOnceAndWhole
  <2>1. PICK requests \in Seq(Shapes) : requests = wire[c].requests
    BY DEF ServerInductive, Connections, Wires
  <2>2. PICK r \in Nat : r = wire[c].read
    BY DEF ServerInductive, Connections, Wires
  <2>3. PICK data \in Seq(TokenType) : data = contexts[c].data
    BY DEF ServerInductive, Connections, Contexts
  <2>4. PICK expected \in Nat : expected = contexts[c].expected
    BY DEF ServerInductive, Connections, Contexts
  <2>5. PICK done \in Seq(Handlings) : done = handled[c]
    BY DEF ServerInductive, Connections
  <2>6. /\ Apart(requests, r, data, done)
        /\ tidy[c] => Whole(requests, r, data, expected, done)
    BY <2>1, <2>2, <2>3, <2>4, <2>5 DEF ServerInductive, Connections, ConnectionGood
  <2>7. \A i, j \in DOMAIN done : i < j => done[i].of < done[j].of
    <3>1. DOMAIN done = 1..Len(done)
      OBVIOUS
    <3>2. QED
      BY <2>6, <3>1 DEF Apart
  <2>8. tidy[c] => done = [i \in {j \in DOMAIN requests : Len(Streams(requests)[j]) <= r} |->
                                [of |-> i, size |-> Sum(requests[i])]]
    BY <2>6, WholeIsComplete
  <2>9. Complete(c) = {j \in DOMAIN requests : Len(Streams(requests)[j]) <= r}
    BY <2>1, <2>2 DEF Complete
  <2>10. QED
    BY <2>1, <2>5, <2>7, <2>8, <2>9
<1>2. QED
  BY <1>1, ServerSafe, PTL

-----------------------------------------------------------------------------
(* The parts side by side. *)

PartsInductive ==
    /\ part \in {"client", "watchdog", "api", "processes", "server"}
    /\ ClientInductive
    /\ part = "watchdog" => WatchInductive
    /\ api \in [class : Classes, msgType : Data]
    /\ part = "api" => ApiInductive
    /\ ProcessesInductive
    /\ ServerInductive

LEMMA PartsStart == Init => PartsInductive
<1> SUFFICES ASSUME Init
             PROVE  PartsInductive
  OBVIOUS
<1>1. part \in {"client", "watchdog", "api", "processes", "server"} /\ ServerInductive
  BY ServerStarts DEF Init
<1>2. ProcessesInductive
  BY ProcessesStart DEF Init
<1>3. CASE part = "api"
  <2>1. ApiInductive
    BY <1>3, ApiStarts DEF Init
  <2>2. QED
    BY <1>1, <1>2, <1>3, <2>1 DEF PartsInductive, ApiInductive, Asked
<1>4. CASE part # "api"
  <2>1. WatchInductive /\ NoReports
    BY <1>4, WatchStarts DEF Init
  <2>2. QED
    BY <1>1, <1>2, <1>4, <2>1 DEF PartsInductive, WatchInductive, NoReports, Classes, Data
<1>5. QED
  BY <1>3, <1>4

\* What does not move stays as it should be.
LEMMA Others ==
    ASSUME PartsInductive
    PROVE  /\ UNCHANGED clientVars => ClientInductive'
           /\ UNCHANGED processVars => ProcessesInductive'
           /\ UNCHANGED httpVars => ServerInductive'
<1>1. ASSUME UNCHANGED clientVars
      PROVE  ClientInductive'
  BY <1>1, NobodyMoves DEF PartsInductive, clientVars, ClientInductive, OutType
<1>2. ASSUME UNCHANGED processVars
      PROVE  ProcessesInductive'
  BY <1>2, ProcessesStep DEF PartsInductive
<1>3. ASSUME UNCHANGED httpVars
      PROVE  ServerInductive'
  BY <1>3, ServerStep DEF PartsInductive
<1>4. QED
  BY <1>1, <1>2, <1>3

LEMMA PartsStep == PartsInductive /\ [Next]_partsVars => PartsInductive'
<1> SUFFICES ASSUME PartsInductive, [Next]_partsVars
             PROVE  PartsInductive'
  OBVIOUS
<1>1. part' = part /\ part' \in {"client", "watchdog", "api", "processes", "server"}
  BY DEF PartsInductive, Next, partsVars
<1>2. ASSUME part = "client", ClientNext, UNCHANGED <<watchVars, api, reports, process, httpVars>>
      PROVE  PartsInductive'
  <2>1. ClientInductive'
    BY <1>2, ClientStep DEF PartsInductive
  <2>2. ProcessesInductive' /\ ServerInductive'
    BY <1>2, Others DEF processVars
  <2>3. QED
    BY <1>1, <1>2, <2>1, <2>2 DEF PartsInductive
<1>3. ASSUME part = "watchdog", WatchNext, UNCHANGED <<api, reports, process, httpVars>>
      PROVE  PartsInductive'
  <2>1. WatchInductive'
    BY <1>3, WatchStep DEF PartsInductive
  <2>2. ProcessesInductive' /\ ServerInductive'
    BY <1>3, Others DEF processVars
  <2>3. QED
    BY <1>1, <1>3, <2>1, <2>2 DEF PartsInductive, WatchInductive
<1>4. ASSUME part = "api", ApiNext, UNCHANGED <<watchVars, process, httpVars>>
      PROVE  PartsInductive'
  <2>1. ApiInductive'
    BY <1>4, ApiStep DEF PartsInductive
  <2>2. ProcessesInductive' /\ ServerInductive'
    BY <1>4, Others DEF processVars
  <2>3. QED
    BY <1>1, <1>4, <2>1, <2>2 DEF PartsInductive, ApiInductive, Asked
<1>5. ASSUME part = "processes", ProcessesNext, UNCHANGED <<watchdogVars, api, reports, httpVars>>
      PROVE  PartsInductive'
  <2>1. ProcessesInductive'
    BY <1>5, ProcessesStep DEF PartsInductive
  <2>2. ClientInductive' /\ ServerInductive'
    BY <1>5, Others DEF watchdogVars
  <2>3. QED
    BY <1>1, <1>5, <2>1, <2>2 DEF PartsInductive
<1>6. ASSUME part = "server", ServerNext, UNCHANGED <<watchdogVars, api, reports, process>>
      PROVE  PartsInductive'
  <2>1. ServerInductive'
    BY <1>6, ServerStep DEF PartsInductive
  <2>2. ClientInductive' /\ ProcessesInductive'
    BY <1>6, Others DEF watchdogVars, processVars
  <2>3. QED
    BY <1>1, <1>6, <2>1, <2>2 DEF PartsInductive
<1>7. CASE UNCHANGED partsVars
  <2>1. ClientInductive' /\ ProcessesInductive' /\ ServerInductive'
    BY <1>7, Others DEF partsVars, watchdogVars
  <2>2. part = "watchdog" => WatchInductive'
    BY <1>7, WatchStep DEF partsVars, PartsInductive
  <2>3. part = "api" => ApiInductive'
    BY <1>7, ApiStep DEF partsVars, watchdogVars, apiVars, PartsInductive
  <2>4. QED
    BY <1>1, <1>7, <2>1, <2>2, <2>3 DEF PartsInductive, partsVars
<1>8. QED
  BY <1>2, <1>3, <1>4, <1>5, <1>6, <1>7 DEF Next

\* Whichever part moves, all of them are of their types, the client's map holds
\* its live connections and no others, the watchdog has at most one request of
\* each age, and the server is where it was announced.
THEOREM PartsAreRight == Spec => []PartsInv
<1>1. PartsInductive => PartsInv
  <2> SUFFICES ASSUME PartsInductive
               PROVE  PartsInv
    OBVIOUS
  <2>1. ClientInv
    BY InductiveImpliesInv DEF PartsInductive
  <2>2. part = "watchdog" => RequestsAreBounded
    BY RequestsAreFew DEF PartsInductive
  <2>3. ProcessesTypeOK /\ NothingElseStays
    BY ProcessesAreKnown DEF PartsInductive
  <2>4. ServerTypeOK /\ AnnouncedIsBound
    BY ServerIsTyped DEF PartsInductive
  <2>5. QED
    BY <2>1, <2>2, <2>3, <2>4 DEF PartsInductive, PartsInv, Data
<1>2. Spec => []PartsInductive
  BY PartsStart, PartsStep, PTL DEF Spec
<1>3. QED
  BY <1>1, <1>2, PTL
=============================================================================
