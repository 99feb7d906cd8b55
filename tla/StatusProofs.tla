----------------------------- MODULE StatusProofs -----------------------------
(***************************************************************************)
(* Proofs about Status, for any users, needs and bounds.                   *)
(***************************************************************************)
EXTENDS Status, SequenceTheorems, TLAPS

CoreType == [fsm : {"off", "setup", "cloud"}, cloud : BOOLEAN,
             busy : {"no", "waiting", "closing", "stuck"},
             auth : Users \cup Certificates \cup {NoUser}, named : BOOLEAN,
             requests : 0..MaxRequests, seq : Nat, settings : Settings]
HandlerType == [state : States, error : Nat, needs : SUBSET Needs,
                login : Users \cup {NoUser, VpnName}]

\* The login in handler h is that of core c.
Shown(c, h) ==
    IF c.named THEN h.login = VpnName ELSE c.auth \in Users => h.login = c.auth

\* A service that may be on its way to its next state: its errors may be more
\* than the bound allows, and its handler has seen some of them.
Sound(s) ==
    /\ s.core \in CoreType
    /\ s.handler \in HandlerType
    /\ s.handler.error <= s.core.seq
    /\ Shown(s.core, s.handler)

Service == [core : CoreType, handler : HandlerType]

\* An answer less is not longer.
LEMMA Removing ==
    ASSUME NEW S, NEW s \in Seq(S), NEW i \in DOMAIN s
    PROVE  RemoveAt(s, i) \in Seq(S) /\ Len(RemoveAt(s, i)) = Len(s) - 1
<1>1. i \in 1..Len(s)
  OBVIOUS
<1>2. SubSeq(s, 1, i - 1) \in Seq(S) /\ Len(SubSeq(s, 1, i - 1)) = i - 1
  BY <1>1, SubSeqProperties
<1>3. SubSeq(s, i + 1, Len(s)) \in Seq(S) /\ Len(SubSeq(s, i + 1, Len(s))) = Len(s) - i
  BY <1>1, SubSeqProperties
<1> HIDE DEF RemoveAt
<1>4. RemoveAt(s, i) = SubSeq(s, 1, i - 1) \o SubSeq(s, i + 1, Len(s))
  BY DEF RemoveAt
<1>5. /\ SubSeq(s, 1, i - 1) \o SubSeq(s, i + 1, Len(s)) \in Seq(S)
      /\ Len(SubSeq(s, 1, i - 1) \o SubSeq(s, i + 1, Len(s))) = (i - 1) + (Len(s) - i)
  BY <1>2, <1>3, ConcatProperties
<1>6. (i - 1) + (Len(s) - i) = Len(s) - 1
  BY <1>1
<1>7. QED
  BY <1>4, <1>5, <1>6

-----------------------------------------------------------------------------
(* What Core does on the way keeps a service sound. *)

LEMMA ShowsSound ==
    ASSUME NEW s \in Service, Sound(s), NEW state \in States
    PROVE  Shows(s, state) \in Service /\ Sound(Shows(s, state))
BY DEF Service, Sound, Shows, HandlerType, CoreType, Shown

LEMMA EmittedSound ==
    ASSUME NEW s \in Service, Sound(s)
    PROVE  Emitted(s) \in Service /\ Sound(Emitted(s))
<1> DEFINE n == s.core.seq + 1
<1>1. n \in Nat
  BY DEF Service, CoreType
<1>2. Emitted(s) = [core |-> [s.core EXCEPT !.seq = n], handler |-> [s.handler EXCEPT !.error = n]]
  <2>1. s = [core |-> s.core, handler |-> s.handler]
    BY DEF Service
  <2>2. Emitted(s) = [s EXCEPT !.handler = [s.handler EXCEPT !.error = n],
                               !.core = [s.core EXCEPT !.seq = n]]
    BY <2>1 DEF Emitted
  <2>3. QED
    BY <2>1, <2>2
<1>3. [s.core EXCEPT !.seq = n] \in CoreType /\ [s.handler EXCEPT !.error = n] \in HandlerType
  BY <1>1 DEF Service, CoreType, HandlerType
<1>4. n <= n
  BY <1>1
<1>5. QED
  BY <1>1, <1>2, <1>3, <1>4 DEF Service, Sound, CoreType, HandlerType, Shown

LEMMA NeededSound ==
    ASSUME NEW s \in Service, Sound(s), NEW what
    PROVE  Needed(s, what) \in Service /\ Sound(Needed(s, what))
BY DEF Service, Sound, Needed, HandlerType, CoreType, Shown

LEMMA StoppedSound ==
    ASSUME NEW s \in Service, Sound(s)
    PROVE  Stopped(s) \in Service /\ Sound(Stopped(s))
<1> DEFINE c == [s.core EXCEPT !.fsm = "off", !.busy = "no", !.cloud = FALSE, !.auth = NoUser,
                             !.named = FALSE]
<1>1. Stopped(s) = [core |-> c, handler |-> Cleared]
  BY DEF Stopped
<1>2. c \in CoreType /\ c.auth = NoUser /\ ~c.named /\ c.seq = s.core.seq
  BY DEF Service, CoreType
<1>3. Cleared \in HandlerType /\ Cleared.error = 0
  BY DEF Cleared, HandlerType, States
<1>4. 0 <= s.core.seq
  BY DEF Service, CoreType
<1>5. NoUser \notin Users
  BY StatusAssumption
<1>6. Stopped(s).core = c /\ Stopped(s).handler = Cleared
  BY <1>1
<1> HIDE DEF c
<1>7. Stopped(s) \in Service
  BY <1>1, <1>2, <1>3 DEF Service
<1>8. Sound(Stopped(s))
  BY <1>2, <1>3, <1>4, <1>5, <1>6 DEF Sound, Shown
<1>9. QED
  BY <1>7, <1>8

LEMMA StopInSound ==
    ASSUME NEW s \in Service, Sound(s)
    PROVE  StopIn(s) \in Service /\ Sound(StopIn(s))
<1>1. [s EXCEPT !.core.fsm = "off", !.core.busy = "closing"] \in Service
      /\ Sound([s EXCEPT !.core.fsm = "off", !.core.busy = "closing"])
  BY DEF Service, Sound, HandlerType, CoreType, Shown
<1>2. QED
  BY <1>1, StoppedSound DEF StopIn

LEMMA FailedSound ==
    ASSUME NEW s \in Service, Sound(s)
    PROVE  Failed(s) \in Service /\ Sound(Failed(s))
<1>1. CASE s.core.settings.retries
  BY <1>1, ShowsSound, EmittedSound DEF Failed, States
<1>2. CASE ~s.core.settings.retries
  BY <1>2, StopInSound, ShowsSound, EmittedSound DEF Failed, States
<1>3. QED
  BY <1>1, <1>2

\* The name in the provisioning is shown at once.
LEMMA AnnouncedSound ==
    ASSUME NEW s \in Service, Sound(s)
    PROVE  Announced(s) \in Service /\ Sound(Announced(s))
<1> DEFINE c == [s.core EXCEPT !.named = TRUE]
           h == [s.handler EXCEPT !.login = VpnName]
<1>1. Announced(s) = [core |-> c, handler |-> h]
  <2>1. s = [core |-> s.core, handler |-> s.handler]
    BY DEF Service
  <2>2. Announced(s) = [s EXCEPT !.core = c, !.handler = h]
    BY <2>1 DEF Announced
  <2>3. QED
    BY <2>1, <2>2
<1>2. c \in CoreType /\ c.named /\ c.seq = s.core.seq
  BY DEF Service, CoreType
<1>3. h \in HandlerType /\ h.login = VpnName /\ h.error = s.handler.error
  BY DEF Service, HandlerType
<1> HIDE DEF c, h
<1>4. /\ Announced(s) \in Service
      /\ Announced(s).core = c /\ Announced(s).handler = h
  BY <1>1, <1>2, <1>3 DEF Service
<1>5. QED
  BY <1>2, <1>3, <1>4 DEF Sound, Shown

-----------------------------------------------------------------------------
(* The steps. *)

StatusInductive ==
    /\ Now \in Service /\ Sound(Now)
    /\ core.seq <= MaxErrors
    /\ replies \in Seq(Status) /\ Len(replies) <= MaxReplies
    /\ view \in Status
    /\ toldError \in BOOLEAN

\* Whatever sound state the service takes, its client is as it was.
LEMMA BecomesSound ==
    ASSUME StatusInductive, NEW s \in Service, Sound(s), Becomes(s)
    PROVE  StatusInductive'
<1>1. Now' = s
  BY DEF Becomes, Now, Service
<1>2. replies' = replies /\ view' = view /\ core'.seq <= MaxErrors /\ toldError' \in BOOLEAN
  BY DEF Becomes, clientVars, StatusInductive
<1>3. QED
  BY <1>1, <1>2 DEF StatusInductive

LEMMA RequestSound ==
    ASSUME StatusInductive, NEW s \in Service, Sound(s), Request(s)
    PROVE  StatusInductive'
<1>1. CASE Becomes(Failed(Needed(s, "sb_auth"))) \/ Becomes(Failed(s))
  BY <1>1, NeededSound, FailedSound, BecomesSound
<1> DEFINE t == [s EXCEPT !.core.requests = @ + 1]
<1>2. CASE s.core.requests < MaxRequests /\ Becomes(t)
  <2>1. s.core.requests < MaxRequests /\ Becomes(t)
    BY <1>2
  <2>2. s.core.requests + 1 \in 0..MaxRequests
    BY <2>1, StatusAssumption DEF Service, CoreType
  <2>3. t \in Service /\ Sound(t)
    BY <2>2 DEF Service, Sound, CoreType, Shown
  <2>4. QED
    BY <2>1, <2>3, BecomesSound
<1>3. QED
  BY <1>1, <1>2 DEF Request

\* The answer to a request.
LEMMA AnswerSound ==
    ASSUME StatusInductive, core.requests > 0
    PROVE  Answer \in Service /\ Sound(Answer)
<1>1. core.requests - 1 \in 0..MaxRequests
  BY StatusAssumption DEF StatusInductive, Now, Service, CoreType
<1>2. Answer = [Now EXCEPT !.core.requests = core.requests - 1]
  BY DEF Answer, Now
<1>3. QED
  BY <1>1, <1>2 DEF StatusInductive, Service, Sound, CoreType, Shown

\* An answer that may have been read.
LEMMA AnswersSound ==
    ASSUME StatusInductive, core.requests > 0, NEW a \in Answers
    PROVE  a \in Service /\ Sound(a)
BY AnswerSound, AnnouncedSound DEF Answers

LEMMA SupplyStep ==
    ASSUME StatusInductive, NEW id \in Needs,
           NEW auth \in Users \cup Certificates \cup {NoUser}, Supply(id, auth)
    PROVE  StatusInductive'
<1> DEFINE logged == [handler EXCEPT !.needs = @ \ {id},
                                     !.login = IF auth \in Users THEN auth ELSE @]
<1>1. core \in CoreType /\ handler \in HandlerType /\ handler.error <= core.seq
      /\ Shown(core, handler)
  BY DEF StatusInductive, Now, Service, Sound
<1>2. CASE id = "sb_auth"
  <2> DEFINE s == [core |-> [core EXCEPT !.auth = auth, !.named = FALSE], handler |-> logged]
  <2>1. Becomes(s)
    BY <1>2 DEF Supply
  <2>2. s \in Service /\ Sound(s)
    BY <1>1 DEF Service, Sound, CoreType, HandlerType, Shown
  <2>3. QED
    BY <2>1, <2>2, BecomesSound
<1>3. CASE id # "sb_auth"
  <2> DEFINE s == [core |-> core, handler |-> [handler EXCEPT !.needs = @ \ {id}]]
  <2>1. Becomes(s)
    BY <1>3 DEF Supply
  <2>2. s \in Service /\ Sound(s)
    BY <1>1 DEF Service, Sound, CoreType, HandlerType, Shown
  <2>3. QED
    BY <2>1, <2>2, BecomesSound
<1>4. QED
  BY <1>2, <1>3

LEMMA BeginStep ==
    ASSUME StatusInductive, Begin
    PROVE  StatusInductive'
<1> DEFINE s == [Now EXCEPT !.core.busy = "no"]
           t == [s EXCEPT !.core.fsm = "setup"]
<1>1. s \in Service /\ Sound(s)
  BY DEF StatusInductive, Service, Sound, CoreType, Shown
<1>2. t \in Service /\ Sound(t)
  BY <1>1 DEF Service, Sound, CoreType, Shown
<1>3. Shows(t, "setup") \in Service /\ Sound(Shows(t, "setup"))
  BY <1>2, ShowsSound DEF States
<1>4. QED
  BY <1>1, <1>3, RequestSound, BecomesSound DEF Begin

LEMMA StartStep ==
    ASSUME StatusInductive, Start
    PROVE  StatusInductive'
<1>1. ASSUME NEW busy \in {"waiting", "stuck"}, Becomes([Now EXCEPT !.core.busy = busy])
      PROVE  StatusInductive'
  <2>1. /\ [Now EXCEPT !.core.busy = busy] \in Service
        /\ Sound([Now EXCEPT !.core.busy = busy])
    BY DEF StatusInductive, Service, Sound, CoreType, Shown
  <2>2. QED
    BY <1>1, <2>1, BecomesSound
<1>2. QED
  BY <1>1, BeginStep DEF Start

LEMMA SetupRefusedStep ==
    ASSUME StatusInductive, SetupRefused
    PROVE  StatusInductive'
<1>1. Answer \in Service /\ Sound(Answer)
  BY AnswerSound DEF SetupRefused
<1> DEFINE s == Needed(Answer, "sb_auth")
<1>2. s \in Service /\ Sound(s)
  BY <1>1, NeededSound
<1>3. Halted(s) \in Service /\ Sound(Halted(s))
  BY <1>2 DEF Halted, Service, Sound, CoreType, Shown
<1>4. QED
  BY <1>1, <1>2, <1>3, AnswersSound, FailedSound, BecomesSound DEF SetupRefused

LEMMA SetupCompletesStep ==
    ASSUME StatusInductive, SetupCompletes
    PROVE  StatusInductive'
<1>1. PICK a \in Answers :
        IF core.fsm = "setup"
        THEN LET s == [a EXCEPT !.core.fsm = "cloud", !.core.cloud = TRUE]
             IN  \E t \in {s, Emitted(s)} : Becomes(t) \/ Becomes(Failed(t))
        ELSE Becomes(a)
  BY DEF SetupCompletes
<1> DEFINE s == [a EXCEPT !.core.fsm = "cloud", !.core.cloud = TRUE]
<1>5. a \in Service /\ Sound(a)
  BY AnswersSound DEF SetupCompletes
<1>2. s \in Service /\ Sound(s)
  BY <1>5 DEF Service, Sound, CoreType, Shown
<1>3. ASSUME NEW t \in {s, Emitted(s)}, Becomes(t) \/ Becomes(Failed(t))
      PROVE  StatusInductive'
  <2>1. t \in Service /\ Sound(t)
    BY <1>2, EmittedSound
  <2>2. QED
    BY <1>3, <2>1, FailedSound, BecomesSound
<1>4. QED
  BY <1>1, <1>3, <1>5, BecomesSound

\* The events of the service.
LEMMA ServiceStep ==
    ASSUME StatusInductive, ServiceNext
    PROVE  StatusInductive'
<1>1. Now \in Service /\ Sound(Now)
  BY DEF StatusInductive
<1>2. CASE Stop
  BY <1>1, <1>2, StopInSound, BecomesSound DEF Stop
<1>3. CASE CloseReply
  BY <1>1, <1>3, StoppedSound, BecomesSound DEF CloseReply
<1>4. CASE UnknownAction
  BY <1>1, <1>4, EmittedSound, BecomesSound DEF UnknownAction
<1>5. CASE SetupRetries
  BY <1>1, <1>5, RequestSound DEF SetupRetries
<1>6. ASSUME NEW state \in {"connect", "cloud"}, CloudShows(state)
      PROVE  StatusInductive'
  BY <1>1, <1>6, ShowsSound, BecomesSound DEF CloudShows, States
<1>7. CASE CloudFails
  BY <1>1, <1>7, FailedSound, BecomesSound DEF CloudFails
<1>8. ASSUME NEW what \in Needs, CloudNeeds(what)
      PROVE  StatusInductive'
  BY <1>1, <1>8, NeededSound, BecomesSound DEF CloudNeeds
<1>9. CASE SetupAnnounces
  BY <1>1, <1>9, AnnouncedSound, BecomesSound DEF SetupAnnounces
<1>10. QED
  BY <1>2, <1>3, <1>4, <1>5, <1>6, <1>7, <1>8, <1>9, SupplyStep, BeginStep, StartStep,
     SetupRefusedStep, SetupCompletesStep
  DEF ServiceNext, DelayedStart

\* Polls, their answers, and the loss of some.
LEMMA ClientStep ==
    ASSUME StatusInductive, ClientNext
    PROVE  StatusInductive'
<1>1. Snapshot \in Status
  <2>1. handler \in HandlerType /\ handler.error <= core.seq /\ core.seq \in Nat
    BY DEF StatusInductive, Now, Service, Sound, CoreType
  <2>2. handler.error \in 0..MaxErrors
    BY <2>1, StatusAssumption DEF StatusInductive, HandlerType
  <2>3. (IF handler.state = "error" THEN handler.error ELSE 0) \in 0..MaxErrors
    BY <2>2, StatusAssumption
  <2>4. QED
    BY <2>1, <2>3 DEF Snapshot, Status, HandlerType
<1>2. CASE Poll
  <2>1. Append(replies, Snapshot) \in Seq(Status)
        /\ Len(Append(replies, Snapshot)) = Len(replies) + 1
    BY <1>1, AppendProperties DEF StatusInductive
  <2>2. Now' = Now
    BY <1>2 DEF Poll, Now, serviceVars
  <2>3. Len(replies) + 1 <= MaxReplies
    BY <1>2, StatusAssumption DEF Poll, StatusInductive
  <2>4. QED
    BY <1>2, <2>1, <2>2, <2>3 DEF Poll, StatusInductive, serviceVars
<1>3. ASSUME NEW i \in 1..MaxReplies, Lose(i) \/ Seen(i)
      PROVE  StatusInductive'
  <2>1. i \in DOMAIN replies /\ replies' = RemoveAt(replies, i)
    BY <1>3 DEF Lose, Seen
  <2>2. replies' \in Seq(Status) /\ Len(replies') <= MaxReplies
    <3>1. replies' \in Seq(Status) /\ Len(replies') = Len(replies) - 1
      BY <2>1, Removing DEF StatusInductive
    <3>2. QED
      BY <3>1, StatusAssumption DEF StatusInductive
  <2>3. view' \in Status
    <3>1. replies[i] \in Status
      BY <2>1, ElementOfSeq DEF StatusInductive
    <3>2. QED
      BY <1>3, <3>1 DEF Lose, Seen, StatusInductive
  <2>6. toldError' \in BOOLEAN
    <3>1. CASE Lose(i)
      BY <3>1 DEF Lose, StatusInductive
    <3>2. CASE Seen(i)
      BY <3>2 DEF Seen
    <3>3. QED
      BY <1>3, <3>1, <3>2
  <2>4. Now' = Now /\ core' = core
    BY <1>3 DEF Lose, Seen, Now, serviceVars
  <2>5. QED
    BY <2>2, <2>3, <2>4, <2>6 DEF StatusInductive
<1>4. QED
  BY <1>2, <1>3 DEF ClientNext

\* The status names whoever was logged in last by name: the user that Core has,
\* or what a device has read in its provisioning.
THEOREM LoginIsShown == Spec => []StatusInv
<1>1. Init => StatusInductive
  <2>1. ASSUME Init
        PROVE  StatusInductive
    <3>1. core \in CoreType /\ core.seq = 0 /\ core.auth = NoUser /\ ~core.named
      <4>1. PICK settings \in Settings :
              core = [fsm |-> "off", busy |-> "no", cloud |-> FALSE, auth |-> NoUser,
                      named |-> FALSE, requests |-> 0, seq |-> 0, settings |-> settings]
        BY <2>1 DEF Init
      <4>2. 0 \in 0..MaxRequests /\ 0 \in Nat
        BY StatusAssumption
      <4>3. QED
        BY <4>1, <4>2 DEF CoreType
    <3>2. handler \in HandlerType /\ handler.error = 0
      BY <2>1 DEF Init, Cleared, HandlerType, States
    <3>3. replies \in Seq(Status) /\ Len(replies) <= MaxReplies
      BY <2>1, StatusAssumption DEF Init
    <3>4. view \in Status
      <4>1. 0 \in 0..MaxErrors
        BY StatusAssumption
      <4>2. QED
        BY <2>1, <4>1 DEF Init, Unknown, Status, States
    <3>5. toldError \in BOOLEAN
      BY <2>1 DEF Init
    <3>6. NoUser \notin Users /\ 0 <= MaxErrors
      BY StatusAssumption
    <3>7. Now \in Service /\ Now.core = core /\ Now.handler = handler
      BY <3>1, <3>2 DEF Now, Service
    <3>8. Sound(Now)
      BY <3>1, <3>2, <3>6, <3>7 DEF Sound, Shown
    <3>9. QED
      BY <3>1, <3>3, <3>4, <3>5, <3>6, <3>7, <3>8 DEF StatusInductive
  <2>2. QED
    BY <2>1
<1>2. StatusInductive /\ [Next]_vars => StatusInductive'
  <2>1. StatusInductive /\ UNCHANGED vars => StatusInductive'
    <3>1. UNCHANGED vars => Now' = Now /\ UNCHANGED <<core, replies, view, toldError>>
      BY DEF vars, Now
    <3>2. QED
      BY <3>1 DEF StatusInductive
  <2>2. QED
    BY <2>1, ServiceStep, ClientStep DEF Next
<1>3. StatusInductive => StatusInv
  <2>1. ASSUME StatusInductive
        PROVE  StatusInv
    <3>1. core \in CoreType /\ handler \in HandlerType /\ handler.error <= core.seq
          /\ core.seq <= MaxErrors /\ Shown(core, handler)
      BY <2>1 DEF StatusInductive, Now, Service, Sound
    <3>2. core.seq \in 0..MaxErrors /\ handler.error \in 0..MaxErrors
      BY <3>1, StatusAssumption DEF CoreType, HandlerType
    <3>3. core \in [fsm : {"off", "setup", "cloud"}, cloud : BOOLEAN,
                    busy : {"no", "waiting", "closing", "stuck"},
                    auth : Users \cup Certificates \cup {NoUser}, named : BOOLEAN,
                    requests : 0..MaxRequests, seq : 0..MaxErrors, settings : Settings]
      BY <3>1, <3>2 DEF CoreType
    <3>4. handler \in [state : States, error : 0..MaxErrors, needs : SUBSET Needs,
                       login : Users \cup {NoUser, VpnName}]
      BY <3>1, <3>2 DEF HandlerType
    <3>5. \A i \in DOMAIN replies : replies[i] \in Status
      BY <2>1, ElementOfSeq DEF StatusInductive
    <3>6. TypeOK
      BY <2>1, <3>3, <3>4, <3>5 DEF TypeOK, StatusInductive
    <3>7. LoginAgrees
      BY <3>1 DEF LoginAgrees, Shown
    <3>8. QED
      BY <3>6, <3>7 DEF StatusInv
  <2>2. QED
    BY <2>1
<1>4. QED
  BY <1>1, <1>2, <1>3, PTL DEF Spec
=============================================================================
