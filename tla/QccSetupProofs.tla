---------------------------- MODULE QccSetupProofs ----------------------------
(***************************************************************************)
(* Proofs about QccSetup, for any users and any ceiling of the delay.      *)
(*                                                                         *)
(* The handlers are functions of the module's state, so each has a lemma   *)
(* about the state it returns; the steps only add which handler runs, and  *)
(* what Core does meanwhile.                                               *)
(***************************************************************************)
EXTENDS QccSetup, TLAPS

SetupType ==
    [autoRetry : BOOLEAN, fsm : FsmStates, isError : BOOLEAN,
     retry : BOOLEAN, backoff : Exponents, auth : Accounts,
     closeAuth : Accounts, cfg : BOOLEAN, qnam : BOOLEAN, request : Accounts,
     orphans : SUBSET Users, config : Accounts, fallback : Accounts,
     disk : Accounts, fallbackDisk : Accounts, closing : BOOLEAN,
     usable : BOOLEAN, untold : BOOLEAN]

\* What Core may do inside an error signal.
Reactions == {"none", "halt", "stop", "close"}

\* No state machine and no timer runs.
Resting(s) == s.fsm = "off" /\ ~s.retry

\* No file is there, and no answer can be written to one: either no request
\* is under way, or SetupMsg has no Config.
Bare(s) ==
    /\ s.disk = NoUser /\ s.fallbackDisk = NoUser
    /\ s.cfg => s.request = NoUser /\ s.orphans = {}

\* Something is to come that will move a setup.
Driven(s) ==
    \/ s.fsm = "message" /\ s.request # NoUser
    \/ s.fsm = "error" /\ s.retry

\* The three parts that are not about the setup under way.
AtRest ==
    /\ setup.closing => session = "closing"
    /\ session \in {"idle", "halted", "closing"} => Resting(setup)
    /\ session \in {"idle", "closing"} => Bare(setup)

IInv == TypeOK /\ AtRest /\ SetupIsDriven

-----------------------------------------------------------------------------
(* The handlers. *)

LEMMA Values ==
    /\ "off" \in FsmStates /\ "message" \in FsmStates
    /\ "error" \in FsmStates /\ "final" \in FsmStates
    /\ NoUser \in Accounts
    /\ Users \subseteq Accounts
    /\ 1 \in Exponents
BY DEF FsmStates, Accounts, Exponents

LEMMA BackoffType == ASSUME NEW n \in Exponents PROVE Backoff(n) \in Exponents
<1>1. n \in Nat \ {0}
  BY DEF Exponents
<1>2. CASE 2 ^ n < DelayMax
  <2>1. n + 1 \in Nat \ {0} /\ (n + 1) - 1 = n
    BY <1>1
  <2>2. QED
    BY <1>2, <2>1 DEF Backoff, Exponents
<1>3. CASE ~(2 ^ n < DelayMax)
  BY <1>3 DEF Backoff
<1>4. QED
  BY <1>2, <1>3

\* SetupMsg::clear takes away the Config and the credentials, and touches
\* neither the state machine nor the files.
LEMMA ClearMsgFacts ==
    ASSUME NEW s \in SetupType
    PROVE  /\ ClearMsg(s) \in SetupType
           /\ ~ClearMsg(s).cfg /\ ClearMsg(s).fallback = NoUser
           /\ ClearMsg(s).fsm = s.fsm /\ ClearMsg(s).retry = s.retry
           /\ ClearMsg(s).disk = s.disk /\ ClearMsg(s).fallbackDisk = s.fallbackDisk
           /\ ClearMsg(s).closing = s.closing /\ ClearMsg(s).autoRetry = s.autoRetry
<1> DEFINE o == IF s.request = NoUser THEN s.orphans ELSE s.orphans \cup {s.request}
<1>1. o \in SUBSET Users
  BY DEF SetupType, Accounts
<1>2. ClearMsg(s) = [s EXCEPT !.cfg = FALSE, !.auth = NoUser, !.config = NoUser,
                              !.fallback = NoUser, !.orphans = o, !.request = NoUser]
  BY DEF ClearMsg
<1> HIDE DEF o
<1>3. ClearMsg(s) \in SetupType
  BY <1>1, <1>2, Values DEF SetupType
<1>4. QED
  BY <1>2, <1>3 DEF SetupType

\* Leaving the state machine stops it with its timer and removes the files.
LEMMA DeinitFacts ==
    ASSUME NEW s \in SetupType
    PROVE  /\ Deinit(s) \in SetupType
           /\ Resting(Deinit(s))
           /\ Deinit(s).disk = NoUser /\ Deinit(s).fallbackDisk = NoUser
           /\ Deinit(s).closing = s.closing /\ Deinit(s).autoRetry = s.autoRetry
           /\ Deinit(s).cfg = s.cfg /\ Deinit(s).fallback = s.fallback
           /\ Deinit(s).request = s.request /\ Deinit(s).orphans = s.orphans
<1>1. Deinit(s) \in SetupType
  BY Values DEF Deinit, SetupType
<1>2. QED
  BY <1>1 DEF Deinit, SetupType, Resting

\* A complete stop leaves nothing behind, whatever was under way.
LEMMA StopFacts ==
    ASSUME NEW s \in SetupType
    PROVE  /\ Stop(s) \in SetupType
           /\ Resting(Stop(s)) /\ Bare(Stop(s))
           /\ ~Stop(s).cfg /\ Stop(s).fallback = NoUser
           /\ Stop(s).closing = s.closing /\ Stop(s).autoRetry = s.autoRetry
BY ClearMsgFacts, DeinitFacts DEF Stop, Resting, Bare

\* A stop that closes the session does the same, but for the close request.
LEMMA CloseFacts ==
    ASSUME NEW s \in SetupType
    PROVE  /\ Close(s) \in SetupType
           /\ Resting(Close(s)) /\ Bare(Close(s))
           /\ Close(s).fallback = NoUser
           /\ Close(s).autoRetry = s.autoRetry
<1> DEFINE t == ClearMsg(Deinit(s))
<1>1. /\ t \in SetupType /\ Resting(t) /\ Bare(t)
      /\ t.autoRetry = s.autoRetry /\ t.fallback = NoUser
  BY StopFacts DEF Stop
<1> DEFINE c == CanClose(s) \/ (t.closing /\ ~Closable(s))
           n == Closable(s) /\ ~s.usable
<1>2. Close(s) = [t EXCEPT !.closing = c, !.untold = n]
  BY DEF Close
<1>3. c \in BOOLEAN /\ n \in BOOLEAN
  OBVIOUS
<1> HIDE DEF t, c, n
<1>4. Close(s) \in SetupType
  BY <1>1, <1>2, <1>3 DEF SetupType
<1>5. QED
  BY <1>1, <1>2, <1>4 DEF SetupType, Resting, Bare

\* Whatever Core answers but "none" brings the module to rest.
LEMMA AnsweredFacts ==
    ASSUME NEW s \in SetupType, NEW r \in Reactions
    PROVE  /\ Answered(s, r) \in SetupType
           /\ Answered(s, r).autoRetry = s.autoRetry
           /\ r = "none" => Answered(s, r) = s
           /\ r # "none" => Resting(Answered(s, r))
           /\ r = "halt" =>
                /\ Answered(s, r).fallback = s.fallback
                /\ Answered(s, r).disk = NoUser /\ Answered(s, r).fallbackDisk = NoUser
                /\ Bare(s) => Bare(Answered(s, r))
           /\ r \in {"stop", "close"} =>
                Bare(Answered(s, r)) /\ Answered(s, r).fallback = NoUser
           /\ r # "close" => Answered(s, r).closing = s.closing
<1>1. CASE r = "none"
  BY <1>1 DEF Answered
<1>2. CASE r = "halt"
  BY <1>2, DeinitFacts DEF Answered, Halt, Bare
<1>3. CASE r = "stop"
  BY <1>3, StopFacts DEF Answered
<1>4. CASE r = "close"
  BY <1>4, CloseFacts DEF Answered
<1>5. QED
  BY <1>1, <1>2, <1>3, <1>4 DEF Reactions

\* An error moves the state machine only if Core has not stopped it meanwhile.
LEMMA RaiseFacts ==
    ASSUME NEW s \in SetupType, NEW r \in Reactions
    PROVE  /\ Raise(s, r) \in SetupType
           /\ Raise(s, r).autoRetry = s.autoRetry
           /\ r # "none" => Raise(s, r) = Answered(s, r)
           /\ r = "none" =>
                /\ s.fsm # "message" => Raise(s, r) = s
                /\ s.fsm = "message" => /\ Raise(s, r).fsm = "error"
                                        /\ Raise(s, r).retry = s.autoRetry
                /\ Raise(s, r).closing = s.closing
                /\ Raise(s, r).cfg = s.cfg /\ Raise(s, r).fallback = s.fallback
                /\ Raise(s, r).request = s.request /\ Raise(s, r).orphans = s.orphans
                /\ Raise(s, r).disk = s.disk /\ Raise(s, r).fallbackDisk = s.fallbackDisk
<1>1. CASE r # "none"
  <2>1. Answered(s, r).fsm = "off"
    BY <1>1, AnsweredFacts DEF Resting
  <2>2. Raise(s, r) = Answered(s, r)
    BY <2>1 DEF Raise
  <2>3. QED
    BY <1>1, <2>2, AnsweredFacts
<1>2. CASE r = "none" /\ s.fsm # "message"
  <2>1. Raise(s, r) = s
    BY <1>2, AnsweredFacts DEF Raise
  <2>2. QED
    BY <1>2, <2>1
<1>3. CASE r = "none" /\ s.fsm = "message"
  <2>1. Answered(s, r) = s
    BY <1>3, AnsweredFacts
  <2> DEFINE b == IF s.autoRetry THEN Backoff(s.backoff) ELSE s.backoff
  <2>2. Raise(s, r) = [s EXCEPT !.fsm = "error", !.isError = TRUE, !.retry = s.autoRetry,
                                !.backoff = b]
    BY <1>3, <2>1 DEF Raise
  <2>3. s.backoff \in Exponents /\ s.autoRetry \in BOOLEAN
    BY DEF SetupType
  <2>4. b \in Exponents
    BY <2>3, BackoffType
  <2> HIDE DEF b
  <2>5. Raise(s, r) \in SetupType
    BY <2>2, <2>3, <2>4, Values DEF SetupType
  <2>6. QED
    BY <1>3, <2>2, <2>5 DEF SetupType
<1>4. QED
  BY <1>1, <1>2, <1>3

\* Entering the message state.
LEMMA EnteredFacts ==
    ASSUME NEW s \in SetupType
    PROVE  /\ Entered(s) \in SetupType
           /\ Entered(s).fsm = "message"
           /\ Entered(s).autoRetry = s.autoRetry /\ Entered(s).closing = s.closing
           /\ Entered(s).cfg = s.cfg /\ Entered(s).fallback = s.fallback
           /\ Entered(s).disk = s.disk /\ Entered(s).fallbackDisk = s.fallbackDisk
<1>1. Entered(s) \in SetupType
  BY Values DEF Entered, SetupType
<1>2. QED
  BY <1>1 DEF Entered, SetupType

LEMMA SendFacts ==
    ASSUME NEW s \in SetupType, s.auth # NoUser
    PROVE  /\ Send(s) \in SetupType
           /\ Driven(Send(s))
           /\ Send(s).autoRetry = s.autoRetry /\ Send(s).closing = s.closing
           /\ Send(s).cfg = s.cfg /\ Send(s).fallback = s.fallback
           /\ Send(s).disk = s.disk /\ Send(s).fallbackDisk = s.fallbackDisk
<1>1. Send(s) = [Entered(s) EXCEPT !.request = s.auth] /\ s.auth \in Accounts
  BY DEF Send, SetupType
<1>2. Send(s) \in SetupType
  BY <1>1, EnteredFacts DEF SetupType
<1>3. QED
  BY <1>1, <1>2, EnteredFacts DEF SetupType, Driven

\* A state that is about to send without usable credentials.
Unsent(s) == [Entered(s) EXCEPT !.request = NoUser]

LEMMA UnsentFacts ==
    ASSUME NEW s \in SetupType
    PROVE  /\ Unsent(s) \in SetupType
           /\ Unsent(s).fsm = "message"
           /\ Unsent(s).autoRetry = s.autoRetry /\ Unsent(s).closing = s.closing
           /\ Unsent(s).cfg = s.cfg /\ Unsent(s).fallback = s.fallback
           /\ Unsent(s).disk = s.disk /\ Unsent(s).fallbackDisk = s.fallbackDisk
<1>1. Unsent(s) \in SetupType
  BY EnteredFacts, Values DEF Unsent, SetupType
<1>2. QED
  BY <1>1, EnteredFacts DEF Unsent, SetupType

LEMMA StartedFacts ==
    ASSUME NEW s \in SetupType
    PROVE  /\ Started(s) \in SetupType
           /\ Started(s).autoRetry = s.autoRetry /\ Started(s).closing = s.closing
           /\ Started(s).cfg /\ Started(s).fallback = s.fallback
<1>1. Started(s) \in SetupType
  BY DEF Started, SetupType
<1>2. QED
  BY <1>1 DEF Started, SetupType

\* Decoding an answer changes the configurations only.
LEMMA DecodeFacts ==
    ASSUME NEW s \in SetupType, NEW u \in Users, NEW fb \in BOOLEAN
    PROVE  /\ Decode(s, u, fb) \in SetupType
           /\ Decode(s, u, fb).fsm = s.fsm /\ Decode(s, u, fb).retry = s.retry
           /\ Decode(s, u, fb).autoRetry = s.autoRetry /\ Decode(s, u, fb).closing = s.closing
           /\ Decode(s, u, fb).cfg = s.cfg /\ Decode(s, u, fb).request = s.request
           /\ Decode(s, u, fb).orphans = s.orphans
           /\ Decode(s, u, fb).disk = s.disk
           /\ Decode(s, u, fb).fallbackDisk = s.fallbackDisk
<1>1. u \in Accounts
  BY DEF Accounts
<1>2. Decode(s, u, fb) \in SetupType
  BY <1>1 DEF Decode, SetupType
<1>3. QED
  BY <1>2 DEF Decode, SetupType

\* Completing the setup writes files and may end the state machine, no more.
LEMMA CompleteFacts ==
    ASSUME NEW s \in SetupType, NEW written \in SUBSET Files
    PROVE  /\ Complete(s, written) \in SetupType
           /\ s.fsm # "message" => Complete(s, written).fsm = s.fsm
           /\ Complete(s, written).retry = s.retry
           /\ Complete(s, written).closing = s.closing
           /\ Complete(s, written).autoRetry = s.autoRetry
           /\ Complete(s, written).cfg = s.cfg /\ Complete(s, written).fallback = s.fallback
<1> DEFINE t == WriteFiles(s, written)
<1>1. /\ t \in SetupType
      /\ t.fsm = s.fsm /\ t.retry = s.retry /\ t.closing = s.closing
      /\ t.autoRetry = s.autoRetry /\ t.cfg = s.cfg /\ t.fallback = s.fallback
  <2>1. CASE t = s
    BY <2>1
  <2>2. CASE t = [s EXCEPT !.disk = s.config]
    <3>1. t \in SetupType
      BY <2>2 DEF SetupType
    <3>2. QED
      BY <2>2, <3>1 DEF SetupType
  <2>3. CASE t = [s EXCEPT !.fallbackDisk = s.fallback]
    <3>1. t \in SetupType
      BY <2>3 DEF SetupType
    <3>2. QED
      BY <2>3, <3>1 DEF SetupType
  <2>4. QED
    BY <2>1, <2>2, <2>3 DEF WriteFiles
<1>2. Complete(s, written) = IF t.fsm = "message"
                             THEN [t EXCEPT !.fsm = "final", !.isError = FALSE] ELSE t
  BY DEF Complete
<1> HIDE DEF t
<1>3. CASE t.fsm = "message"
  <2>1. Complete(s, written) = [t EXCEPT !.fsm = "final", !.isError = FALSE]
    BY <1>2, <1>3
  <2>2. Complete(s, written) \in SetupType
    BY <1>1, <2>1, Values DEF SetupType
  <2>3. QED
    BY <1>1, <1>3, <2>1, <2>2 DEF SetupType
<1>4. QED
  BY <1>1, <1>2, <1>3

-----------------------------------------------------------------------------
(* The steps. *)

LEMMA Unfolded == TypeOK <=> setup \in SetupType /\ session \in Sessions
BY DEF TypeOK, SetupType

LEMMA InitInv == Init => IInv
<1> SUFFICES ASSUME Init PROVE IInv
  OBVIOUS
<1>1. PICK a \in BOOLEAN : setup = Fresh(a)
  BY DEF Init
<1>2. Fresh(a) \in SetupType
  BY Values DEF Fresh, SetupType
<1>3. session = "idle" /\ session \in Sessions
  BY DEF Init, Sessions
<1>4. AtRest /\ SetupIsDriven
  BY <1>1, <1>3 DEF Fresh, AtRest, Resting, Bare, SetupIsDriven
<1>5. QED
  BY <1>1, <1>2, <1>3, <1>4, Unfolded DEF IInv

\* What the invariant says of the module's state s while Core does x.
Fits(s, x) ==
    /\ s \in SetupType /\ x \in Sessions
    /\ s.closing => x = "closing"
    /\ x \in {"idle", "halted", "closing"} => Resting(s)
    /\ x \in {"idle", "closing"} => Bare(s)
    /\ x = "setup" => Driven(s)

LEMMA FitsIsInv ==
    /\ IInv <=> Fits(setup, session)
    /\ IInv' <=> Fits(setup', session')
BY Unfolded DEF IInv, TypeOK, SetupType, Fits, AtRest, SetupIsDriven, Driven, Resting, Bare

LEMMA LoginStep ==
    ASSUME IInv, NEW u \in Users, Login(u)
    PROVE  IInv'
<1>1. u \in Accounts
  BY DEF Accounts
<1>2. setup' = [setup EXCEPT !.auth = u, !.closeAuth = u] /\ session' = session
  BY DEF Login
<1>3. Fits(setup, session)
  BY FitsIsInv
<1>4. setup' \in SetupType
  BY <1>1, <1>2, <1>3 DEF Fits, SetupType
<1>5. Fits(setup', session')
  BY <1>2, <1>3, <1>4 DEF Fits, SetupType, Resting, Bare, Driven
<1>6. QED
  BY <1>5, FitsIsInv

LEMMA CredentialsChangeStep ==
    ASSUME IInv, CredentialsChange
    PROVE  IInv'
<1>1. setup' = [setup EXCEPT !.usable = ~setup.usable] /\ session' = session
  BY DEF CredentialsChange
<1>2. Fits(setup, session)
  BY FitsIsInv
<1>3. setup' \in SetupType
  BY <1>1, <1>2 DEF Fits, SetupType
<1>4. Fits(setup', session')
  BY <1>1, <1>2, <1>3 DEF Fits, SetupType, Resting, Bare, Driven
<1>5. QED
  BY <1>4, FitsIsInv

\* A complete stop.
LEMMA StopStep ==
    ASSUME NEW s \in SetupType, ~s.closing, setup' = Stop(s), session' = "idle"
    PROVE  IInv'
<1>1. Fits(setup', session')
  BY StopFacts DEF Fits, Sessions
<1>2. QED
  BY <1>1, FitsIsInv

\* A stop that closes the session.
LEMMA CloseStep ==
    ASSUME NEW s \in SetupType, setup' = Close(s), session' = "closing"
    PROVE  IInv'
<1>1. Fits(setup', session')
  BY CloseFacts DEF Fits, Sessions
<1>2. QED
  BY <1>1, FitsIsInv

\* An error in state s, which is the module's state but for the request that
\* has ended.  Core's answers are those it may give in its state: only a
\* module that retries goes on with its setup.
LEMMA ErrorStep ==
    ASSUME IInv, NEW s \in SetupType, NEW o, NEW r \in CoreAnswers(o),
           s.autoRetry = setup.autoRetry, s.closing = setup.closing,
           session \in {"idle", "halted", "closing"} => Resting(s),
           session \in {"idle", "closing"} => Bare(s),
           session = "setup" => s.fsm = "message" \/ (s.fsm = "error" /\ s.retry),
           setup' = Raise(s, r), session' = After(r)
    PROVE  IInv'
<1>1. Fits(setup, session)
  BY FitsIsInv
<1>2. r \in Reactions
  BY DEF CoreAnswers, Reactions
<1>3. CASE r = "none"
  <2>1. session' = session
    BY <1>3 DEF After
  <2>2. session = "setup" => s.autoRetry
    <3>1. setup.autoRetry \in BOOLEAN
      BY <1>1 DEF Fits, SetupType
    <3>2. QED
      BY <1>3, <3>1 DEF CoreAnswers
  <2>3. session \in {"idle", "halted", "closing"} => s.fsm # "message"
    BY DEF Resting
  <2>4. Fits(setup', session')
    BY <1>1, <1>2, <1>3, <2>1, <2>2, <2>3, RaiseFacts DEF Fits, Driven
  <2>5. QED
    BY <2>4, FitsIsInv
<1>4. CASE r = "halt"
  <2>1. /\ setup' = Answered(s, r) /\ setup' \in SetupType
        /\ Resting(setup') /\ setup'.closing = s.closing
    BY <1>2, <1>4, AnsweredFacts, RaiseFacts
  <2>2. session \in {"idle", "closing"} => Bare(setup')
    <3>1. setup' = Deinit(s)
      BY <1>4, <2>1 DEF Answered, Halt
    <3>2. /\ setup'.cfg = s.cfg /\ setup'.request = s.request /\ setup'.orphans = s.orphans
      BY <3>1 DEF Deinit, SetupType
    <3>3. setup'.disk = NoUser /\ setup'.fallbackDisk = NoUser
      BY <3>1, DeinitFacts
    <3>4. QED
      BY <3>2, <3>3 DEF Bare
  <2>3. session' = IF session = "setup" THEN "halted" ELSE session
    BY <1>4 DEF After
  <2>4. Fits(setup', session')
    BY <1>1, <2>1, <2>2, <2>3 DEF Fits, Sessions
  <2>5. QED
    BY <2>4, FitsIsInv
<1>5. CASE r = "stop"
  <2>1. session # "closing"
    BY <1>5 DEF CoreAnswers
  <2>2. setup' = Stop(s) /\ session' = "idle"
    BY <1>2, <1>5, RaiseFacts DEF Answered, After
  <2>3. QED
    BY <1>1, <2>1, <2>2, StopStep DEF Fits
<1>6. CASE r = "close"
  <2>1. setup' = Close(s) /\ session' = "closing"
    BY <1>2, <1>6, RaiseFacts DEF Answered, After
  <2>2. QED
    BY <2>1, CloseStep
<1>7. QED
  BY <1>2, <1>3, <1>4, <1>5, <1>6 DEF Reactions

LEMMA StartStep ==
    ASSUME IInv, Start
    PROVE  IInv'
<1> DEFINE s == Started(setup)
<1>1. Fits(setup, session) /\ session \in {"idle", "halted"}
  BY FitsIsInv DEF Start
<1>2. s \in SetupType /\ s.autoRetry = setup.autoRetry /\ ~s.closing
  BY <1>1, StartedFacts DEF Fits
<1>3. CASE CanSend(s) /\ setup' = Send(s) /\ session' = "setup"
  <2>1. Fits(setup', session')
    BY <1>2, <1>3, SendFacts DEF Fits, Sessions, CanSend
  <2>2. QED
    BY <2>1, FitsIsInv
<1>4. CASE s.autoRetry /\ setup' = Refuse(s, "none") /\ session' = "setup"
  <2>1. setup' = Raise(Unsent(s), "none")
    BY <1>4 DEF Refuse, Unsent
  <2>2. Fits(setup', session')
    BY <1>2, <1>4, <2>1, UnsentFacts, RaiseFacts DEF Fits, Sessions, Driven, Reactions
  <2>3. QED
    BY <2>2, FitsIsInv
<1>5. CASE ~s.autoRetry /\ setup' = Refuse(s, "stop") /\ session' = "idle"
  <2>1. setup' = Stop(Unsent(s))
    BY <1>2, <1>5, UnsentFacts, RaiseFacts DEF Refuse, Unsent, Answered, Reactions
  <2>2. QED
    BY <1>2, <1>5, <2>1, UnsentFacts, StopStep
<1>6. QED
  BY <1>3, <1>4, <1>5 DEF Start

LEMMA RetryStep ==
    ASSUME IInv, RetryTimeout
    PROVE  IInv'
<1> DEFINE s == [setup EXCEPT !.retry = FALSE]
<1>1. Fits(setup, session) /\ setup.retry
  BY FitsIsInv DEF RetryTimeout
<1>2. /\ s \in SetupType /\ s.fsm = setup.fsm /\ s.request = setup.request
      /\ s.autoRetry = setup.autoRetry /\ s.closing = setup.closing
  <2>1. s \in SetupType
    BY <1>1 DEF Fits, SetupType
  <2>2. QED
    BY <1>1, <2>1 DEF Fits, SetupType
<1>3. session \in {"setup", "online"}
  BY <1>1 DEF Fits, Resting, Sessions
<1> HIDE DEF s
<1>4. CASE s.fsm # "error" /\ setup' = s /\ session' = session
  <2>1. Fits(setup', session')
    BY <1>1, <1>2, <1>3, <1>4 DEF Fits, Driven
  <2>2. QED
    BY <2>1, FitsIsInv
<1>5. CASE CanSend(s) /\ setup' = Send(s) /\ session' = session
  <2>1. Fits(setup', session')
    BY <1>1, <1>2, <1>3, <1>5, SendFacts DEF Fits, CanSend
  <2>2. QED
    BY <2>1, FitsIsInv
<1>6. CASE \E r \in CoreAnswers("rejected") : setup' = Refuse(s, r) /\ session' = After(r)
  <2>1. PICK r \in CoreAnswers("rejected") : setup' = Refuse(s, r) /\ session' = After(r)
    BY <1>6
  <2>2. setup' = Raise(Unsent(s), r)
    BY <2>1 DEF Refuse, Unsent
  <2>3. /\ Unsent(s) \in SetupType /\ Unsent(s).fsm = "message"
        /\ Unsent(s).autoRetry = setup.autoRetry /\ Unsent(s).closing = setup.closing
    BY <1>2, UnsentFacts
  <2>4. QED
    BY <1>2, <1>3, <2>1, <2>2, <2>3, ErrorStep
<1>7. QED
  BY <1>4, <1>5, <1>6 DEF RetryTimeout, s

LEMMA UserStopStep ==
    ASSUME IInv, UserStop
    PROVE  IInv'
<1>1. Fits(setup, session)
  BY FitsIsInv
<1>2. QED
  BY <1>1, StopStep, CloseStep DEF UserStop, Fits

LEMMA CloseReplyStep ==
    ASSUME IInv, CloseReply
    PROVE  IInv'
<1>1. Fits(setup, session) /\ session = "closing" /\ session' = "idle"
  BY FitsIsInv DEF CloseReply, Fits
<1>2. setup' = [setup EXCEPT !.closing = FALSE, !.auth = NoUser, !.closeAuth = NoUser]
  BY DEF CloseReply, Closed
<1>3. setup' \in SetupType
  BY <1>1, <1>2, Values DEF Fits, SetupType
<1>4. Fits(setup', session')
  BY <1>1, <1>2, <1>3 DEF Fits, SetupType, Sessions, Resting, Bare
<1>5. QED
  BY <1>4, FitsIsInv

\* An answer may fail in any state of Core; it completes something only where
\* the module is in use.
LEMMA ReplyStep ==
    ASSUME IInv, NEW own \in BOOLEAN, Reply(own)
    PROVE  IInv'
<1>1. Fits(setup, session)
  BY FitsIsInv
<1>2. PICK u \in Users, o \in Outcomes, fb \in BOOLEAN :
        /\ IF own THEN setup.request = u ELSE u \in setup.orphans
        /\ LET s == IF own THEN [setup EXCEPT !.request = NoUser]
                           ELSE [setup EXCEPT !.orphans = @ \ {u}]
           IN IF Fails(s, o)
              THEN \E r \in CoreAnswers(o) :
                      setup' = AnswerFails(s, u, o, fb, r) /\ session' = After(r)
              ELSE /\ \E written \in SUBSET Files : setup' = AnswerCompletes(s, u, fb, written)
                   /\ session' = IF session = "setup" THEN "online" ELSE session
  BY DEF Reply
<1> DEFINE s == IF own THEN [setup EXCEPT !.request = NoUser]
                       ELSE [setup EXCEPT !.orphans = @ \ {u}]
<1>3. /\ s \in SetupType
      /\ s.fsm = setup.fsm /\ s.retry = setup.retry /\ s.cfg = setup.cfg
      /\ s.autoRetry = setup.autoRetry /\ s.closing = setup.closing
      /\ s.disk = setup.disk /\ s.fallbackDisk = setup.fallbackDisk
      /\ s.request \in {setup.request, NoUser} /\ s.orphans \subseteq setup.orphans
  <2>1. CASE own
    <3>1. s = [setup EXCEPT !.request = NoUser]
      BY <2>1
    <3>2. s \in SetupType
      BY <1>1, <3>1, Values DEF Fits, SetupType
    <3>3. QED
      BY <1>1, <3>1, <3>2 DEF Fits, SetupType
  <2>2. CASE ~own
    <3>1. s = [setup EXCEPT !.orphans = @ \ {u}]
      BY <2>2
    <3>2. setup.orphans \ {u} \in SUBSET Users
      BY <1>1 DEF Fits, SetupType
    <3>3. s \in SetupType
      BY <1>1, <3>1, <3>2 DEF Fits, SetupType
    <3>4. QED
      BY <1>1, <3>1, <3>3 DEF Fits, SetupType
  <2>3. QED
    BY <2>1, <2>2
<1>4. session \in {"idle", "closing"} => ~setup.cfg
  <2>1. u # NoUser
    BY QccSetupAssumption
  <2>2. setup.request # NoUser \/ setup.orphans # {}
    BY <1>2, <2>1
  <2>3. QED
    BY <1>1, <2>2 DEF Fits, Bare
<1>5. /\ session \in {"idle", "halted", "closing"} => Resting(s)
      /\ session \in {"idle", "closing"} => Bare(s)
      /\ session = "setup" => s.fsm = "message" \/ (s.fsm = "error" /\ s.retry)
  BY <1>1, <1>3 DEF Fits, Resting, Bare, Driven
<1> HIDE DEF s
<1>6. CASE \E r \in CoreAnswers(o) :
              setup' = AnswerFails(s, u, o, fb, r) /\ session' = After(r)
  <2>1. PICK r \in CoreAnswers(o) :
              setup' = AnswerFails(s, u, o, fb, r) /\ session' = After(r)
    BY <1>6
  <2> DEFINE t == IF o \in {"rejected", "domains"} THEN s ELSE Decode(s, u, fb)
  <2>2. setup' = Raise(t, r)
    BY <2>1 DEF AnswerFails
  <2>3. /\ t \in SetupType
        /\ t.fsm = s.fsm /\ t.retry = s.retry /\ t.cfg = s.cfg
        /\ t.autoRetry = s.autoRetry /\ t.closing = s.closing
        /\ t.disk = s.disk /\ t.fallbackDisk = s.fallbackDisk
        /\ t.request = s.request /\ t.orphans = s.orphans
    BY <1>3, DecodeFacts
  <2> HIDE DEF t
  <2>4. /\ session \in {"idle", "halted", "closing"} => Resting(t)
        /\ session \in {"idle", "closing"} => Bare(t)
        /\ session = "setup" => t.fsm = "message" \/ (t.fsm = "error" /\ t.retry)
    BY <1>5, <2>3 DEF Resting, Bare
  <2>5. t.autoRetry = setup.autoRetry /\ t.closing = setup.closing
    BY <1>3, <2>3
  <2>6. QED
    BY <2>1, <2>2, <2>3, <2>4, <2>5, ErrorStep
<1>7. CASE /\ ~Fails(s, o)
           /\ \E written \in SUBSET Files : setup' = AnswerCompletes(s, u, fb, written)
           /\ session' = IF session = "setup" THEN "online" ELSE session
  <2>1. PICK written \in SUBSET Files : setup' = Complete(Decode(s, u, fb), written)
    BY <1>7 DEF AnswerCompletes
  <2>2. session \in {"setup", "halted", "online"}
    BY <1>1, <1>3, <1>4, <1>7 DEF Fails, Fits, Sessions
  <2>3. Fits(setup', session')
    BY <1>1, <1>3, <1>5, <1>7, <2>1, <2>2, DecodeFacts, CompleteFacts
    DEF Fits, Sessions, Resting
  <2>4. QED
    BY <2>3, FitsIsInv
<1>8. QED
  BY <1>2, <1>6, <1>7 DEF s

\* Every step preserves the invariant.
LEMMA NextInv == IInv /\ [Next]_vars => IInv'
<1> SUFFICES ASSUME IInv, [Next]_vars PROVE IInv'
  OBVIOUS
<1>1. CASE \E u \in Users : Login(u)
  BY <1>1, LoginStep
<1>2. CASE Start
  BY <1>2, StartStep
<1>3. CASE RetryTimeout
  BY <1>3, RetryStep
<1>4. CASE UserStop
  BY <1>4, UserStopStep
<1>5. CASE \E own \in BOOLEAN : Reply(own)
  BY <1>5, ReplyStep
<1>6. CASE CloseReply
  BY <1>6, CloseReplyStep
<1>7. CASE CredentialsChange
  BY <1>7, CredentialsChangeStep
<1>8. CASE UNCHANGED vars
  BY <1>8, FitsIsInv DEF vars
<1>9. QED
  BY <1>1, <1>2, <1>3, <1>4, <1>5, <1>6, <1>7, <1>8 DEF Next

LEMMA Invariance == Spec => []IInv
BY InitInv, NextInv, PTL DEF Spec

-----------------------------------------------------------------------------
(* The theorems. *)

\* The module's fields have the values their classes declare, and the delay of
\* the retries stays below twice its ceiling.
THEOREM TypeCorrect == Spec => []TypeOK
<1>1. IInv => TypeOK
  BY DEF IInv
<1>2. QED
  BY <1>1, Invariance, PTL

\* Once a stop is complete, or an organization is asked for, nothing of the
\* setup goes on by itself, and no configuration outlives its session.
THEOREM RestIsQuiet == Spec => []IdleIsQuiet
<1>1. IInv => IdleIsQuiet
  BY DEF IInv, AtRest, Resting, Bare, IdleIsQuiet
<1>2. QED
  BY <1>1, Invariance, PTL

\* A setup under way waits for an answer or for its retry timer.
THEOREM SetupNeverStalls == Spec => []SetupIsDriven
<1>1. IInv => SetupIsDriven
  BY DEF IInv
<1>2. QED
  BY <1>1, Invariance, PTL
=============================================================================
