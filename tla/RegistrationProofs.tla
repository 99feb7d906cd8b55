------------------------- MODULE RegistrationProofs -------------------------
(***************************************************************************)
(* Proofs about Registration, for any codes, any ceiling of the delay and  *)
(* any bounds.                                                             *)
(*                                                                         *)
(* The handlers are functions of the module's state, so each has a lemma   *)
(* about the state it returns.  An answer is a step of the state without   *)
(* its request: what the invariant says of that state (Fits) is all that   *)
(* the lemmas about answers use.                                           *)
(***************************************************************************)
EXTENDS Registration, TLAPS

RegType ==
    [fsm : FsmStates, isError : BOOLEAN, critical : BOOLEAN, retry : BOOLEAN,
     backoff : Exponents, cfg : BOOLEAN, qnam : BOOLEAN, host : Hosts,
     valid : BOOLEAN, closeAuth : BOOLEAN, config : CodesOrNone,
     redirectUrl : CodesOrNone, regUrl : Requests, request : Requests,
     orphans : SUBSET Requests, timers : [Resources -> 0 .. MaxTimers],
     closing : BOOLEAN]

DiskType == [code : CodesOrNone, prov : [code : CodesOrNone, named : BOOLEAN],
             ca : CodesOrNone, vpn : CodesOrNone]

\* Something is to come that moves a setup, or the user has to act.
Driven(s) ==
    \/ s.fsm = "message" /\ (s.request # NoRequest \/ ~NoTimers(s))
    \/ s.fsm = "error" /\ (s.retry \/ s.critical)

\* The same of a state whose request has just ended: it is still to be told how.
Waiting(s) ==
    \/ s.fsm = "message"
    \/ s.fsm = "error" /\ (s.retry \/ s.critical)

\* What Core's state promises of the module: at rest nothing runs and no
\* address is left to delete; in use, the answers reach their files.
Matches(s, x) ==
    /\ s.closing => x = "closing"
    /\ x \in {"idle", "closing"} => s.fsm = "off" /\ ~s.retry /\ s.regUrl = NoRequest
    /\ x \in {"setup", "online"} => s.cfg

\* What is asked of the registry, and what waits to complete the setup, is of
\* the code that the device has.
Agrees(s, x, d) ==
    /\ s.regUrl = NoRequest \/ s.regUrl.code = d.code
    /\ s.timers.config > 0 /\ x \in {"setup", "online"} =>
        s.config = d.code /\ s.config # NoCode /\ d.ca \in {d.code, NoCode}
    /\ x = "online" => d.vpn = d.code /\ d.vpn # NoCode /\ d.ca \in {d.code, NoCode}

\* What completes the setup is saved, unless it was emptied meanwhile.
Saved == reg.timers.config > 0 => spoilt \/ disk.prov.code = disk.code

\* All of it but the driver, of any state s of the module with Core doing x.
Fits(s, x, d) ==
    /\ s \in RegType /\ x \in Sessions /\ d \in DiskType
    /\ Matches(s, x)
    /\ Agrees(s, x, d)

\* What the invariant says of the world.
WorldOK ==
    /\ server \in [Codes -> [Resources -> BOOLEAN]]
    /\ deletes \subseteq Resources \X Codes

IInv ==
    /\ TypeOK
    /\ Matches(reg, session)
    /\ Agrees(reg, session, disk)
    /\ Saved
    /\ SetupIsDriven

\* What a step has to show of reg, session and disk: the invariant, and that the
\* provisioning stays, is written or is emptied.
Kept ==
    /\ Fits(reg', session', disk')
    /\ session' = "setup" => Driven(reg')
    /\ reg'.timers.config > 0 =>
        \/ disk'.prov.code = disk'.code
        \/ /\ reg.timers.config > 0 /\ disk'.code = disk.code
           /\ disk'.prov \in {disk.prov, NoProvisioning}

-----------------------------------------------------------------------------
(* The handlers. *)

LEMMA Values ==
    /\ "off" \in FsmStates /\ "message" \in FsmStates
    /\ "error" \in FsmStates /\ "final" \in FsmStates
    /\ "none" \in Hosts /\ "registry" \in Hosts /\ "switchboard" \in Hosts
    /\ "redirect" \in Resources /\ "config" \in Resources
    /\ NoCode \in CodesOrNone
    /\ Codes \subseteq CodesOrNone
    /\ NoRequest \in Requests
    /\ 1 \in Exponents
BY DEF FsmStates, Hosts, Resources, CodesOrNone, NoRequest, Requests, Exponents

LEMMA BackoffType == ASSUME NEW n \in Exponents PROVE Backoff(n) \in Exponents
<1>1. n \in Nat \ {0}
  BY DEF Exponents
<1>2. CASE 2 ^ n < DelayMax
  <2>1. n + 1 \in Nat \ {0} /\ (n + 1) - 1 = n
    BY <1>1
  <2>2. QED
    BY <1>2, <2>1 DEF Backoff, Exponents
<1>3. CASE ~(2 ^ n < DelayMax)
  BY <1>3 DEF Backoff
<1>4. QED
  BY <1>2, <1>3

\* A timer more or less keeps their types, and touches only its own kind.
LEMMA TimerFacts ==
    ASSUME NEW m \in [Resources -> 0 .. MaxTimers], NEW w \in Resources,
           NEW n \in 0 .. MaxTimers
    PROVE  /\ [m EXCEPT ![w] = n] \in [Resources -> 0 .. MaxTimers]
           /\ [m EXCEPT ![w] = n][w] = n
           /\ \A v \in Resources : v # w => [m EXCEPT ![w] = n][v] = m[v]
OBVIOUS

\* What no handler of an answer changes.
Same(s, t) ==
    /\ t.cfg = s.cfg /\ t.closing = s.closing
    /\ t.regUrl = s.regUrl /\ t.timers = s.timers

\* RegMsg::clear takes away the addresses and the Config, and touches neither
\* the state machine nor the timers.
LEMMA ClearMsgFacts ==
    ASSUME NEW s \in RegType
    PROVE  /\ ClearMsg(s) \in RegType
           /\ ClearMsg(s).fsm = s.fsm /\ ClearMsg(s).retry = s.retry
           /\ ClearMsg(s).regUrl = NoRequest /\ ClearMsg(s).timers = s.timers
           /\ ClearMsg(s).closing = s.closing
<1> DEFINE o == IF s.request = NoRequest THEN s.orphans ELSE s.orphans \cup {s.request}
<1>1. o \in SUBSET Requests
  BY DEF RegType
<1>2. ClearMsg(s) = [s EXCEPT !.cfg = FALSE, !.host = "none", !.valid = FALSE,
                              !.config = NoCode, !.redirectUrl = NoCode,
                              !.regUrl = NoRequest, !.request = NoRequest, !.orphans = o]
  BY DEF ClearMsg, RegType
<1> HIDE DEF o
<1>3. ClearMsg(s) \in RegType
  BY <1>1, <1>2, Values DEF RegType
<1>4. QED
  BY <1>2, <1>3 DEF RegType

\* A stop leaves the module at rest, but for the timers and the close request.
LEMMA HaltFacts ==
    ASSUME NEW s \in RegType
    PROVE  /\ Halt(s) \in RegType
           /\ Halt(s).fsm = "off" /\ ~Halt(s).retry
           /\ Halt(s).regUrl = NoRequest /\ Halt(s).timers = s.timers
           /\ Halt(s).closing = s.closing
<1> DEFINE t == [s EXCEPT !.fsm = "off", !.critical = FALSE, !.retry = FALSE, !.backoff = 1]
<1>1. t \in RegType
  BY Values DEF RegType
<1>2. t.fsm = "off" /\ ~t.retry /\ t.timers = s.timers /\ t.closing = s.closing
  BY <1>1 DEF RegType
<1>3. Halt(s) = ClearMsg(t)
  BY DEF Halt
<1> HIDE DEF t
<1>4. QED
  BY <1>1, <1>2, <1>3, ClearMsgFacts

\* An error waits for the retry timer or for the user.
LEMMA RaiseFacts ==
    ASSUME NEW s \in RegType, NEW c \in BOOLEAN
    PROVE  /\ Raise(s, c) \in RegType
           /\ Same(s, Raise(s, c))
           /\ Raise(s, c).config = s.config
           /\ Waiting(s) => Driven(Raise(s, c))
           /\ s.fsm # "message" => Raise(s, c) = s
<1>1. CASE s.fsm # "message"
  <2>1. Raise(s, c) = s
    BY <1>1 DEF Raise
  <2>2. Waiting(s) => Driven(s)
    BY <1>1 DEF Waiting, Driven
  <2>3. QED
    BY <2>1, <2>2 DEF Same
<1>2. CASE s.fsm = "message"
  <2> DEFINE b == IF c THEN s.backoff ELSE Backoff(s.backoff)
             r == s.retry \/ ~c
  <2>1. b \in Exponents /\ r \in BOOLEAN
    BY BackoffType DEF RegType
  <2>2. Raise(s, c) = [s EXCEPT !.fsm = "error", !.isError = TRUE, !.critical = c,
                                !.retry = r, !.backoff = b]
    BY <1>2 DEF Raise, RegType
  <2>3. c \/ r
    OBVIOUS
  <2> HIDE DEF b, r
  <2>4. Raise(s, c) \in RegType
    BY <2>1, <2>2, Values DEF RegType
  <2>5. QED
    BY <1>2, <2>2, <2>3, <2>4 DEF RegType, Same, Driven
<1>3. QED
  BY <1>1, <1>2

\* Asking for a redirect, or failing to, moves a setup.
LEMMA ProcessFacts ==
    ASSUME NEW s \in RegType, NEW c \in CodesOrNone
    PROVE  /\ Process(s, c) \in RegType
           /\ Driven(Process(s, c))
           /\ Process(s, c).cfg = s.cfg /\ Process(s, c).closing = s.closing
           /\ Process(s, c).timers = s.timers /\ Process(s, c).config = s.config
           /\ Process(s, c).regUrl = s.regUrl \/ Process(s, c).regUrl.code = c
<1> DEFINE r == s.retry /\ s.isError
           b == IF s.isError THEN s.backoff ELSE 1
           t == Entered(s)
           u == [t EXCEPT !.request = NoRequest]
           q == [what |-> "redirect", host |-> s.host, code |-> c]
           v == [t EXCEPT !.regUrl = q, !.request = q]
<1>1. /\ t \in RegType /\ t.fsm = "message"
      /\ Same(s, t) /\ t.config = s.config
  <2>1. r \in BOOLEAN /\ b \in Exponents
    BY Values DEF RegType
  <2>2. t = [s EXCEPT !.fsm = "message", !.critical = FALSE, !.retry = r, !.backoff = b]
    BY DEF Entered, RegType
  <2> HIDE DEF r, b, t
  <2>3. t \in RegType
    BY <2>1, <2>2, Values DEF RegType
  <2>4. QED
    BY <2>2, <2>3 DEF RegType, Same
<1>2. q \in Requests /\ q.code = c
  BY Values DEF Requests, RegType
<1> HIDE DEF t
<1>3. /\ u \in RegType /\ u.fsm = "message"
      /\ Same(t, u) /\ u.config = t.config
  <2>1. u \in RegType
    BY <1>1, Values DEF RegType
  <2>2. QED
    BY <1>1, <2>1 DEF RegType, Same
<1>4. ASSUME c # NoCode
      PROVE  /\ v \in RegType /\ Driven(v)
             /\ v.cfg = t.cfg /\ v.closing = t.closing /\ v.timers = t.timers
             /\ v.config = t.config /\ v.regUrl.code = c
  <2>1. q # NoRequest
    BY <1>4 DEF NoRequest
  <2> HIDE DEF q
  <2>2. v \in RegType
    BY <1>1, <1>2 DEF RegType
  <2>3. QED
    BY <1>1, <1>2, <2>1, <2>2 DEF RegType, Driven
<1>5. Process(s, c) \in {Raise(t, TRUE), Raise(u, FALSE)} \/ (c # NoCode /\ Process(s, c) = v)
  BY DEF Process, t
<1> HIDE DEF u, v, q
<1>6. CASE Process(s, c) = Raise(t, TRUE)
  <2>1. /\ Raise(t, TRUE) \in RegType /\ Driven(Raise(t, TRUE))
        /\ Same(t, Raise(t, TRUE)) /\ Raise(t, TRUE).config = t.config
    BY <1>1, RaiseFacts, Zenon DEF Waiting
  <2>2. QED
    BY <1>1, <1>6, <2>1 DEF Same
<1>7. CASE Process(s, c) = Raise(u, FALSE)
  <2>1. /\ Raise(u, FALSE) \in RegType /\ Driven(Raise(u, FALSE))
        /\ Same(u, Raise(u, FALSE)) /\ Raise(u, FALSE).config = u.config
    BY <1>3, RaiseFacts, Zenon DEF Waiting
  <2>2. QED
    BY <1>1, <1>3, <1>7, <2>1 DEF Same
<1>8. CASE c # NoCode /\ Process(s, c) = v
  BY <1>1, <1>4, <1>8 DEF Same
<1>9. QED
  BY <1>5, <1>6, <1>7, <1>8

\* Decoding a provisioning changes what is configured and where to close the
\* session, no more.
LEMMA DecodeFacts ==
    ASSUME NEW s \in RegType, NEW c \in CodesOrNone, NEW named \in BOOLEAN
    PROVE  /\ Decode(s, c, named) \in RegType
           /\ Same(s, Decode(s, c, named))
           /\ Decode(s, c, named).config = c
           /\ Decode(s, c, named).fsm = s.fsm /\ Decode(s, c, named).retry = s.retry
           /\ Decode(s, c, named).critical = s.critical
           /\ Decode(s, c, named).request = s.request
<1> DEFINE h == IF named THEN "switchboard" ELSE "none"
           a == s.closeAuth \/ s.valid
<1>1. h \in Hosts /\ a \in BOOLEAN
  BY Values DEF RegType
<1>2. Decode(s, c, named) = [s EXCEPT !.config = c, !.host = h, !.closeAuth = a]
  BY DEF Decode, RegType
<1> HIDE DEF h, a
<1>3. Decode(s, c, named) \in RegType
  BY <1>1, <1>2 DEF RegType
<1>4. QED
  BY <1>2, <1>3 DEF RegType, Same

\* The end of a setup moves the state machine only out of its message state.
LEMMA ProcessedFacts ==
    ASSUME NEW s \in RegType
    PROVE  /\ Processed(s) \in RegType
           /\ Same(s, Processed(s)) /\ Processed(s).config = s.config
           /\ Processed(s).retry = s.retry
           /\ s.fsm # "message" => Processed(s).fsm = s.fsm
<1>1. CASE s.fsm # "message"
  BY <1>1 DEF Processed, Same
<1>2. CASE s.fsm = "message"
  <2>1. Processed(s) = [s EXCEPT !.fsm = "final", !.isError = FALSE]
    BY <1>2 DEF Processed
  <2>2. Processed(s) \in RegType
    BY <2>1, Values DEF RegType
  <2>3. QED
    BY <1>2, <2>1, <2>2 DEF RegType, Same
<1>3. QED
  BY <1>1, <1>2

\* What matches and agrees depends on a few fields only.
LEMMA SameFits ==
    ASSUME NEW s, NEW t \in RegType, NEW x, NEW d, Fits(s, x, d), Same(s, t),
           x \in {"idle", "closing"} => t.fsm = "off" /\ ~t.retry,
           s.timers.config > 0 /\ x \in {"setup", "online"} => t.config = s.config
    PROVE  Fits(t, x, d)
BY DEF Fits, Same, Matches, Agrees

\* The setup completes with the configuration of the device's code, which is
\* what goes into OpenVPN's file.
LEMMA CompletesFacts ==
    ASSUME NEW s, NEW d, Fits(s, session, d), Completes(s, d),
           session \in {"setup", "online"} =>
              s.config = d.code /\ s.config # NoCode /\ d.ca \in {d.code, NoCode}
    PROVE  /\ Fits(reg', session', disk')
           /\ session' # "setup"
           /\ disk'.code = d.code /\ disk'.prov = d.prov
           /\ reg'.timers = s.timers
<1> DEFINE t == Processed(s)
           e == [d EXCEPT !.vpn = s.config]
           x == IF session = "setup" THEN "online" ELSE session
<1>1. reg' = t /\ disk' = e /\ session' = x
  BY DEF Completes
<1>2. /\ t \in RegType /\ Same(s, t) /\ t.config = s.config /\ t.retry = s.retry
      /\ s.fsm # "message" => t.fsm = s.fsm
  BY ProcessedFacts DEF Fits
<1>3. /\ e \in DiskType /\ e.vpn = s.config
      /\ e.code = d.code /\ e.prov = d.prov /\ e.ca = d.ca
  <2>1. s.config \in CodesOrNone
    BY DEF Fits, RegType
  <2>2. QED
    BY <2>1 DEF Fits, DiskType
<1>4. x \in Sessions /\ x # "setup" /\ (x = "online" => session \in {"setup", "online"})
      /\ (session \notin {"setup", "online"} => x = session)
  BY DEF Fits, Sessions
<1> HIDE DEF t, e, x
<1>5. Matches(t, x)
  <2>1. Matches(s, session) /\ session \in Sessions
    BY DEF Fits
  <2>2. t.closing => x = "closing"
    BY <1>2, <1>4, <2>1 DEF Same, Matches
  <2>3. x \in {"idle", "closing"} => t.fsm = "off" /\ ~t.retry /\ t.regUrl = NoRequest
    BY <1>2, <1>4, <2>1 DEF Same, Matches, Sessions, x
  <2>4. x \in {"setup", "online"} => t.cfg
    BY <1>2, <1>4, <2>1 DEF Same, Matches
  <2>5. QED
    BY <2>2, <2>3, <2>4 DEF Matches
<1>6. Agrees(t, x, e)
  BY <1>2, <1>3, <1>4 DEF Fits, Agrees, Same
<1>7. QED
  BY <1>1, <1>2, <1>3, <1>4, <1>5, <1>6 DEF Fits, Same

-----------------------------------------------------------------------------
(* The answers.  s is the module without the request that is answered. *)

\* What holds of the module when a request has ended.
Ended(s) ==
    /\ Fits(s, session, disk)
    /\ session = "setup" => Waiting(s)
    /\ s.timers = reg.timers

\* An error in state s, which may have changed the saved files.
LEMMA RaiseStep ==
    ASSUME NEW s, NEW c \in BOOLEAN, Fits(s, session, disk'),
           session = "setup" => Waiting(s), s.timers = reg.timers,
           disk'.code = disk.code,
           disk'.prov \in {disk.prov, NoProvisioning} \/ disk'.prov.code = disk'.code,
           reg' = Raise(s, c), session' = session
    PROVE  Kept
<1> DEFINE t == Raise(s, c)
<1>1. s \in RegType
  BY DEF Fits
<1>2. /\ t \in RegType /\ Same(s, t) /\ t.config = s.config
      /\ Waiting(s) => Driven(t)
      /\ s.fsm # "message" => t = s
  BY <1>1, RaiseFacts
<1> HIDE DEF t
<1>3. session \in {"idle", "closing"} => t = s /\ t.fsm = "off" /\ ~t.retry
  BY <1>2 DEF Fits, Matches
<1>4. Fits(t, session, disk')
  BY <1>2, <1>3, SameFits
<1>5. reg' = t /\ t.timers = reg.timers
  BY <1>2 DEF t, Same
<1>6. QED
  BY <1>2, <1>4, <1>5 DEF Kept

\* An answer that changes nothing, to a module that is not in use.
LEMMA IgnoredStep ==
    ASSUME NEW s, Ended(s), ~s.cfg, reg' = s, session' = session, disk' = disk
    PROVE  Kept
BY DEF Ended, Fits, Matches, Kept

LEMMA OtherErrorStep ==
    ASSUME NEW s, Ended(s), OtherError(s)
    PROVE  Kept
<1>1. session' = session /\ disk' = disk
  BY DEF OtherError
<1>2. CASE ~s.cfg
  BY <1>1, <1>2, IgnoredStep DEF OtherError
<1>3. CASE s.cfg
  <2>1. reg' = Raise(s, FALSE)
    BY <1>3 DEF OtherError
  <2>2. FALSE \in BOOLEAN
    OBVIOUS
  <2>3. QED
    BY <1>1, <2>1, <2>2, RaiseStep DEF Ended
<1>4. QED
  BY <1>2, <1>3

LEMMA NotFoundStep ==
    ASSUME NEW s, NEW written, NEW torn, Ended(s), NotFound(s, written, torn)
    PROVE  Kept
<1>1. /\ s \in RegType /\ disk \in DiskType
      /\ Fits(s, session, disk) /\ s.timers = reg.timers
  BY DEF Ended, Fits
<1>2. CASE ~s.cfg
  BY <1>2, IgnoredStep DEF NotFound
<1>3. CASE reg' = Raise(s, TRUE) /\ disk' = disk /\ session' = session
  <2>1. TRUE \in BOOLEAN
    OBVIOUS
  <2>2. QED
    BY <1>3, <2>1, RaiseStep DEF Ended
<1>4. CASE s.cfg /\ disk.prov.code # NoCode /\ disk.prov.code = disk.code
  <2> DEFINE t == Decode(s, disk.prov.code, disk.prov.named)
             d == [disk EXCEPT !.ca = t.config]
             e == [disk EXCEPT !.ca = IF torn THEN NoCode ELSE @]
  <2>1. disk.prov.code \in CodesOrNone /\ disk.prov.named \in BOOLEAN
    BY <1>1 DEF DiskType
  <2>2. /\ t \in RegType /\ Same(s, t) /\ t.config = disk.code
        /\ t.fsm = s.fsm /\ t.retry = s.retry /\ t.critical = s.critical
    BY <1>1, <1>4, <2>1, DecodeFacts
  <2>3. \/ Completes(t, d)
        \/ reg' = Raise(t, FALSE) /\ disk' = e /\ session' = session
    BY <1>4 DEF NotFound
  <2> HIDE DEF t
  <2>4. Fits(t, session, disk)
    <3>1. session \in {"idle", "closing"} => t.fsm = "off" /\ ~t.retry
      BY <1>1, <2>2 DEF Fits, Matches
    <3>2. s.timers.config > 0 /\ session \in {"setup", "online"} => t.config = s.config
      BY <1>1, <2>2 DEF Fits, Agrees
    <3>3. QED
      BY <1>1, <2>2, <3>1, <3>2, SameFits
  <2>5. ASSUME NEW f, f \in {d, e}
        PROVE  f.code = disk.code /\ f.prov = disk.prov /\ Fits(t, session, f)
    <3>1. PICK k \in CodesOrNone : k \in {disk.code, disk.ca, NoCode} /\ f = [disk EXCEPT !.ca = k]
      BY <1>1, <2>2, <2>5, Values DEF DiskType
    <3>2. f \in DiskType
      BY <1>1, <3>1 DEF DiskType
    <3>3. /\ f.code = disk.code /\ f.prov = disk.prov /\ f.vpn = disk.vpn
          /\ f.ca \in {disk.code, disk.ca, NoCode}
      BY <1>1, <3>1 DEF DiskType
    <3>4. Agrees(t, session, f)
      BY <2>4, <3>3 DEF Fits, Agrees
    <3>5. QED
      BY <2>4, <3>2, <3>3, <3>4 DEF Fits
  <2>6. CASE Completes(t, d)
    <3>1. /\ d.code = disk.code /\ d.prov = disk.prov
          /\ Fits(t, session, d)
      BY <2>5
    <3>2. d.ca = disk.code
      BY <1>1, <2>2 DEF DiskType
    <3> HIDE DEF d
    <3>3. /\ Fits(reg', session', disk') /\ session' # "setup"
          /\ disk'.code = d.code /\ disk'.prov = d.prov /\ reg'.timers = t.timers
      BY <1>4, <2>2, <2>6, <3>1, <3>2, CompletesFacts
    <3>4. QED
      BY <1>4, <3>1, <3>3 DEF Kept
  <2>7. CASE reg' = Raise(t, FALSE) /\ disk' = e /\ session' = session
    <3>1. e.code = disk.code /\ e.prov = disk.prov /\ Fits(t, session, e)
      BY <2>5
    <3>2. session = "setup" => Waiting(t)
      BY <2>2 DEF Ended, Waiting
    <3>3. t.timers = reg.timers
      BY <1>1, <2>2 DEF Same
    <3> HIDE DEF e
    <3>4. FALSE \in BOOLEAN
      OBVIOUS
    <3>5. QED
      BY <2>7, <3>1, <3>2, <3>3, <3>4, RaiseStep
  <2>8. QED
    BY <2>3, <2>6, <2>7
<1>5. QED
  BY <1>2, <1>3, <1>4 DEF NotFound

LEMMA GotRedirectStep ==
    ASSUME NEW s, NEW q \in Requests, Ended(s), GotRedirect(q, s)
    PROVE  Kept
<1>1. /\ s \in RegType /\ Fits(s, session, disk) /\ s.timers = reg.timers
      /\ session' = session /\ disk' = disk
  BY DEF Ended, Fits, GotRedirect
<1>2. CASE reg' = Raise(s, FALSE)
  <2>1. FALSE \in BOOLEAN
    OBVIOUS
  <2>2. QED
    BY <1>1, <1>2, <2>1, RaiseStep DEF Ended
<1>3. CASE reg' = [s EXCEPT !.redirectUrl = q.code, !.timers.redirect = @ + 1]
  <2> DEFINE m == [s.timers EXCEPT !["redirect"] = @ + 1]
             t == [s EXCEPT !.redirectUrl = q.code, !.timers = m]
  <2>1. s.timers \in [Resources -> 0 .. MaxTimers]
    BY <1>1 DEF RegType
  <2>2. s.timers["redirect"] + 1 \in 0 .. MaxTimers
    <3>1. s.timers["redirect"] \in 0 .. MaxTimers /\ s.timers["redirect"] < MaxTimers
      BY <2>1, Values DEF GotRedirect
    <3>2. QED
      BY <3>1, RegistrationAssumption
  <2>3. m = [s.timers EXCEPT !["redirect"] = s.timers["redirect"] + 1]
    OBVIOUS
  <2>4. /\ m \in [Resources -> 0 .. MaxTimers]
        /\ m["redirect"] = s.timers["redirect"] + 1 /\ m["config"] = s.timers["config"]
    BY <2>1, <2>2, <2>3, TimerFacts, Values
  <2>5. reg' = t
    BY <1>1, <1>3 DEF RegType
  <2>6. ~NoTimers(t)
    BY <1>1, <2>1, <2>4, Values DEF NoTimers, RegType
  <2> HIDE DEF m
  <2>7. t \in RegType
    BY <1>1, <2>4 DEF RegType, Requests
  <2>8. /\ t.fsm = s.fsm /\ t.retry = s.retry /\ t.critical = s.critical
        /\ t.cfg = s.cfg /\ t.closing = s.closing /\ t.regUrl = s.regUrl
        /\ t.config = s.config /\ t.timers = m
    BY <1>1 DEF RegType
  <2> HIDE DEF t
  <2>9. t.timers.config = s.timers.config
    BY <2>4, <2>8
  <2>10. Fits(t, session, disk)
    BY <1>1, <2>7, <2>8, <2>9 DEF Fits, Matches, Agrees
  <2>11. session = "setup" => Driven(t)
    BY <2>6, <2>8 DEF Ended, Waiting, Driven
  <2>12. QED
    BY <1>1, <2>5, <2>9, <2>10, <2>11 DEF Kept
<1>4. QED
  BY <1>2, <1>3 DEF GotRedirect

LEMMA GotConfigStep ==
    ASSUME NEW s, NEW q \in Requests, NEW written, NEW torn, Ended(s),
           GotConfig(q, s, written, torn)
    PROVE  Kept
<1> DEFINE named == s.redirectUrl # NoCode
           t == Decode(s, q.code, named)
           saved == [code |-> q.code, named |-> named]
           prov == IF torn THEN NoProvisioning ELSE disk.prov
           ca == IF torn THEN NoCode ELSE disk.ca
           m == [s.timers EXCEPT !["config"] = @ + 1]
           u == [t EXCEPT !.timers = m]
<1>1. /\ s \in RegType /\ disk \in DiskType
      /\ Fits(s, session, disk) /\ s.timers = reg.timers
      /\ session' = session /\ q.code # NoCode /\ q.code \in CodesOrNone
  BY DEF Ended, Fits, GotConfig, Found, Requests
<1>2. /\ t \in RegType /\ Same(s, t) /\ t.config = q.code
      /\ t.fsm = s.fsm /\ t.retry = s.retry /\ t.critical = s.critical
  BY <1>1, DecodeFacts
<1>3. /\ saved \in [code : CodesOrNone, named : BOOLEAN] /\ saved.code = q.code
      /\ NoProvisioning \in [code : CodesOrNone, named : BOOLEAN]
      /\ disk.prov \in [code : CodesOrNone, named : BOOLEAN]
      /\ prov \in {disk.prov, NoProvisioning} /\ ca \in {disk.ca, NoCode}
  BY <1>1, Values DEF DiskType, NoProvisioning
<1>4. \/ q.code # disk.code /\ reg' = Raise(s, FALSE) /\ disk' = disk
      \/ /\ q.code = disk.code
         /\ \/ reg' = Raise(t, FALSE) /\ disk' = disk
            \/ reg' = Raise(t, FALSE) /\ disk' = [disk EXCEPT !.prov = saved, !.ca = ca]
            \/ reg' = Raise(t, FALSE) /\ disk' = [disk EXCEPT !.prov = prov]
            \/ /\ s.cfg /\ reg' = [t EXCEPT !.timers.config = @ + 1]
               /\ disk' = [disk EXCEPT !.prov = saved, !.ca = q.code]
  BY DEF GotConfig
<1> HIDE DEF t, saved, prov, ca
<1>5. session = "setup" => Waiting(t)
  BY <1>2 DEF Ended, Waiting
<1>6. ASSUME q.code = disk.code, NEW p \in {disk.prov, saved, NoProvisioning},
             NEW k \in {disk.ca, NoCode, q.code},
             disk' = [disk EXCEPT !.prov = p, !.ca = k]
      PROVE  /\ disk'.code = disk.code /\ disk'.prov = p /\ disk' \in DiskType
             /\ Fits(t, session, disk')
             /\ disk'.ca \in {disk.ca, NoCode, disk.code}
  <2>1. disk' \in DiskType
    BY <1>1, <1>3, <1>6, Values DEF DiskType
  <2>2. /\ disk'.code = disk.code /\ disk'.prov = p /\ disk'.ca = k
        /\ disk'.vpn = disk.vpn
    BY <1>1, <1>6 DEF DiskType
  <2>3. session \in {"idle", "closing"} => t.fsm = "off" /\ ~t.retry
    BY <1>1, <1>2 DEF Fits, Matches
  <2>4. s.timers.config > 0 /\ session \in {"setup", "online"} => t.config = s.config
    BY <1>1, <1>2, <1>6 DEF Fits, Agrees
  <2>5. Fits(t, session, disk)
    BY <1>1, <1>2, <2>3, <2>4, SameFits
  <2>6. Agrees(t, session, disk')
    BY <1>6, <2>2, <2>5 DEF Fits, Agrees
  <2>7. QED
    BY <1>6, <2>1, <2>2, <2>5, <2>6 DEF Fits
<1>7. CASE q.code # disk.code /\ reg' = Raise(s, FALSE) /\ disk' = disk
  <2>1. FALSE \in BOOLEAN
    OBVIOUS
  <2>2. QED
    BY <1>1, <1>7, <2>1, RaiseStep DEF Ended
<1>8. CASE /\ q.code = disk.code /\ reg' = Raise(t, FALSE)
           /\ \/ disk' = disk
              \/ disk' = [disk EXCEPT !.prov = saved, !.ca = ca]
              \/ disk' = [disk EXCEPT !.prov = prov]
  <2>1. PICK p \in {disk.prov, saved, NoProvisioning}, k \in {disk.ca, NoCode, q.code} :
           disk' = [disk EXCEPT !.prov = p, !.ca = k]
    <3>1. disk = [disk EXCEPT !.prov = disk.prov, !.ca = disk.ca]
      BY <1>1 DEF DiskType
    <3>2. [disk EXCEPT !.prov = prov] = [disk EXCEPT !.prov = prov, !.ca = disk.ca]
      BY <1>1 DEF DiskType
    <3>3. CASE disk' = disk
      BY <3>1, <3>3
    <3>4. CASE disk' = [disk EXCEPT !.prov = saved, !.ca = ca]
      BY <1>3, <3>4
    <3>5. CASE disk' = [disk EXCEPT !.prov = prov]
      BY <1>3, <3>2, <3>5
    <3>6. QED
      BY <1>8, <3>3, <3>4, <3>5
  <2>2. disk'.code = disk.code /\ disk'.prov = p /\ Fits(t, session, disk')
    BY <1>6, <1>8, <2>1
  <2>3. disk'.prov \in {disk.prov, NoProvisioning} \/ disk'.prov.code = disk'.code
    BY <1>3, <1>8, <2>2
  <2>4. t.timers = reg.timers
    BY <1>1, <1>2 DEF Same
  <2>5. FALSE \in BOOLEAN
    OBVIOUS
  <2>6. QED
    BY <1>1, <1>5, <1>8, <2>2, <2>3, <2>4, <2>5, RaiseStep
<1>9. CASE /\ q.code = disk.code /\ s.cfg /\ reg' = [t EXCEPT !.timers.config = @ + 1]
           /\ disk' = [disk EXCEPT !.prov = saved, !.ca = q.code]
  <2>1. /\ disk'.code = disk.code /\ disk'.prov = saved /\ disk' \in DiskType
        /\ Fits(t, session, disk')
    BY <1>6, <1>9
  <2>2. disk'.ca = disk.code
    BY <1>1, <1>9 DEF DiskType
  <2>3. s.timers \in [Resources -> 0 .. MaxTimers]
    BY <1>1 DEF RegType
  <2>4. s.timers["config"] \in 0 .. MaxTimers /\ s.timers["config"] + 1 \in 0 .. MaxTimers
    <3>1. s.timers["config"] \in 0 .. MaxTimers /\ s.timers["config"] < MaxTimers
      BY <2>3, Values DEF GotConfig
    <3>2. QED
      BY <3>1, RegistrationAssumption
  <2>5. m = [s.timers EXCEPT !["config"] = s.timers["config"] + 1]
    OBVIOUS
  <2>6. /\ m \in [Resources -> 0 .. MaxTimers]
        /\ m["config"] = s.timers["config"] + 1
    BY <2>3, <2>4, <2>5, TimerFacts, Values
  <2>7. reg' = u
    BY <1>2, <1>9 DEF Same, RegType
  <2> HIDE DEF m
  <2>8. u \in RegType
    BY <1>2, <2>6 DEF RegType
  <2>9. /\ u.fsm = t.fsm /\ u.retry = t.retry /\ u.critical = t.critical
        /\ u.cfg = t.cfg /\ u.closing = t.closing /\ u.regUrl = t.regUrl
        /\ u.config = t.config /\ u.timers = m
    BY <1>2 DEF RegType
  <2> HIDE DEF u
  <2>10. ~NoTimers(u)
    BY <2>4, <2>6, <2>9, Values DEF NoTimers
  <2>11. Agrees(u, session, disk')
    BY <1>1, <1>2, <1>9, <2>1, <2>2, <2>9 DEF Fits, Agrees
  <2>12. Fits(u, session, disk')
    BY <2>1, <2>8, <2>9, <2>11 DEF Fits, Matches
  <2>13. session = "setup" => Driven(u)
    BY <1>5, <2>9, <2>10 DEF Waiting, Driven
  <2>14. disk'.prov.code = disk'.code
    BY <1>3, <1>9, <2>1
  <2>15. QED
    BY <1>1, <2>7, <2>12, <2>13, <2>14 DEF Kept
<1>10. QED
  BY <1>4, <1>7, <1>8, <1>9

LEMMA AnswerStep ==
    ASSUME NEW s, NEW q \in Requests, Ended(s), Answer(q, s)
    PROVE  Kept
BY GotRedirectStep, GotConfigStep, NotFoundStep, OtherErrorStep DEF Answer

-----------------------------------------------------------------------------
(* The steps. *)

\* The invariant, in the terms of the lemmas.
LEMMA FitsIsInv ==
    /\ IInv <=> /\ Fits(reg, session, disk) /\ WorldOK /\ spoilt \in BOOLEAN
                /\ Saved /\ (session = "setup" => Driven(reg))
    /\ IInv' <=> /\ Fits(reg', session', disk') /\ WorldOK' /\ spoilt' \in BOOLEAN
                 /\ Saved' /\ (session' = "setup" => Driven(reg'))
<1>1. TypeOK <=> /\ reg \in RegType /\ session \in Sessions /\ disk \in DiskType
                 /\ WorldOK /\ spoilt \in BOOLEAN
  BY DEF TypeOK, RegType, DiskType, WorldOK
<1>2. TypeOK' <=> /\ reg' \in RegType /\ session' \in Sessions /\ disk' \in DiskType
                  /\ WorldOK' /\ spoilt' \in BOOLEAN
  BY DEF TypeOK, RegType, DiskType, WorldOK
<1>3. Matches(reg, session) =>
        (SetupIsDriven <=> (session = "setup" => Driven(reg)))
  BY DEF Matches, SetupIsDriven, Driven
<1>4. Matches(reg', session') =>
        (SetupIsDriven' <=> (session' = "setup" => Driven(reg')))
  BY DEF Matches, SetupIsDriven, Driven, NoTimers
<1>5. /\ IInv <=> /\ TypeOK /\ Matches(reg, session) /\ Agrees(reg, session, disk)
                  /\ Saved /\ SetupIsDriven
      /\ IInv' <=> /\ TypeOK' /\ Matches(reg', session') /\ Agrees(reg', session', disk')
                   /\ Saved' /\ SetupIsDriven'
  BY DEF IInv, Matches, Agrees
<1>6. QED
  BY <1>1, <1>2, <1>3, <1>4, <1>5 DEF Fits

LEMMA LoginStep ==
    ASSUME IInv, Login
    PROVE  Kept
<1>1. Fits(reg, session, disk) /\ (session = "setup" => Driven(reg))
  BY FitsIsInv
<1>2. /\ reg' = [reg EXCEPT !.host = "registry", !.valid = TRUE, !.closeAuth = TRUE]
      /\ session' = session /\ disk' = disk
  BY DEF Login
<1>3. reg' \in RegType
  BY <1>1, <1>2, Values DEF Fits, RegType
<1>4. /\ Same(reg, reg') /\ reg'.config = reg.config /\ reg'.request = reg.request
      /\ reg'.fsm = reg.fsm /\ reg'.retry = reg.retry /\ reg'.critical = reg.critical
  BY <1>1, <1>2 DEF Fits, RegType, Same
<1>5. Fits(reg', session, disk)
  BY <1>1, <1>3, <1>4 DEF Fits, Same, Matches, Agrees
<1>6. QED
  BY <1>1, <1>2, <1>4, <1>5 DEF Kept, Same, Driven, NoTimers

LEMMA SetCodeStep ==
    ASSUME IInv, NEW c \in Codes, SetCode(c)
    PROVE  Kept
<1>1. Fits(reg, session, disk) /\ session = "idle"
  BY FitsIsInv DEF SetCode
<1>2. reg' = reg /\ session' = session /\ disk' = [disk EXCEPT !.code = c]
  BY DEF SetCode
<1>3. disk' \in DiskType
  BY <1>1, <1>2, Values DEF Fits, DiskType
<1>4. reg.timers["config"] = 0
  BY Values DEF SetCode, NoTimers
<1>5. QED
  BY <1>1, <1>2, <1>3, <1>4 DEF Kept, Fits, Matches, Agrees

LEMMA StartStep ==
    ASSUME IInv, Start
    PROVE  Kept
<1> DEFINE s == [reg EXCEPT !.isError = FALSE, !.cfg = TRUE, !.qnam = TRUE]
<1>1. Fits(reg, session, disk) /\ session = "idle"
  BY FitsIsInv DEF Start
<1>2. reg' = Process(s, disk.code) /\ session' = "setup" /\ disk' = disk
  BY DEF Start
<1>3. s \in RegType
  BY <1>1 DEF Fits, RegType
<1>4. s.cfg /\ s.closing = reg.closing /\ s.timers = reg.timers /\ s.regUrl = reg.regUrl
  BY <1>1 DEF Fits, RegType
<1>5. disk.code \in CodesOrNone
  BY <1>1 DEF Fits, DiskType
<1> HIDE DEF s
<1>6. /\ reg' \in RegType /\ Driven(reg')
      /\ reg'.cfg = s.cfg /\ reg'.closing = s.closing /\ reg'.timers = s.timers
      /\ reg'.regUrl = s.regUrl \/ reg'.regUrl.code = disk.code
  BY <1>2, <1>3, <1>5, ProcessFacts
<1>7. reg.timers["config"] = 0
  BY Values DEF Start, NoTimers
<1>8. reg.regUrl = NoRequest /\ ~reg.closing
  BY <1>1 DEF Fits, Matches
<1>9. QED
  BY <1>1, <1>2, <1>4, <1>6, <1>7, <1>8 DEF Kept, Fits, Matches, Agrees, Sessions

LEMMA RetryStep ==
    ASSUME IInv, RetryTimeout
    PROVE  Kept
<1> DEFINE s == [reg EXCEPT !.retry = FALSE]
<1>1. /\ Fits(reg, session, disk) /\ (session = "setup" => Driven(reg))
      /\ session' = session /\ disk' = disk /\ reg.retry
  BY FitsIsInv DEF RetryTimeout
<1>2. s \in RegType
  BY <1>1 DEF Fits, RegType
<1>3. /\ Same(reg, s) /\ s.config = reg.config /\ s.request = reg.request
      /\ s.fsm = reg.fsm /\ s.critical = reg.critical
  BY <1>1 DEF Fits, RegType, Same
<1>4. session \in {"setup", "online"} /\ disk.code \in CodesOrNone
  BY <1>1 DEF Fits, Matches, Sessions, DiskType
<1>5. \/ reg.fsm = "error" /\ reg' = Process(s, disk.code)
      \/ reg.fsm # "error" /\ reg' = s
  BY <1>3 DEF RetryTimeout
<1> HIDE DEF s
<1>6. CASE reg.fsm = "error" /\ reg' = Process(s, disk.code)
  <2>1. /\ reg' \in RegType /\ Driven(reg')
        /\ reg'.cfg = s.cfg /\ reg'.closing = s.closing /\ reg'.timers = s.timers
        /\ reg'.config = s.config
        /\ reg'.regUrl = s.regUrl \/ reg'.regUrl.code = disk.code
    BY <1>2, <1>4, <1>6, ProcessFacts
  <2>2. Matches(reg', session)
    BY <1>1, <1>3, <1>4, <2>1 DEF Fits, Same, Matches
  <2>3. Agrees(reg', session, disk)
    BY <1>1, <1>3, <2>1 DEF Fits, Same, Agrees
  <2>4. QED
    BY <1>1, <1>3, <2>1, <2>2, <2>3 DEF Kept, Fits, Same
<1>7. CASE reg.fsm # "error" /\ reg' = s
  BY <1>1, <1>2, <1>3, <1>4, <1>7 DEF Kept, Fits, Same, Matches, Agrees, Driven, NoTimers
<1>8. QED
  BY <1>5, <1>6, <1>7

LEMMA UserStopStep ==
    ASSUME IInv, NEW close \in BOOLEAN, NEW sent \in BOOLEAN, UserStop(close, sent)
    PROVE  Kept
<1> DEFINE t == Halt(reg)
           b == t.closing \/ (CanClose(reg) /\ sent)
           u == [t EXCEPT !.closing = b]
<1>1. Fits(reg, session, disk) /\ session # "closing"
  BY FitsIsInv DEF UserStop
<1>2. /\ t \in RegType /\ t.fsm = "off" /\ ~t.retry
      /\ t.regUrl = NoRequest /\ t.timers = reg.timers /\ t.closing = reg.closing
  BY <1>1, HaltFacts DEF Fits
<1>3. disk' = [disk EXCEPT !.ca = NoCode, !.vpn = NoCode]
  BY DEF UserStop
<1>4. disk' \in DiskType /\ disk'.code = disk.code /\ disk'.prov = disk.prov
  <2>1. disk' \in DiskType
    BY <1>1, <1>3, Values DEF Fits, DiskType
  <2>2. QED
    BY <1>1, <1>3, <2>1 DEF Fits, DiskType
<1>5. CASE close
  <2>1. reg' = u /\ session' = "closing"
    BY <1>5 DEF UserStop
  <2>2. b \in BOOLEAN
    BY <1>2 DEF RegType
  <2> HIDE DEF t, b
  <2>3. u \in RegType
    BY <1>2, <2>2 DEF RegType
  <2>4. /\ u.fsm = "off" /\ ~u.retry /\ u.regUrl = NoRequest /\ u.timers = reg.timers
    BY <1>2 DEF RegType
  <2> HIDE DEF u
  <2>5. QED
    BY <1>4, <2>1, <2>3, <2>4 DEF Kept, Fits, Matches, Agrees, Sessions
<1>6. CASE ~close
  <2>1. reg' = t /\ session' = "idle"
    BY <1>6 DEF UserStop
  <2>2. ~t.closing
    BY <1>1, <1>2 DEF Fits, Matches
  <2> HIDE DEF t
  <2>3. QED
    BY <1>2, <1>4, <2>1, <2>2 DEF Kept, Fits, Matches, Agrees, Sessions
<1>7. QED
  BY <1>5, <1>6

LEMMA CloseReplyStep ==
    ASSUME IInv, CloseReply
    PROVE  Kept
<1>1. Fits(reg, session, disk) /\ session = "closing"
  BY FitsIsInv DEF CloseReply, Fits, Matches
<1>2. /\ reg' = [reg EXCEPT !.closing = FALSE, !.host = "none", !.valid = FALSE,
                            !.closeAuth = FALSE]
      /\ session' = "idle" /\ disk' = disk
  BY DEF CloseReply
<1>3. reg' \in RegType
  BY <1>1, <1>2, Values DEF Fits, RegType
<1>4. /\ ~reg'.closing /\ reg'.regUrl = reg.regUrl /\ reg'.timers = reg.timers
      /\ reg'.fsm = reg.fsm /\ reg'.retry = reg.retry
  BY <1>1, <1>2 DEF Fits, RegType
<1>5. QED
  BY <1>1, <1>2, <1>3, <1>4 DEF Kept, Fits, Matches, Agrees, Sessions

\* A state without its request is one that an answer may meet.
LEMMA EndedReply ==
    ASSUME IInv, NEW s, NEW o \in SUBSET Requests,
           \/ s = [reg EXCEPT !.request = NoRequest]
           \/ s = [reg EXCEPT !.orphans = o]
    PROVE  Ended(s)
<1>1. Fits(reg, session, disk) /\ (session = "setup" => Driven(reg))
  BY FitsIsInv
<1>2. s \in RegType
  BY <1>1, Values DEF Fits, RegType
<1>3. /\ Same(reg, s) /\ s.config = reg.config
      /\ s.fsm = reg.fsm /\ s.retry = reg.retry /\ s.critical = reg.critical
  BY <1>1 DEF Fits, RegType, Same
<1>4. Fits(s, session, disk)
  BY <1>1, <1>2, <1>3, SameFits DEF Fits, Matches
<1>5. QED
  BY <1>1, <1>3, <1>4 DEF Ended, Same, Driven, Waiting

LEMMA OwnReplyStep ==
    ASSUME IInv, OwnReply
    PROVE  Kept
<1> DEFINE s == [reg EXCEPT !.request = NoRequest]
<1>1. Ended(s)
  BY EndedReply
<1>2. reg.request \in Requests
  BY FitsIsInv DEF Fits, RegType
<1>3. Answer(reg.request, s)
  BY DEF OwnReply
<1> HIDE DEF s
<1>4. QED
  BY <1>1, <1>2, <1>3, AnswerStep

LEMMA LateReplyStep ==
    ASSUME IInv, LateReply
    PROVE  Kept
<1>1. PICK q \in reg.orphans : Answer(q, [reg EXCEPT !.orphans = @ \ {q}])
  BY DEF LateReply
<1> DEFINE o == reg.orphans \ {q}
           s == [reg EXCEPT !.orphans = o]
<1>2. reg.orphans \in SUBSET Requests
  BY FitsIsInv DEF Fits, RegType
<1>3. q \in Requests /\ o \in SUBSET Requests
  BY <1>2
<1>4. Answer(q, s)
  BY <1>1
<1> HIDE DEF o
<1>5. Ended(s)
  BY <1>3, EndedReply
<1> HIDE DEF s
<1>6. QED
  BY <1>3, <1>4, <1>5, AnswerStep

\* A timer less.
LEMMA TimerFires ==
    ASSUME NEW w \in Resources, NEW m \in [Resources -> 0 .. MaxTimers], m[w] > 0
    PROVE  /\ [m EXCEPT ![w] = @ - 1] \in [Resources -> 0 .. MaxTimers]
           /\ \A v \in Resources : [m EXCEPT ![w] = @ - 1][v] > 0 => m[v] > 0
<1>1. m[w] \in 0 .. MaxTimers
  OBVIOUS
<1>2. m[w] - 1 \in 0 .. MaxTimers /\ (m[w] - 1 > 0 => m[w] > 0)
  BY <1>1, RegistrationAssumption
<1>3. [m EXCEPT ![w] = @ - 1] = [m EXCEPT ![w] = m[w] - 1]
  OBVIOUS
<1>4. QED
  BY <1>2, <1>3, TimerFacts

LEMMA ProcessRedirectStep ==
    ASSUME IInv, ProcessRedirect
    PROVE  Kept
<1> DEFINE m == [reg.timers EXCEPT !["redirect"] = @ - 1]
           q == [what |-> "config", host |-> "switchboard", code |-> reg.redirectUrl]
<1>1. /\ Fits(reg, session, disk) /\ (session = "setup" => Driven(reg))
      /\ session' = session /\ disk' = disk /\ reg.timers["redirect"] > 0
  BY FitsIsInv DEF ProcessRedirect
<1>2. reg.timers \in [Resources -> 0 .. MaxTimers]
  BY <1>1 DEF Fits, RegType
<1>3. /\ m \in [Resources -> 0 .. MaxTimers]
      /\ m["config"] > 0 => reg.timers["config"] > 0
  BY <1>1, <1>2, TimerFires, Values
<1>4. q \in Requests /\ q # NoRequest
  BY <1>1, Values DEF Fits, RegType, Requests, NoRequest
<1>5. reg' = [reg EXCEPT !.timers = m, !.request = q]
  BY <1>1 DEF ProcessRedirect, Fits, RegType
<1> HIDE DEF m, q
<1>6. reg' \in RegType
  BY <1>1, <1>3, <1>4, <1>5 DEF Fits, RegType
<1>7. /\ reg'.fsm = reg.fsm /\ reg'.retry = reg.retry /\ reg'.critical = reg.critical
      /\ reg'.cfg = reg.cfg /\ reg'.closing = reg.closing /\ reg'.regUrl = reg.regUrl
      /\ reg'.config = reg.config /\ reg'.timers = m /\ reg'.request = q
  BY <1>1, <1>5 DEF Fits, RegType
<1>8. Matches(reg', session) /\ Agrees(reg', session, disk)
  BY <1>1, <1>3, <1>7 DEF Fits, Matches, Agrees
<1>9. session = "setup" => Driven(reg')
  BY <1>1, <1>4, <1>7 DEF Driven
<1>10. QED
  BY <1>1, <1>3, <1>6, <1>7, <1>8, <1>9 DEF Kept, Fits

LEMMA CompleteSetupStep ==
    ASSUME IInv, CompleteSetup
    PROVE  Kept
<1> DEFINE m == [reg.timers EXCEPT !["config"] = @ - 1]
           s == [reg EXCEPT !.timers = m, !.request = NoRequest]
<1>1. Fits(reg, session, disk) /\ reg.timers["config"] > 0
  BY FitsIsInv DEF CompleteSetup
<1>2. reg.timers \in [Resources -> 0 .. MaxTimers]
  BY <1>1 DEF Fits, RegType
<1>3. m \in [Resources -> 0 .. MaxTimers]
  BY <1>1, <1>2, TimerFires, Values
<1>4. Completes(s, disk)
  BY <1>1 DEF CompleteSetup, Fits, RegType
<1> HIDE DEF m
<1>5. s \in RegType
  BY <1>1, <1>3, Values DEF Fits, RegType
<1>6. /\ s.fsm = reg.fsm /\ s.retry = reg.retry
      /\ s.cfg = reg.cfg /\ s.closing = reg.closing /\ s.regUrl = reg.regUrl
      /\ s.config = reg.config
  BY <1>1 DEF Fits, RegType
<1> HIDE DEF s
<1>7. Fits(s, session, disk)
  BY <1>1, <1>5, <1>6 DEF Fits, Matches, Agrees
<1>8. session \in {"setup", "online"} =>
         s.config = disk.code /\ s.config # NoCode /\ disk.ca \in {disk.code, NoCode}
  BY <1>1, <1>6 DEF Fits, Agrees
<1>9. /\ Fits(reg', session', disk') /\ session' # "setup"
      /\ disk'.code = disk.code /\ disk'.prov = disk.prov
  BY <1>4, <1>7, <1>8, CompletesFacts
<1>10. QED
  BY <1>1, <1>9 DEF Kept

LEMMA RebootStep ==
    ASSUME IInv, Reboot
    PROVE  Kept
<1>1. Fits(reg, session, disk)
  BY FitsIsInv
<1>2. reg' = Fresh /\ session' = "idle" /\ disk' = disk
  BY DEF Reboot
<1>3. [w \in Resources |-> 0] \in [Resources -> 0 .. MaxTimers]
  BY RegistrationAssumption
<1>4. Fresh \in RegType /\ Fresh.timers["config"] = 0
  BY <1>3, Values DEF Fresh, RegType
<1>5. ~Fresh.closing /\ Fresh.fsm = "off" /\ ~Fresh.retry /\ Fresh.regUrl = NoRequest
  BY DEF Fresh
<1>6. QED
  BY <1>1, <1>2, <1>4, <1>5 DEF Kept, Fits, Matches, Agrees, Sessions

\* A step that concerns the world only.
LEMMA WorldStep ==
    ASSUME IInv, reg' = reg, session' = session, disk' = disk
    PROVE  Kept
BY FitsIsInv DEF Kept, Fits, Matches, Agrees, Driven, NoTimers

\* Every step keeps what the invariant says of the device.
LEMMA StepKeeps ==
    ASSUME IInv, Step
    PROVE  Kept
<1>1. ASSUME NEW what \in Resources, NEW c \in Codes, Delete(what, c) PROVE Kept
  BY <1>1, WorldStep DEF Delete
<1>2. QED
  BY <1>1, LoginStep, SetCodeStep, StartStep, UserStopStep, CloseReplyStep, RetryStep,
     OwnReplyStep, LateReplyStep, ProcessRedirectStep, CompleteSetupStep, RebootStep
  DEF Step

\* What every answer leaves to the world.
LEMMA AnswerLeavesWorld ==
    ASSUME NEW q, NEW s, Answer(q, s)
    PROVE  UNCHANGED <<server, deletes>>
BY DEF Answer, GotRedirect, GotConfig, NotFound, OtherError

LEMMA WorldKept ==
    ASSUME WorldOK, Step
    PROVE  WorldOK'
<1>1. ASSUME server' = server, deletes' = deletes
      PROVE  WorldOK'
  BY <1>1 DEF WorldOK
<1>2. ASSUME CompleteSetup
      PROVE  WorldOK'
  <2>1. /\ server' = server
        /\ \A d \in deletes' \ deletes : \E w \in Resources, c \in Codes : d = <<w, c>>
    BY <1>2 DEF CompleteSetup, Resources
  <2>2. \A w \in Resources, c \in Codes : <<w, c>> \in Resources \X Codes
    OBVIOUS
  <2>3. deletes' \subseteq Resources \X Codes
    BY <2>1, <2>2 DEF WorldOK
  <2>4. QED
    BY <2>1, <2>3 DEF WorldOK
<1>3. ASSUME NEW what \in Resources, NEW c \in Codes, Delete(what, c)
      PROVE  WorldOK'
  <2>1. deletes' \subseteq Resources \X Codes
    BY <1>3 DEF Delete, WorldOK
  <2>2. CASE server' = [server EXCEPT ![c][what] = FALSE]
    <3>1. server[c] \in [Resources -> BOOLEAN]
      BY DEF WorldOK
    <3>2. [server[c] EXCEPT ![what] = FALSE] \in [Resources -> BOOLEAN]
      BY <3>1
    <3>3. server' = [server EXCEPT ![c] = [server[c] EXCEPT ![what] = FALSE]]
      BY <2>2 DEF WorldOK
    <3>4. server' \in [Codes -> [Resources -> BOOLEAN]]
      BY <3>2, <3>3 DEF WorldOK
    <3>5. QED
      BY <2>1, <3>4 DEF WorldOK
  <2>3. CASE server' = server
    BY <2>1, <2>3 DEF WorldOK
  <2>4. QED
    BY <1>3, <2>2, <2>3 DEF Delete
<1>4. CASE OwnReply \/ LateReply
  <2>1. server' = server /\ deletes' = deletes
    BY <1>4, AnswerLeavesWorld DEF OwnReply, LateReply
  <2>2. QED
    BY <2>1, <1>1
<1>5. CASE \/ Login \/ (\E c \in Codes : SetCode(c)) \/ Start
           \/ (\E close, sent \in BOOLEAN : UserStop(close, sent)) \/ CloseReply
           \/ RetryTimeout \/ ProcessRedirect \/ Reboot
  <2>1. server' = server /\ deletes' = deletes
    BY <1>5 DEF Login, SetCode, Start, UserStop, CloseReply, RetryTimeout, ProcessRedirect,
       Reboot
  <2>2. QED
    BY <2>1, <1>1
<1>6. QED
  BY <1>2, <1>3, <1>4, <1>5 DEF Step

\* The provisioning is written before the timer that uses it is started.  It is
\* emptied only in sight of the observer.
LEMMA SavedKept ==
    ASSUME Saved, Kept, Observe
    PROVE  Saved' /\ spoilt' \in BOOLEAN
<1>1. spoilt' \in BOOLEAN
  BY DEF Observe
<1>2. ASSUME reg'.timers.config > 0, disk'.prov.code # disk'.code
      PROVE  spoilt'
  <2>1. /\ reg.timers.config > 0 /\ disk'.code = disk.code
        /\ disk'.prov \in {disk.prov, NoProvisioning}
    BY <1>2 DEF Kept
  <2>2. CASE spoilt
    BY <1>2, <2>2 DEF Observe
  <2>3. CASE disk.prov.code = disk.code
    <3>1. disk'.prov # disk.prov
      BY <1>2, <2>1, <2>3
    <3>2. QED
      BY <1>2, <2>1, <3>1 DEF Observe
  <2>4. QED
    BY <2>1, <2>2, <2>3 DEF Saved
<1>3. QED
  BY <1>1, <1>2 DEF Saved

LEMMA InitInv == Init => IInv
<1> SUFFICES ASSUME Init PROVE IInv
  OBVIOUS
<1>1. reg = Fresh /\ session = "idle" /\ spoilt = FALSE
  BY DEF Init
<1>2. [w \in Resources |-> 0] \in [Resources -> 0 .. MaxTimers]
  BY RegistrationAssumption
<1>3. Fresh \in RegType /\ Fresh.timers["config"] = 0
  BY <1>2, Values DEF Fresh, RegType
<1>4. disk \in DiskType
  BY Values DEF Init, DiskType, NoProvisioning
<1>5. WorldOK
  BY DEF Init, WorldOK
<1>6. ~Fresh.closing /\ Fresh.fsm = "off" /\ ~Fresh.retry /\ Fresh.regUrl = NoRequest
  BY DEF Fresh
<1>7. Fits(reg, session, disk) /\ Saved
  BY <1>1, <1>3, <1>4, <1>6 DEF Fits, Matches, Agrees, Saved, Sessions
<1>8. QED
  BY <1>1, <1>5, <1>7, FitsIsInv

LEMMA NextInv == IInv /\ [Next]_vars => IInv'
<1> SUFFICES ASSUME IInv, [Next]_vars PROVE IInv'
  OBVIOUS
<1>1. CASE Step /\ Observe
  <2>1. Kept
    BY <1>1, StepKeeps
  <2>2. WorldOK'
    BY <1>1, WorldKept, FitsIsInv
  <2>3. Saved' /\ spoilt' \in BOOLEAN
    BY <1>1, <2>1, SavedKept, FitsIsInv
  <2>4. Fits(reg', session', disk') /\ (session' = "setup" => Driven(reg'))
    BY <2>1 DEF Kept
  <2>5. QED
    BY <2>2, <2>3, <2>4, FitsIsInv
<1>2. CASE UNCHANGED vars
  <2>1. Kept /\ WorldOK' /\ Saved' /\ spoilt' \in BOOLEAN
    BY <1>2, WorldStep, FitsIsInv DEF vars, deviceVars, WorldOK, Saved
  <2>2. QED
    BY <2>1, FitsIsInv DEF Kept
<1>3. QED
  BY <1>1, <1>2 DEF Next

LEMMA Invariance == Spec => []IInv
BY InitInv, NextInv, PTL DEF Spec

\* Only the completion of a setup has something deleted: what it asked the
\* registry for is of the code whose provisioning is saved.
LEMMA DeleteStep ==
    ASSUME IInv, [Next]_vars, NEW d \in deletes' \ deletes
    PROVE  \/ disk.prov.code = d[2]
           \/ spoilt
           \/ d[1] = "config" /\ d[2] # disk.code
<1>1. CompleteSetup
  <2>1. CASE UNCHANGED vars
    BY <2>1 DEF vars, deviceVars
  <2>2. CASE OwnReply \/ LateReply
    BY <2>2, AnswerLeavesWorld DEF OwnReply, LateReply
  <2>3. CASE \E what \in Resources, c \in Codes : Delete(what, c)
    BY <2>3 DEF Delete
  <2>4. CASE \/ Login \/ (\E c \in Codes : SetCode(c)) \/ Start
             \/ (\E close, sent \in BOOLEAN : UserStop(close, sent)) \/ CloseReply
             \/ RetryTimeout \/ ProcessRedirect \/ Reboot
    BY <2>4 DEF Login, SetCode, Start, UserStop, CloseReply, RetryTimeout,
       ProcessRedirect, Reboot
  <2>5. QED
    BY <2>1, <2>2, <2>3, <2>4 DEF Next, Step
<1>2. /\ Agrees(reg, session, disk)
      /\ spoilt \/ disk.prov.code = disk.code
  BY <1>1 DEF IInv, Saved, CompleteSetup
<1>3. CASE \E c \in {reg.redirectUrl} \cap Codes : d = <<"config", c>>
  BY <1>2, <1>3
<1>4. CASE reg.regUrl.host = "registry" /\ d = <<"redirect", reg.regUrl.code>>
  <2>1. reg.regUrl # NoRequest
    BY <1>4 DEF NoRequest
  <2>2. reg.regUrl.code = disk.code
    BY <1>2, <2>1 DEF Agrees
  <2>3. QED
    BY <1>2, <1>4, <2>2
<1>5. QED
  BY <1>1, <1>3, <1>4 DEF CompleteSetup

-----------------------------------------------------------------------------
(* The theorems. *)

\* The fields of the module, the files and the server have the values that their
\* classes declare; the delay of the retries stays below twice its ceiling.
THEOREM TypeCorrect == Spec => []TypeOK
<1>1. IInv => TypeOK
  BY DEF IInv
<1>2. QED
  BY <1>1, Invariance, PTL

\* A registration under way waits for an answer, for a zero timer, for its retry
\* timer or for the user, however many answers of earlier attempts come meanwhile;
\* a device at rest does not retry.
THEOREM SetupNeverStalls == Spec => []SetupIsDriven
<1>1. IInv => SetupIsDriven
  BY DEF IInv
<1>2. QED
  BY <1>1, Invariance, PTL

\* A device that is online has the OpenVPN configuration of its own code.
THEOREM OnlineHasItsFiles == Spec => []OnlineIsConsistent
<1>1. IInv => OnlineIsConsistent
  BY DEF IInv, Agrees, OnlineIsConsistent
<1>2. QED
  BY <1>1, Invariance, PTL

\* The registry and the Switchboard are asked to delete only what is saved, but
\* for the two cases that the property names.
THEOREM DeletedOnlyWhenSaved == Spec => SavedBeforeDeleted
<1>1. IInv /\ [Next]_vars =>
        [\A d \in deletes' \ deletes :
            \/ disk.prov.code = d[2]
            \/ spoilt
            \/ d[1] = "config" /\ d[2] # disk.code]_vars
  BY DeleteStep
<1>2. QED
  BY <1>1, Invariance, PTL DEF Spec, SavedBeforeDeleted
=============================================================================
