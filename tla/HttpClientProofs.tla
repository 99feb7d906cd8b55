--------------------------- MODULE HttpClientProofs ---------------------------
(***************************************************************************)
(* Proofs about HttpClient, for any number of requests, users and errors,  *)
(* and about two objects that use it, those of the API and the watchdog.   *)
(* To say what the signals of a request's end mean, the invariant of the   *)
(* client is extended by what has been told of each request so far, and by *)
(* what _sslError says of a request that is alone.                         *)
(***************************************************************************)
EXTENDS Watchdog, ApiCalls, FiniteSetTheorems, TLAPS

Data == Users \cup {NoData}
Connection == [phase : Phases, data : Data, timer : BOOLEAN, retry : BOOLEAN, asked : BOOLEAN]
Counts == [Kinds -> Nat]
History == [who : Data, told : Counts, alone : BOOLEAN]
Entries == {"none", "null", "conn"}
Settings == [verifyCA : BOOLEAN, timeout : BOOLEAN, retry : BOOLEAN]
SignalType == [kind : Kinds \cup {"proxy"}, data : Data]

Live(c) == c.phase \in {"sent", "untrusted", "failed"}

\* A request that is in flight has its user data, or lost it by a retry, and
\* nothing has been told of one that has not been refused.
Known(c, h) ==
    /\ c \in Connection
    /\ h \in History
    /\ Live(c) => c.data \in {h.who, NoData}
    /\ c.phase = "sent" => h.told = Untold

\* If it is alone, the flag tells of it only.
Lone(c, h, ssl) ==
    Live(c) /\ h.alone =>
        /\ c.phase = "sent" => ~ssl
        /\ c.phase = "untrusted" => ssl /\ \E n \in 1..MaxSslErrors : h.told = Only("ssl", n)
        /\ c.phase = "failed" => h.told \in Failures

OutType == \A i \in DOMAIN out : out[i] \in SignalType

ClientInductive ==
    /\ conns \in [Slots -> Connection] /\ history \in [Slots -> History]
    /\ entries \in [Slots -> Entries]
    /\ opts \in Settings /\ sslError \in BOOLEAN /\ userData \in Data
    /\ OutType
    /\ \A s \in Slots : entries[s] = "conn" <=> Live(conns[s])
    /\ \A s \in Slots : Known(conns[s], history[s])
    /\ \A s \in Slots : Lone(conns[s], history[s], sslError)
    /\ \A s, t \in Slots : Live(conns[s]) /\ Live(conns[t]) /\ history[s].alone => t = s

\* What is known of the requests is more than the client's invariant.
LEMMA InductiveImpliesInv == ClientInductive => ClientInv
BY DEF ClientInductive, ClientInv, ClientTypeOK, MapHasNoDeadConnection, InFlight, Live, OutType,
       Connection, History, Counts, Entries, Settings, SignalType, Data

\* Signals are counted up from nothing, each kind for itself.
LEMMA Counting ==
    /\ Untold \in Counts
    /\ \A told \in Counts, kind \in Kinds, n \in Nat : [told EXCEPT ![kind] = @ + n] \in Counts
    /\ \A kind \in Kinds, n \in Nat : [Untold EXCEPT ![kind] = @ + n] = Only(kind, n)
    /\ \A f \in Failures \cup {Untold} : [f EXCEPT !["timeout"] = @ + 1] = [f EXCEPT !["timeout"] = 1]
<1>1. Untold \in Counts
  BY DEF Untold, Counts
<1>2. \A told \in Counts, kind \in Kinds, n \in Nat : [told EXCEPT ![kind] = @ + n] \in Counts
  BY DEF Counts
<1>3. ASSUME NEW kind \in Kinds, NEW n \in Nat
      PROVE  [Untold EXCEPT ![kind] = @ + n] = Only(kind, n)
  BY DEF Untold, Only
<1>4. ASSUME NEW f \in Failures \cup {Untold}
      PROVE  [f EXCEPT !["timeout"] = @ + 1] = [f EXCEPT !["timeout"] = 1]
  <2>1. f["timeout"] = 0
    BY DEF Failures, Untold, Only, Kinds
  <2>2. QED
    BY <2>1
<1>5. QED
  BY <1>1, <1>2, <1>3, <1>4

\* What emitting signals leaves of what is known of the request.
LEMMA Emitting ==
    ASSUME history \in [Slots -> History], NEW s \in Slots, NEW kind \in Kinds,
           NEW data \in Data, NEW n \in Nat, Emit(s, kind, data, n)
    PROVE  /\ history' = [history EXCEPT ![s] = history'[s]]
           /\ \A t \in Slots : t # s => history'[t] = history[t]
           /\ history'[s] \in History
           /\ history'[s].who = history[s].who /\ history'[s].alone = history[s].alone
           /\ history'[s].told = [history[s].told EXCEPT ![kind] = @ + n]
           /\ OutType'
<1> DEFINE h == [history[s] EXCEPT !.told[kind] = @ + n]
<1>1. history[s] \in History /\ history[s].told \in Counts
  BY DEF History
<1>2. h = [who |-> history[s].who, told |-> [history[s].told EXCEPT ![kind] = @ + n],
           alone |-> history[s].alone]
  BY <1>1 DEF History
<1>3. [history[s].told EXCEPT ![kind] = @ + n] \in Counts
  BY <1>1, Counting
<1>4. h \in History
  BY <1>1, <1>2, <1>3 DEF History
<1>5. history' = [history EXCEPT ![s] = h] /\ history'[s] = h
  BY DEF Emit
<1>6. OutType'
  BY DEF Emit, OutType, Signal, SignalType
<1>7. QED
  BY <1>2, <1>4, <1>5, <1>6

\* Looking up an address adds no connection.
LEMMA LookingUp ==
    ASSUME entries \in [Slots -> Entries], NEW s \in Slots
    PROVE  /\ Looked(s) \in [Slots -> Entries]
           /\ \A t \in Slots : Looked(s)[t] = "conn" <=> entries[t] = "conn"
BY DEF Looked, Entries

\* When one request moves on, whatever the flag says then is about that request,
\* or the flag has not changed.
LEMMA OneMoves ==
    ASSUME ClientInductive, NEW s \in Slots, NEW c, NEW h,
           conns' = [conns EXCEPT ![s] = c], history' = [history EXCEPT ![s] = h],
           Known(c, h), Lone(c, h, sslError'),
           Live(c) => Live(conns[s]) /\ (h.alone => history[s].alone),
           entries' \in [Slots -> Entries],
           \A t \in Slots \ {s} : entries'[t] = "conn" <=> entries[t] = "conn",
           entries'[s] = "conn" <=> Live(c),
           sslError' \in BOOLEAN, sslError' = sslError \/ Live(conns[s]),
           opts' = opts, userData' = userData, OutType'
    PROVE  ClientInductive'
<1>1. c \in Connection /\ h \in History
  BY DEF Known
<1>2. conns' \in [Slots -> Connection] /\ history' \in [Slots -> History]
  BY <1>1 DEF ClientInductive
<1>3. conns'[s] = c /\ history'[s] = h
  BY DEF ClientInductive
<1>4. ASSUME NEW t \in Slots, t # s
      PROVE  conns'[t] = conns[t] /\ history'[t] = history[t]
  BY <1>4 DEF ClientInductive
<1>5. \A t \in Slots : entries'[t] = "conn" <=> Live(conns'[t])
  BY <1>3, <1>4 DEF ClientInductive
<1>6. \A t \in Slots : Known(conns'[t], history'[t])
  BY <1>3, <1>4 DEF ClientInductive
<1>7. \A t \in Slots : Lone(conns'[t], history'[t], sslError')
  <2>1. ASSUME NEW t \in Slots, t # s, Live(conns[t]), history[t].alone
        PROVE  sslError' = sslError
    BY <2>1 DEF ClientInductive
  <2>2. QED
    BY <1>3, <1>4, <2>1 DEF ClientInductive, Lone
<1>8. \A t, u \in Slots : Live(conns'[t]) /\ Live(conns'[u]) /\ history'[t].alone => u = t
  BY <1>3, <1>4 DEF ClientInductive
<1>9. QED
  BY <1>2, <1>5, <1>6, <1>7, <1>8 DEF ClientInductive

\* A new request takes the flag over, and no other request is alone any more;
\* live is what there is beside it.
LEMMA Sending ==
    ASSUME ClientInductive, NEW s \in Slots, NEW who \in Data, NEW data \in {who, NoData},
           NEW live \in [Slots -> Connection], SendAt(s, who, data, live),
           ~Live(live[s]),
           \A t \in Slots : live[t] = conns[t] \/ live[t].phase = "dropped",
           entries' \in [Slots -> Entries], entries'[s] = "conn",
           \A t \in Slots \ {s} : entries'[t] = "conn" <=> Live(live[t]),
           opts' = opts, OutType'
    PROVE  ClientInductive'
<1> DEFINE c == [Free EXCEPT !.phase = "sent", !.data = data, !.timer = opts.timeout,
                             !.retry = opts.retry]
           none == {t \in Slots : live[t].phase \in {"sent", "untrusted", "failed"}} = {}
           h == [who |-> who, told |-> Untold, alone |-> none]
<1>1. c \in Connection /\ c.phase = "sent" /\ c.data = data
  BY DEF ClientInductive, Connection, Settings, Free, Phases, Data
<1>2. h \in History
  BY Counting DEF History
<1>3. conns' = [live EXCEPT ![s] = c] /\ sslError' = FALSE /\ userData' = data /\ data \in Data
  BY DEF SendAt, Data
<1>4. conns' \in [Slots -> Connection] /\ conns'[s] = c
  BY <1>1, <1>3
<1>5. history' = [t \in Slots |-> IF t = s THEN h
                                  ELSE IF live[t].phase = "free" THEN NoHistory
                                  ELSE [history[t] EXCEPT !.alone = FALSE]]
  BY DEF SendAt
<1>6. ASSUME NEW t \in Slots, t # s
      PROVE  /\ conns'[t] = live[t]
             /\ history'[t] \in History
             /\ ~history'[t].alone
             /\ live[t].phase # "free" => /\ history'[t].who = history[t].who
                                          /\ history'[t].told = history[t].told
  <2>1. history[t] \in History
    BY DEF ClientInductive
  <2>2. [history[t] EXCEPT !.alone = FALSE] \in History
    BY <2>1 DEF History
  <2>3. NoHistory \in History /\ ~NoHistory.alone
    BY Counting DEF History, NoHistory, Data
  <2>4. history'[t] = IF live[t].phase = "free" THEN NoHistory
                      ELSE [history[t] EXCEPT !.alone = FALSE]
    BY <1>5, <1>6
  <2>5. conns'[t] = live[t]
    BY <1>3, <1>6
  <2>6. QED
    BY <2>1, <2>2, <2>3, <2>4, <2>5 DEF History
<1>7. history' \in [Slots -> History] /\ history'[s] = h
  <2>1. history'[s] = h
    BY <1>5
  <2>2. DOMAIN history' = Slots /\ \A t \in Slots : history'[t] \in History
    BY <1>2, <1>5, <1>6, <2>1
  <2>3. QED
    BY <1>5, <2>1, <2>2
<1>8. \A t \in Slots : entries'[t] = "conn" <=> Live(conns'[t])
  BY <1>1, <1>4, <1>6 DEF Live
<1>9. \A t \in Slots : Known(conns'[t], history'[t])
  <2>1. Known(conns'[s], history'[s])
    BY <1>1, <1>2, <1>4, <1>7 DEF Known, Live
  <2>2. ASSUME NEW t \in Slots, t # s
        PROVE  Known(conns'[t], history'[t])
    <3>1. Known(conns[t], history[t])
      BY DEF ClientInductive
    <3>2. CASE live[t] = conns[t]
      BY <1>6, <2>2, <3>1, <3>2 DEF Known, Live
    <3>3. CASE live[t].phase = "dropped"
      BY <1>6, <2>2, <3>3 DEF Known, Live
    <3>4. QED
      BY <3>2, <3>3
  <2>3. QED
    BY <2>1, <2>2
<1>10. \A t \in Slots : Lone(conns'[t], history'[t], sslError')
  BY <1>1, <1>3, <1>4, <1>6 DEF Lone
<1>11. ASSUME NEW t \in Slots, NEW u \in Slots,
              Live(conns'[t]), Live(conns'[u]), history'[t].alone
       PROVE  u = t
  <2>1. t = s
    BY <1>6, <1>11
  <2>2. h.alone
    BY <1>7, <1>11, <2>1
  <2>3. none
    BY <2>2
  <2>4. QED
    BY <1>6, <1>11, <2>1, <2>3 DEF Live
<1>12. QED
  BY <1>3, <1>4, <1>7, <1>8, <1>9, <1>10, <1>11 DEF ClientInductive

\* Nothing but the signals changes, or what does cannot be wrong.
LEMMA NobodyMoves ==
    ASSUME ClientInductive, UNCHANGED <<conns, sslError, userData, history>>,
           opts' \in Settings, entries' \in [Slots -> Entries],
           \A s \in Slots : entries'[s] = "conn" <=> entries[s] = "conn",
           OutType'
    PROVE  ClientInductive'
BY DEF ClientInductive

\* Every slot keeps the invariant.
LEMMA SendStep ==
    ASSUME ClientInductive, NEW s \in Slots, NEW user \in Users, Send(s, user)
    PROVE  ClientInductive'
<1>1. OutType'
  BY DEF Send, OutType
<1>2. ~Live(conns[s]) /\ SendAt(s, user, user, conns)
  BY DEF Send, SendAt, Live
<1>3. entries' \in [Slots -> Entries] /\ entries'[s] = "conn"
      /\ \A t \in Slots \ {s} : entries'[t] = "conn" <=> Live(conns[t])
  BY DEF Send, ClientInductive, Entries
<1>4. conns \in [Slots -> Connection] /\ user \in Data /\ opts' = opts
  BY DEF ClientInductive, Send, Data
<1>5. QED
  BY <1>1, <1>2, <1>3, <1>4, Sending

LEMMA ResetStep ==
    ASSUME ClientInductive, Reset
    PROVE  ClientInductive'
<1>1. Known(Free, NoHistory) /\ ~Live(Free) /\ Free \in Connection /\ NoHistory \in History
  BY Counting DEF Known, Free, NoHistory, Live, Connection, History, Phases, Data
<1>2. ASSUME NEW s \in Slots
      PROVE  /\ Known(conns'[s], history'[s])
             /\ ~Live(conns'[s])
             /\ conns'[s] \in Connection /\ history'[s] \in History
             /\ entries'[s] = "none"
  BY <1>1, <1>2 DEF Reset, ClientInductive, InFlight, Live
<1>3. conns' \in [Slots -> Connection] /\ history' \in [Slots -> History]
      /\ entries' \in [Slots -> Entries] /\ OutType'
  BY <1>2 DEF Reset, Entries, OutType
<1>4. QED
  BY <1>2, <1>3 DEF ClientInductive, Reset, Lone

LEMMA SslErrorsStep ==
    ASSUME ClientInductive, NEW s \in Slots, NEW n \in 1..MaxSslErrors, SslErrors(s, n)
    PROVE  ClientInductive'
<1> DEFINE refused == entries[s] = "conn" /\ opts.verifyCA
           c == [conns[s] EXCEPT !.asked = TRUE,
                                 !.phase = IF conns[s].phase = "sent" /\ opts.verifyCA
                                           THEN "untrusted" ELSE conns[s].phase]
           h == history'[s]
<1>1. /\ Known(conns[s], history[s]) /\ Lone(conns[s], history[s], sslError)
      /\ history \in [Slots -> History]
  BY DEF ClientInductive
<1>2. entries[s] = "conn" <=> conns[s].phase = "sent"
  BY DEF SslErrors, ClientInductive, Live
<1>3. n \in Nat /\ "ssl" \in Kinds /\ conns[s].data \in Data
  BY <1>1, HttpClientAssumption DEF Kinds, Known, Connection
<1>4. refused => Emit(s, "ssl", conns[s].data, n)
  BY DEF SslErrors
<1>5. ~refused => out' = <<>> /\ history' = history
  BY DEF SslErrors
<1>6. conns' = [conns EXCEPT ![s] = c] /\ history' = [history EXCEPT ![s] = h]
  <2>1. conns' = [conns EXCEPT ![s] = c]
    BY DEF SslErrors, ClientInductive
  <2>2. CASE refused
    BY <1>1, <1>3, <1>4, <2>1, <2>2, Emitting
  <2>3. CASE ~refused
    BY <1>1, <1>5, <2>1, <2>3
  <2>4. QED
    BY <2>2, <2>3
<1>7. c \in Connection /\ c.data = conns[s].data /\ (Live(c) <=> Live(conns[s]))
  BY <1>1 DEF Known, Connection, Phases, Live
<1>8. h \in History /\ h.who = history[s].who /\ h.alone = history[s].alone /\ OutType'
  <2>1. CASE refused
    BY <1>1, <1>6, <1>3, <1>4, <2>1, Emitting
  <2>2. CASE ~refused
    BY <1>1, <1>5, <2>2 DEF Known, OutType
  <2>3. QED
    BY <2>1, <2>2
<1>9. sslError' = (sslError \/ refused)
  BY DEF SslErrors, ClientInductive
<1>10. Known(c, h) /\ Lone(c, h, sslError')
  <2>1. CASE refused
    <3>1. c.phase = "untrusted" /\ history[s].told = Untold /\ sslError'
      BY <1>1, <1>2, <1>9, <2>1 DEF Known, Connection
    <3>2. h.told = [history[s].told EXCEPT !["ssl"] = @ + n]
      BY <1>1, <1>6, <1>3, <1>4, <2>1, Emitting
    <3>3. h.told = Only("ssl", n)
      BY <1>3, <3>1, <3>2, Counting
    <3>4. QED
      BY <1>1, <1>7, <1>8, <3>1, <3>3 DEF Known, Lone
  <2>2. CASE ~refused
    <3>1. c.phase = conns[s].phase /\ h = history[s] /\ sslError' = sslError
      BY <1>1, <1>2, <1>5, <1>9, <2>2 DEF Known, Connection, ClientInductive
    <3>2. QED
      BY <1>1, <1>7, <3>1 DEF Known, Lone, Live
  <2>3. QED
    BY <2>1, <2>2
<1>11. OutType'
  BY <1>8
<1>12. /\ entries' \in [Slots -> Entries]
      /\ \A t \in Slots : entries'[t] = "conn" <=> entries[t] = "conn"
  BY LookingUp DEF SslErrors, ClientInductive
<1>13. opts' = opts /\ userData' = userData /\ sslError' \in BOOLEAN
  BY <1>9 DEF SslErrors
<1>14. sslError' = sslError \/ Live(conns[s])
  BY <1>2 DEF SslErrors, Live
<1>15. Live(c) => Live(conns[s]) /\ (h.alone => history[s].alone)
  BY <1>7, <1>8
<1>16. entries'[s] = "conn" <=> Live(c)
  BY <1>7, <1>12 DEF ClientInductive
<1> HIDE DEF c, h, refused
<1>17. QED
  BY <1>6, <1>10, <1>11, <1>12, <1>13, <1>14, <1>15, <1>16, OneMoves

LEMMA NetworkErrorStep ==
    ASSUME ClientInductive, NEW s \in Slots, NEW handshake \in BOOLEAN, NetworkError(s, handshake)
    PROVE  ClientInductive'
<1>1. /\ Known(conns[s], history[s]) /\ Lone(conns[s], history[s], sslError)
      /\ conns[s] \in Connection /\ history[s] \in History
      /\ entries[s] = "conn" <=> Live(conns[s])
  BY DEF ClientInductive
<1>2. /\ entries' \in [Slots -> Entries]
      /\ \A t \in Slots : entries'[t] = "conn" <=> entries[t] = "conn"
      /\ opts' = opts /\ userData' = userData /\ sslError' = sslError
  BY LookingUp DEF NetworkError, ClientInductive
<1>3. CASE entries[s] # "conn"
  <2>1. UNCHANGED <<conns, history>> /\ OutType'
    BY <1>3 DEF NetworkError, OutType
  <2>2. QED
    BY <1>2, <2>1, NobodyMoves DEF ClientInductive
<1>4. CASE entries[s] = "conn"
  <2> DEFINE c == [conns[s] EXCEPT !.phase = "failed"]
             hidden == handshake /\ sslError
             h == history'[s]
  <2>1. "network" \in Kinds /\ conns[s].data \in Data /\ history \in [Slots -> History]
    BY <1>1 DEF Kinds, Connection, ClientInductive
  <2>2. ~hidden => Emit(s, "network", conns[s].data, 1)
    BY <1>4 DEF NetworkError
  <2>3. hidden => out' = <<>> /\ history' = history
    BY <1>4 DEF NetworkError
  <2>4. conns' = [conns EXCEPT ![s] = c] /\ history' = [history EXCEPT ![s] = h]
    <3>1. conns' = [conns EXCEPT ![s] = c]
      BY <1>4 DEF NetworkError, ClientInductive
    <3>2. CASE hidden
      BY <2>1, <2>3, <3>1, <3>2
    <3>3. CASE ~hidden
      BY <2>1, <2>2, <3>1, <3>3, Emitting
    <3>4. QED
      BY <3>2, <3>3
  <2>5. c \in Connection /\ c.data = conns[s].data /\ c.phase = "failed"
    BY <1>1 DEF Connection, Phases
  <2>6. h \in History /\ h.who = history[s].who /\ h.alone = history[s].alone /\ OutType'
    <3>1. CASE hidden
      BY <1>1, <2>3, <3>1 DEF OutType
    <3>2. CASE ~hidden
      BY <2>4, <2>1, <2>2, <3>2, Emitting
    <3>3. QED
      BY <3>1, <3>2
  <2>7. Known(c, h)
    BY <1>1, <1>4, <2>5, <2>6 DEF Known
  <2>8. ASSUME h.alone
        PROVE  h.told \in Failures
    <3>1. CASE conns[s].phase = "untrusted"
      BY <1>1, <2>6, <2>8, <3>1 DEF NetworkError, Lone, Live, Failures
    <3>2. CASE conns[s].phase = "sent"
      <4>1. ~hidden /\ history[s].told = Untold
        BY <1>1, <2>6, <2>8, <3>2 DEF Lone, Known, Live
      <4>2. h.told = [history[s].told EXCEPT !["network"] = @ + 1]
        BY <2>4, <2>1, <2>2, <4>1, Emitting
      <4>3. QED
        BY <2>1, <4>1, <4>2, Counting DEF Failures
    <3>3. QED
      BY <1>1, <1>4, <3>1, <3>2 DEF NetworkError, Live
  <2>9. Lone(c, h, sslError')
    BY <2>5, <2>8 DEF Lone
  <2>10. OutType'
    BY <2>6
  <2>11. /\ Live(c) /\ Live(conns[s]) /\ entries'[s] = "conn"
        /\ sslError' \in BOOLEAN
    BY <1>1, <1>2, <1>4, <2>5 DEF Live, ClientInductive
  <2>12. QED
    BY <1>2, <2>4, <2>6, <2>7, <2>9, <2>10, <2>11, OneMoves
<1>5. QED
  BY <1>3, <1>4

LEMMA FinishedStep ==
    ASSUME ClientInductive, NEW s \in Slots, Finished(s)
    PROVE  ClientInductive'
<1>1. /\ Known(conns[s], history[s])
      /\ conns[s] \in Connection /\ history[s] \in History
      /\ entries[s] = "conn" <=> Live(conns[s])
  BY DEF ClientInductive
<1>2. opts' = opts /\ userData' = userData /\ sslError' = sslError
  BY DEF Finished
<1>3. CASE entries[s] # "conn"
  <2>1. UNCHANGED <<conns, history>> /\ OutType' /\ entries' = Looked(s)
    BY <1>3 DEF Finished, OutType
  <2>2. QED
    BY <1>2, <2>1, NobodyMoves, LookingUp DEF ClientInductive
<1>4. CASE entries[s] = "conn"
  <2> DEFINE h == history'[s]
  <2>1. conns' = [conns EXCEPT ![s] = Free] /\ history' = [history EXCEPT ![s] = h]
        /\ h \in History /\ OutType'
    <3>1. history \in [Slots -> History] /\ "complete" \in Kinds /\ conns[s].data \in Data
      BY <1>1 DEF ClientInductive, Kinds, Connection
    <3>2. CASE conns[s].phase = "sent"
      <4>1. Emit(s, "complete", conns[s].data, 1) /\ conns' = [conns EXCEPT ![s] = Free]
        BY <1>4, <3>2 DEF Finished
      <4>2. QED
        BY <3>1, <4>1, Emitting
    <3>3. CASE conns[s].phase # "sent"
      BY <1>4, <3>1, <3>3 DEF Finished, OutType
    <3>4. QED
      BY <3>2, <3>3
  <2>2. h \in History
    BY <2>1
  <2>3. Free \in Connection /\ ~Live(Free) /\ Free.phase = "free"
    BY DEF Free, Connection, Phases, Data, Live
  <2>4. Known(Free, h) /\ Lone(Free, h, sslError')
    BY <2>2, <2>3 DEF Known, Lone
  <2>5. /\ entries' \in [Slots -> Entries] /\ entries'[s] # "conn"
        /\ \A t \in Slots \ {s} : entries'[t] = "conn" <=> entries[t] = "conn"
    BY <1>4 DEF Finished, Entries, ClientInductive
  <2>6. OutType'
    BY <2>1
  <2>7. sslError' \in BOOLEAN
    BY <1>2 DEF ClientInductive
  <2>8. QED
    BY <1>2, <2>1, <2>3, <2>4, <2>5, <2>6, <2>7, OneMoves
<1>5. QED
  BY <1>3, <1>4

LEMMA TimeoutStep ==
    ASSUME ClientInductive, NEW s \in Slots, NEW t \in Slots, Timeout(s, t)
    PROVE  ClientInductive'
<1> DEFINE c == [conns[s] EXCEPT !.phase = "dropped", !.timer = FALSE]
           live == [conns EXCEPT ![s] = c]
<1>1. /\ Known(conns[s], history[s])
      /\ conns[s] \in Connection /\ history[s] \in History
      /\ Live(conns[s])
  BY DEF Timeout, InFlight, Live, ClientInductive
<1>2. c \in Connection /\ c.phase = "dropped" /\ ~Live(c)
  BY <1>1 DEF Connection, Phases, Live
<1>3. live = [conns EXCEPT ![s].phase = "dropped", ![s].timer = FALSE]
  BY DEF ClientInductive
<1>4. CASE conns[s].retry
  <2>1. SendAt(t, history[s].who, NoData, live)
    BY <1>3, <1>4 DEF Timeout
  <2>2. /\ entries' = [entries EXCEPT ![s] = "none", ![t] = "conn"]
        /\ opts' = opts /\ OutType'
    BY <1>4 DEF Timeout, OutType
  <2>3. live \in [Slots -> Connection] /\ history[s].who \in Data
        /\ \A u \in Slots : live[u] = conns[u] \/ live[u].phase = "dropped"
    BY <1>1, <1>2 DEF ClientInductive, History
  <2>4. t # s /\ ~Live(live[t])
    BY <1>1, <2>1 DEF SendAt, Live, ClientInductive
  <2>5. /\ entries' \in [Slots -> Entries] /\ entries'[t] = "conn"
        /\ \A u \in Slots \ {t} : entries'[u] = "conn" <=> Live(live[u])
    BY <1>2, <2>2, <2>4 DEF Entries, ClientInductive
  <2>6. QED
    BY <2>1, <2>2, <2>3, <2>4, <2>5, Sending
<1>5. CASE ~conns[s].retry
  <2> DEFINE h == history'[s]
  <2>1. conns' = [conns EXCEPT ![s] = c] /\ history' = [history EXCEPT ![s] = h]
        /\ h \in History /\ OutType'
    <3>1. history \in [Slots -> History] /\ "timeout" \in Kinds /\ NoData \in Data
      BY DEF ClientInductive, Kinds, Data
    <3>2. Emit(s, "timeout", NoData, 1) /\ conns' = live
      BY <1>3, <1>5 DEF Timeout
    <3>3. QED
      BY <3>1, <3>2, Emitting
  <2>2. h \in History
    BY <2>1
  <2>3. Known(c, h) /\ Lone(c, h, sslError')
    BY <1>2, <2>2 DEF Known, Lone
  <2>4. /\ entries' \in [Slots -> Entries] /\ entries'[s] # "conn"
        /\ \A u \in Slots \ {s} : entries'[u] = "conn" <=> entries[u] = "conn"
    BY <1>5 DEF Timeout, Entries, ClientInductive
  <2>5. OutType' /\ opts' = opts /\ userData' = userData /\ sslError' = sslError
    BY <1>5, <2>1 DEF Timeout
  <2>6. sslError' \in BOOLEAN
    BY <2>5 DEF ClientInductive
  <2>7. QED
    BY <1>2, <2>1, <2>3, <2>4, <2>5, <2>6, OneMoves
<1>6. QED
  BY <1>4, <1>5

LEMMA DeleteStep ==
    ASSUME ClientInductive, NEW s \in Slots, Delete(s)
    PROVE  ClientInductive'
<1>1. conns' = [conns EXCEPT ![s] = Free] /\ history' = [history EXCEPT ![s] = NoHistory]
  BY DEF Delete
<1>2. Known(Free, NoHistory) /\ ~Live(Free) /\ Lone(Free, NoHistory, sslError')
  BY Counting DEF Known, Lone, Free, NoHistory, Live, Connection, History, Phases, Data
<1>3. entries' = entries /\ entries[s] # "conn"
  BY DEF Delete, ClientInductive, Live
<1>4. OutType' /\ opts' = opts /\ userData' = userData /\ sslError' = sslError
  BY DEF Delete, OutType
<1>5. entries' \in [Slots -> Entries] /\ sslError' \in BOOLEAN
  BY <1>3, <1>4 DEF ClientInductive
<1>6. QED
  BY <1>1, <1>2, <1>3, <1>4, <1>5, OneMoves

\* A step of the client, whichever it is.
LEMMA ClientStep ==
    ASSUME ClientInductive, [ClientNext]_clientVars
    PROVE  ClientInductive'
<1>1. CASE ProxyAuthenticationRequired
  BY <1>1, NobodyMoves
  DEF ProxyAuthenticationRequired, ClientInductive, OutType, Signal, SignalType
<1>2. ASSUME NEW options \in Options, Configure(options)
      PROVE  ClientInductive'
  BY <1>2, NobodyMoves, HttpClientAssumption DEF Configure, ClientInductive, OutType, Settings
<1>3. ASSUME NEW s \in Slots, Foreign(s)
      PROVE  ClientInductive'
  BY <1>3, NobodyMoves, LookingUp DEF Foreign, ClientInductive, OutType
<1>4. CASE UNCHANGED clientVars
  BY <1>4, NobodyMoves DEF clientVars, ClientInductive, OutType
<1>5. QED
  BY <1>1, <1>2, <1>3, <1>4, ResetStep, SendStep, SslErrorsStep, NetworkErrorStep, FinishedStep,
     TimeoutStep, DeleteStep
  DEF ClientNext, Reply

\* A client starts without requests.
LEMMA Construction == \A timeout \in BOOLEAN : Constructed(timeout) => ClientInductive
<1> SUFFICES ASSUME NEW timeout \in BOOLEAN, Constructed(timeout)
             PROVE  ClientInductive
  OBVIOUS
<1>1. Known(Free, NoHistory) /\ ~Live(Free) /\ Lone(Free, NoHistory, FALSE)
  BY Counting DEF Free, NoHistory, Connection, History, Known, Lone, Live, Phases, Data
<1>2. /\ opts \in Settings /\ sslError = FALSE /\ userData \in Data /\ OutType
      /\ entries \in [Slots -> Entries] /\ \A s \in Slots : entries[s] # "conn"
  BY DEF Constructed, Settings, Data, OutType, Entries
<1>3. /\ conns = [s \in Slots |-> Free] /\ history = [s \in Slots |-> NoHistory]
      /\ Free \in Connection /\ NoHistory \in History
  BY <1>1 DEF Constructed, Known
<1>4. QED
  BY <1>1, <1>2, <1>3 DEF ClientInductive

\* At any time the requests are known.
LEMMA ClientSafe == ClientSpec => []ClientInductive
<1>1. ClientInit => ClientInductive
  BY Construction DEF ClientInit
<1>2. QED
  BY <1>1, ClientStep, PTL DEF ClientSpec

\* The map of connections holds those that are in flight and no others, whatever
\* is refused, times out, retries, is finished or deleted.
THEOREM MapIsRight == ClientSpec => []ClientInv
BY InductiveImpliesInv, ClientSafe, PTL

\* A request ends by finishing or by its timeout.
LEMMA EndsByItself ==
    ASSUME ClientInductive, ClientNext, NEW s \in Slots, Ended(s)
    PROVE  Finished(s) \/ \E t \in Slots : Timeout(s, t)
<1>1. ~Reset /\ Live(conns[s]) /\ ~Live(conns'[s])
  BY DEF Ended, InFlight, Live
<1>2. conns' # conns
  BY <1>1
<1>3. PICK t \in Slots : \/ \E user \in Users : Send(t, user)
                        \/ Reply(t)
                        \/ \E u \in Slots : Timeout(t, u)
                        \/ Delete(t)
  BY <1>1, <1>2
  DEF ClientNext, ProxyAuthenticationRequired, Configure, Foreign
<1>4. ASSUME NEW user \in Users, Send(t, user)
      PROVE  FALSE
  BY <1>1, <1>4 DEF Send, SendAt, Live, Free, ClientInductive
<1>5. ASSUME NEW n \in 1..MaxSslErrors, SslErrors(t, n)
      PROVE  FALSE
  BY <1>1, <1>5 DEF SslErrors, Live, ClientInductive, Connection
<1>6. ASSUME NEW handshake \in BOOLEAN, NetworkError(t, handshake)
      PROVE  FALSE
  BY <1>1, <1>6 DEF NetworkError, Live, ClientInductive, Connection
<1>7. CASE Finished(t)
  BY <1>1, <1>7 DEF Finished, ClientInductive
<1>8. ASSUME NEW u \in Slots, Timeout(t, u)
      PROVE  t = s
  <2>1. CASE conns[t].retry
    BY <1>1, <1>8, <2>1 DEF Timeout, SendAt, Live, Free, ClientInductive, Connection
  <2>2. CASE ~conns[t].retry
    BY <1>1, <1>8, <2>2 DEF Timeout, ClientInductive, Connection
  <2>3. QED
    BY <2>1, <2>2
<1>9. ~Delete(t)
  BY <1>1 DEF Delete, Live, ClientInductive
<1>10. QED
  BY <1>3, <1>4, <1>5, <1>6, <1>7, <1>8, <1>9 DEF Reply

\* Only a reply that has finished without an error is completed.
LEMMA CompletedByFinished ==
    ASSUME ClientInductive, ClientNext, NEW i \in DOMAIN out', out'[i].kind = "complete"
    PROVE  \E s \in Slots : /\ Finished(s) /\ entries[s] = "conn"
                            /\ conns[s].phase = "sent"
                            /\ out'[i].data = conns[s].data
<1>1. ASSUME NEW s \in Slots, NEW user \in Users, Send(s, user)
      PROVE  FALSE
  BY <1>1 DEF Send
<1>2. ASSUME NEW s \in Slots, NEW n \in 1..MaxSslErrors, SslErrors(s, n)
      PROVE  FALSE
  BY <1>2 DEF SslErrors, Emit, Signal
<1>3. ASSUME NEW s \in Slots, NEW handshake \in BOOLEAN, NetworkError(s, handshake)
      PROVE  FALSE
  BY <1>3 DEF NetworkError, Emit, Signal
<1>4. ASSUME NEW s \in Slots, Finished(s)
      PROVE  /\ entries[s] = "conn" /\ conns[s].phase = "sent"
             /\ out'[i].data = conns[s].data
  BY <1>4 DEF Finished, Emit, Signal
<1>5. ASSUME NEW s \in Slots, NEW t \in Slots, Timeout(s, t)
      PROVE  FALSE
  BY <1>5 DEF Timeout, Emit, Signal
<1>6. ASSUME NEW s \in Slots, Foreign(s) \/ Delete(s)
      PROVE  FALSE
  BY <1>6 DEF Foreign, Delete
<1>7. ~Reset /\ ~ProxyAuthenticationRequired /\ ~\E options \in Options : Configure(options)
  BY DEF Reset, ProxyAuthenticationRequired, Configure, Signal
<1>8. QED
  BY <1>1, <1>2, <1>3, <1>4, <1>5, <1>6, <1>7 DEF ClientNext, Reply

\* However requests overlap, retry, time out and are refused: a completion is
\* that of a request of which nothing else was said, with its user data, and the
\* caller of one that was alone has had exactly a completion, a failure or a
\* timeout, or a failure and then a timeout, for any number of certificate errors.
THEOREM SignalsAreSafe == ClientSpec => SignalsAreRight
<1>1. ASSUME ClientInductive, ClientNext
      PROVE  CompletesOwn
  <2>1. SUFFICES ASSUME NEW i \in DOMAIN out', out'[i].kind = "complete"
                 PROVE  \E s \in Slots : /\ Ended(s)
                                         /\ history[s].told = Untold
                                         /\ out'[i].data \in {history[s].who, NoData}
    BY DEF CompletesOwn
  <2>2. PICK s \in Slots : /\ Finished(s) /\ entries[s] = "conn"
                          /\ conns[s].phase = "sent"
                          /\ out'[i].data = conns[s].data
    BY <1>1, <2>1, CompletedByFinished
  <2>3. conns'[s].phase = "free" /\ s \in InFlight
    BY <1>1, <2>2 DEF Finished, Free, InFlight, ClientInductive
  <2>4. ~Reset
    BY <2>1 DEF Reset
  <2>5. Known(conns[s], history[s])
    BY <1>1 DEF ClientInductive
  <2>6. QED
    BY <2>2, <2>3, <2>4, <2>5 DEF Ended, Known, Live
<1>2. ASSUME ClientInductive, ClientNext
      PROVE  TellsAlone
  <2>1. SUFFICES ASSUME NEW s \in Slots, Ended(s), history[s].alone, ~conns[s].retry
                 PROVE  IF conns'[s].phase = "dropped"
                        THEN \E earlier \in Failures \cup {Untold} :
                                history'[s].told = [earlier EXCEPT !["timeout"] = 1]
                        ELSE history'[s].told \in Failures \cup {Only("complete", 1)}
    BY DEF TellsAlone
  <2>2. /\ Known(conns[s], history[s]) /\ Lone(conns[s], history[s], sslError)
        /\ Live(conns[s]) /\ entries[s] = "conn"
        /\ conns \in [Slots -> Connection] /\ history \in [Slots -> History]
        /\ conns[s].data \in Data /\ NoData \in Data
        /\ "complete" \in Kinds /\ "timeout" \in Kinds
    BY <1>1, <1>2, <2>1 DEF Ended, InFlight, Live, ClientInductive, Known, Connection, Data, Kinds
  <2>3. conns[s].phase = "sent" => history[s].told = Untold
    BY <2>2 DEF Known
  <2>4. conns[s].phase \in {"untrusted", "failed"} =>
            history[s].told \in Failures
    BY <2>1, <2>2 DEF Lone, Failures
  <2>5. CASE Finished(s) /\ conns[s].phase = "sent"
    <3>1. Emit(s, "complete", conns[s].data, 1) /\ conns'[s].phase # "dropped"
      BY <2>2, <2>5 DEF Finished, Free
    <3>2. history'[s].told = [history[s].told EXCEPT !["complete"] = @ + 1]
      BY <2>2, <3>1, Emitting
    <3>3. QED
      BY <2>2, <2>3, <2>5, <3>1, <3>2, Counting
  <2>6. CASE Finished(s) /\ conns[s].phase # "sent"
    <3>1. history' = history /\ conns'[s].phase # "dropped"
      BY <2>2, <2>6 DEF Finished, Free
    <3>2. QED
      BY <2>2, <2>4, <2>6, <3>1 DEF Live
  <2>7. ASSUME NEW t \in Slots, Timeout(s, t)
        PROVE  /\ conns'[s].phase = "dropped"
               /\ \E earlier \in Failures \cup {Untold} :
                      history'[s].told = [earlier EXCEPT !["timeout"] = 1]
    <3>1. Emit(s, "timeout", NoData, 1) /\ conns'[s].phase = "dropped"
      BY <2>1, <2>2, <2>7 DEF Timeout, Connection
    <3>2. history'[s].told = [history[s].told EXCEPT !["timeout"] = @ + 1]
      BY <2>2, <3>1, Emitting
    <3>3. history[s].told \in Failures \cup {Untold}
      BY <2>2, <2>3, <2>4 DEF Live
    <3>4. QED
      BY <3>1, <3>2, <3>3, Counting
  <2>8. QED
    BY <1>2, <2>1, <2>5, <2>6, <2>7, EndsByItself
<1>3. ClientInductive /\ [ClientNext]_clientVars => [CompletesOwn /\ TellsAlone]_clientVars
  BY <1>1, <1>2
<1>4. QED
  BY <1>3, ClientSafe, PTL DEF ClientSpec, SignalsAreRight

-----------------------------------------------------------------------------
(* What the two users of the client below do to a request that ends. *)

\* The other requests are not touched, and the client's options stay.
LEMMA OneEnds ==
    ASSUME ClientInductive, NEW s \in Slots,
           \/ Finished(s)
           \/ NetworkError(s, FALSE)
           \/ Timeout(s, s) /\ ~conns[s].retry
    PROVE  /\ ClientInductive'
           /\ opts' = opts
           /\ \A t \in Slots : t # s => conns'[t] = conns[t] /\ history'[t] = history[t]
           /\ Live(conns'[s]) => /\ Live(conns[s])
                                 /\ conns'[s] = [conns[s] EXCEPT !.phase = "failed"]
           /\ conns'[s].phase # "sent"
           /\ history'[s].who = history[s].who /\ history'[s].alone = history[s].alone
<1>1. /\ conns[s] \in Connection /\ history[s] \in History
      /\ entries[s] = "conn" <=> Live(conns[s])
  BY DEF ClientInductive
<1>2. CASE Finished(s)
  <2>1. CASE entries[s] # "conn"
    BY <1>1, <1>2, <2>1, FinishedStep DEF Finished, Live
  <2>2. CASE entries[s] = "conn"
    <3>1. /\ conns' = [conns EXCEPT ![s] = Free] /\ opts' = opts
          /\ history' = history \/ Emit(s, "complete", conns[s].data, 1)
      BY <1>2, <2>2 DEF Finished
    <3>2. history \in [Slots -> History] /\ conns[s].data \in Data /\ "complete" \in Kinds
      BY <1>1 DEF ClientInductive, Kinds, Connection
    <3>3. /\ \A t \in Slots : t # s => history'[t] = history[t]
          /\ history'[s].who = history[s].who /\ history'[s].alone = history[s].alone
      BY <3>1, <3>2, Emitting
    <3>4. QED
      BY <1>1, <1>2, <3>1, <3>3, FinishedStep DEF Free, Live, ClientInductive
  <2>3. QED
    BY <2>1, <2>2
<1>3. CASE NetworkError(s, FALSE)
  <2>1. CASE entries[s] # "conn"
    BY <1>1, <1>3, <2>1, NetworkErrorStep DEF NetworkError, Live
  <2>2. CASE entries[s] = "conn"
    <3>1. /\ conns' = [conns EXCEPT ![s] = [conns[s] EXCEPT !.phase = "failed"]]
          /\ Emit(s, "network", conns[s].data, 1)
          /\ opts' = opts
      BY <1>3, <2>2 DEF NetworkError, ClientInductive
    <3>2. conns'[s] = [conns[s] EXCEPT !.phase = "failed"] /\ conns'[s].phase = "failed"
      BY <1>1, <3>1 DEF ClientInductive, Connection
    <3>3. history \in [Slots -> History] /\ conns[s].data \in Data /\ "network" \in Kinds
      BY <1>1 DEF ClientInductive, Kinds, Connection
    <3>4. /\ history'[s].who = history[s].who /\ history'[s].alone = history[s].alone
          /\ \A t \in Slots : t # s => history'[t] = history[t]
      BY <3>1, <3>3, Emitting
    <3>5. QED
      BY <1>1, <1>3, <2>2, <3>1, <3>2, <3>4, NetworkErrorStep DEF ClientInductive
  <2>3. QED
    BY <2>1, <2>2
<1>4. CASE Timeout(s, s) /\ ~conns[s].retry
  <2> DEFINE c == [conns[s] EXCEPT !.phase = "dropped", !.timer = FALSE]
  <2>1. /\ conns' = [conns EXCEPT ![s] = c]
        /\ Emit(s, "timeout", NoData, 1)
        /\ opts' = opts
    BY <1>4 DEF Timeout, ClientInductive
  <2>2. conns'[s] = c /\ c.phase = "dropped"
    BY <1>1, <2>1 DEF ClientInductive, Connection
  <2>3. /\ history'[s].who = history[s].who /\ history'[s].alone = history[s].alone
        /\ \A t \in Slots : t # s => history'[t] = history[t]
    <3>1. history \in [Slots -> History] /\ NoData \in Data /\ "timeout" \in Kinds
      BY DEF ClientInductive, Kinds, Data
    <3>2. QED
      BY <2>1, <3>1, Emitting
  <2>4. QED
    BY <1>4, <2>1, <2>2, <2>3, TimeoutStep DEF Live, ClientInductive, Connection
<1>5. QED
  BY <1>2, <1>3, <1>4

\* The end of a request that has not failed yet is told at once.
LEMMA EndIsTold ==
    ASSUME ClientInductive, NEW s \in Slots
    PROVE  /\ conns[s].phase = "sent" /\ Finished(s) =>
                out' = <<Signal("complete", conns[s].data)>>
           /\ conns[s].phase = "sent" /\ NetworkError(s, FALSE) =>
                out' = <<Signal("network", conns[s].data)>>
           /\ ~conns[s].retry /\ Timeout(s, s) => out' = <<Signal("timeout", NoData)>>
           /\ conns[s].phase # "sent" /\ Finished(s) => out' = <<>>
<1>1. entries[s] = "conn" <=> Live(conns[s])
  BY DEF ClientInductive
<1>2. QED
  <2>1. \A kind \in Kinds, data \in Data : Emit(s, kind, data, 1) => out' = <<Signal(kind, data)>>
    BY DEF Emit
  <2>2. QED
    BY <1>1, <2>1 DEF Live, Finished, NetworkError, Timeout, Kinds, Data, ClientInductive, Connection

\* A request that is sent is the only one that changes.
LEMMA OneIsSent ==
    ASSUME ClientInductive, NEW s \in Slots, NEW who \in Users, NEW data \in {who, NoData},
           SendAt(s, who, data, conns), entries' = [entries EXCEPT ![s] = "conn"],
           out' = <<>>, opts' = opts
    PROVE  /\ ClientInductive'
           /\ ~Live(conns[s])
           /\ \A t \in Slots : t # s => conns'[t] = conns[t]
           /\ conns'[s].phase = "sent" /\ conns'[s].data = data
           /\ conns'[s].timer = opts.timeout /\ conns'[s].retry = opts.retry
           /\ history'[s].who = who
           /\ \A t \in Slots : t # s /\ Live(conns[t]) =>
                history'[t].who = history[t].who /\ ~history'[t].alone
<1>1. ~Live(conns[s]) /\ who \in Data /\ conns \in [Slots -> Connection]
  BY DEF SendAt, Live, Data, ClientInductive
<1>2. /\ entries' \in [Slots -> Entries] /\ entries'[s] = "conn"
      /\ \A t \in Slots \ {s} : entries'[t] = "conn" <=> Live(conns[t])
      /\ OutType'
  BY DEF ClientInductive, Entries, OutType
<1>3. ClientInductive'
  BY <1>1, <1>2, Sending
<1>4. /\ \A t \in Slots : t # s => conns'[t] = conns[t]
      /\ conns'[s].phase = "sent" /\ conns'[s].data = data
      /\ conns'[s].timer = opts.timeout /\ conns'[s].retry = opts.retry
      /\ history'[s].who = who
  BY <1>1 DEF SendAt, Free
<1>5. ASSUME NEW t \in Slots, t # s, Live(conns[t])
      PROVE  history'[t].who = history[t].who /\ ~history'[t].alone
  <2>1. history'[t] = [history[t] EXCEPT !.alone = FALSE] /\ history[t] \in History
    BY <1>5 DEF SendAt, Live, ClientInductive
  <2>2. QED
    BY <2>1 DEF History
<1>6. QED
  BY <1>1, <1>3, <1>4, <1>5

-----------------------------------------------------------------------------
(* The objects of the API. *)

\* A request in flight has, where its answer will look for it, the type that it
\* was made with; in SetupApi only if no other came between.
Asked ==
    /\ api \in [class : Classes, msgType : Data]
    /\ \A s \in Slots : Live(conns[s]) =>
        /\ api.class = "config" => conns[s].data = history[s].who
        /\ api.class = "setup" /\ history[s].alone => api.msgType = history[s].who
        /\ api.class = "single" => api.msgType = TheType /\ history[s].who = TheType

ApiInductive == ClientInductive /\ Asked

LEMMA RequestStep ==
    ASSUME ApiInductive, NEW s \in Slots, NEW type \in Users, Request(s, type)
    PROVE  ApiInductive'
<1>1. PICK data \in {type, NoData} :
         /\ SendAt(s, type, data, conns)
         /\ entries' = [entries EXCEPT ![s] = "conn"] /\ out' = <<>> /\ opts' = opts
         /\ api' = [api EXCEPT !.msgType = type]
         /\ api.class = "single" => type = TheType
         /\ api.class = "config" => data = type
  BY DEF Request
<1>2. /\ ClientInductive'
      /\ \A t \in Slots : t # s => conns'[t] = conns[t]
      /\ conns'[s].data = data
      /\ history'[s].who = type
      /\ \A t \in Slots : t # s /\ Live(conns[t]) =>
           history'[t].who = history[t].who /\ ~history'[t].alone
  <2>1. ClientInductive /\ opts' = opts
    BY <1>1 DEF ApiInductive
  <2>2. QED
    BY <1>1, <2>1, OneIsSent
<1>3. /\ api' \in [class : Classes, msgType : Data]
      /\ api'.class = api.class /\ api'.msgType = type
  BY <1>1 DEF ApiInductive, Asked, Data
<1>4. ASSUME NEW t \in Slots, Live(conns'[t])
      PROVE  /\ api'.class = "config" => conns'[t].data = history'[t].who
             /\ api'.class = "setup" /\ history'[t].alone => api'.msgType = history'[t].who
             /\ api'.class = "single" => api'.msgType = TheType /\ history'[t].who = TheType
  <2>1. CASE t = s
    BY <1>1, <1>2, <1>3, <2>1
  <2>2. CASE t # s
    BY <1>1, <1>2, <1>3, <1>4, <2>2 DEF ApiInductive, Asked
  <2>3. QED
    BY <2>1, <2>2
<1>5. QED
  BY <1>2, <1>3, <1>4 DEF ApiInductive, Asked

LEMMA AnsweredStep ==
    ASSUME ApiInductive, NEW s \in Slots, Answered(s) \/ Misunderstood(s)
    PROVE  ApiInductive'
<1>1. (Finished(s) \/ NetworkError(s, FALSE)) /\ api' = api
  BY DEF Answered, Misunderstood
<1>2. /\ ClientInductive'
      /\ \A t \in Slots : t # s => conns'[t] = conns[t] /\ history'[t] = history[t]
      /\ Live(conns'[s]) => /\ Live(conns[s])
                            /\ conns'[s] = [conns[s] EXCEPT !.phase = "failed"]
      /\ history'[s].who = history[s].who /\ history'[s].alone = history[s].alone
  BY <1>1, OneEnds DEF ApiInductive
<1>3. Live(conns'[s]) => conns'[s].data = conns[s].data
  BY <1>2 DEF ApiInductive, ClientInductive, Connection
<1>4. QED
  BY <1>1, <1>2, <1>3 DEF ApiInductive, Asked

LEMMA ApiStarts == ApiInit => ApiInductive
<1>1. ApiInit => ClientInductive
  BY Construction DEF ApiInit
<1>2. ApiInit => Asked
  BY DEF ApiInit, Constructed, Asked, Data, Free, Live
<1>3. QED
  BY <1>1, <1>2 DEF ApiInductive

LEMMA ApiStep == ApiInductive /\ [ApiNext]_apiVars => ApiInductive'
<1>1. ApiInductive /\ UNCHANGED apiVars => ApiInductive'
  <2>1. SUFFICES ASSUME ApiInductive, UNCHANGED apiVars
                 PROVE  ApiInductive'
    OBVIOUS
  <2>2. ClientInductive'
    BY <2>1, NobodyMoves DEF apiVars, clientVars, ApiInductive, ClientInductive, OutType
  <2>3. QED
    BY <2>1, <2>2 DEF apiVars, clientVars, ApiInductive, Asked
<1>2. QED
  BY <1>1, RequestStep, AnsweredStep DEF ApiNext

LEMMA ApiSafe == ApiSpec => []ApiInductive
BY ApiStarts, ApiStep, PTL DEF ApiSpec

\* Whatever requests of an API object overlap and fail: each is reported once,
\* when it ends, and as what was asked, with the exceptions of ReportsAreAsked.
THEOREM ReportsAreRight == ApiSpec => ReportsAreAsked
<1> DEFINE Right ==
        /\ \A i \in DOMAIN reports' : \E s \in Slots :
            /\ Over(s)
            /\ \/ reports'[i] = history[s].who
               \/ api.class = "setup" /\ ~history[s].alone
        /\ \A s \in Slots : Over(s) =>
            \/ Len(reports') = 1
            \/ \E t \in Slots : Misunderstood(t)
<1>1. ASSUME ApiInductive, NEW s \in Slots, NEW type \in Users, Request(s, type)
      PROVE  Right
  <2>1. reports' = <<>> /\ \A t \in Slots : ~Over(t)
    BY <1>1 DEF Request, SendAt, Over, ApiInductive, ClientInductive, Free
  <2>2. QED
    BY <2>1
<1>2. ASSUME ApiInductive, NEW s \in Slots, Misunderstood(s)
      PROVE  Right
  <2>1. reports' = <<>>
    BY <1>2 DEF Misunderstood
  <2>2. QED
    BY <1>2, <2>1
<1>3. ASSUME ApiInductive, NEW s \in Slots, Answered(s)
      PROVE  Right
  <2>1. /\ \A t \in Slots : t # s => conns'[t] = conns[t]
        /\ conns'[s].phase # "sent"
    BY <1>3, OneEnds DEF Answered, ApiInductive
  <2>2. CASE conns[s].phase = "sent"
    <3>1. PICK kind : out' = <<Signal(kind, conns[s].data)>>
      BY <1>3, <2>2, EndIsTold DEF Answered, ApiInductive
    <3>2. Over(s) /\ Live(conns[s])
      BY <2>1, <2>2 DEF Over, Live
    <3>3. reports' = Reported(out')
      BY <1>3 DEF Answered
    <3>4. /\ Len(reports') = 1 /\ DOMAIN reports' = {1}
          /\ reports'[1] = IF api.class = "config" THEN conns[s].data ELSE api.msgType
      BY <3>1, <3>3 DEF Reported, Signal
    <3>5. api.class \in {"setup", "config", "single"}
      BY <1>3 DEF ApiInductive, Asked, Classes
    <3>6. reports'[1] = history[s].who \/ (api.class = "setup" /\ ~history[s].alone)
      BY <1>3, <3>2, <3>4, <3>5 DEF ApiInductive, Asked
    <3>7. QED
      BY <3>2, <3>4, <3>6
  <2>3. CASE conns[s].phase # "sent"
    <3>1. \A t \in Slots : ~Over(t)
      BY <2>1, <2>3 DEF Over
    <3>2. out' = <<>>
      BY <1>3, <2>3, EndIsTold DEF Answered, NetworkError, ApiInductive, ClientInductive, Live
    <3>3. reports' = <<>>
      BY <1>3, <3>2 DEF Answered, Reported
    <3>4. QED
      BY <3>1, <3>3
  <2>4. QED
    BY <2>2, <2>3
<1>4. ApiInductive /\ [ApiNext]_apiVars => [ApiNext => Right]_apiVars
  BY <1>1, <1>2, <1>3 DEF ApiNext
<1>5. QED
  BY <1>4, ApiSafe, PTL DEF ApiSpec, ReportsAreAsked

-----------------------------------------------------------------------------
(* The watchdog. *)

\* It asks once in an interval, so no two requests in flight have the same age,
\* and each will time out.
Requests ==
    /\ opts.timeout /\ ~opts.retry
    /\ \A s \in Slots : Live(conns[s]) => conns[s].timer /\ ~conns[s].retry
    /\ \A s, t \in Slots : Live(conns[s]) /\ Live(conns[t]) /\ age[s] = age[t] => s = t
    /\ wd.due => \A s \in Slots : Live(conns[s]) => age[s] > 0

\* A watchdog that has not told Core in vain does not believe the application
\* to be down.
Hopeful == wd.running /\ excuse = "none" => wd.state # "down"

\* While it hopes, the first request since the application fell silent is still
\* under way, or about to be sent.
Informed ==
    /\ app.st = "alive" => silent = 0
    /\ wd.running /\ excuse = "none" /\ silent > 0 =>
        \/ silent = 1 /\ wd.due
        \/ \E s \in Slots : conns[s].phase = "sent" /\ age[s] = silent - 1

\* If the application has been well, whoever asked it will be answered.
Calm ==
    ~trouble =>
        /\ Well
        /\ \A s \in Slots : Live(conns[s]) =>
            conns[s].phase = "sent" /\ link[s] = "open" /\ age[s] = 0

WatchInductive ==
    ClientInductive /\ WatchTypeOK /\ Requests /\ Hopeful /\ Informed /\ Calm

\* What the slot for the signals does with them: an error that is not told in
\* vain stops the watchdog.
LEMMA Hearing ==
    ASSUME WatchTypeOK, Hopeful, Hear(out'), UNCHANGED <<url, app, link, age, silent, trouble>>
    PROVE  /\ WatchTypeOK' /\ Hopeful'
           /\ wd'.due => wd.due
           /\ wd'.running => wd.running /\ (wd'.due <=> wd.due)
           /\ /\ DOMAIN out' # {}
              /\ \A i \in DOMAIN out' : out'[i].kind # "complete"
              /\ wd'.running
              => excuse' # "none"
           /\ DOMAIN out' = {} => UNCHANGED <<wd, core, excuse>>
           /\ wd'.state = "down" /\ wd.state # "down" =>
                \E i \in DOMAIN out' : out'[i].kind # "complete"
<1> DEFINE WdType == [running : BOOLEAN, state : {"unknown", "up", "down"}, due : BOOLEAN]
           CoreType == [st : {"idle", "waiting", "on", "stopping"}, busy : BOOLEAN]
<1>1. wd \in WdType /\ core \in CoreType /\ excuse \in {"none", "startedDown", "refused"}
  BY DEF WatchTypeOK
<1>2. CASE /\ \E i \in DOMAIN out' : out'[i].kind # "complete"
           /\ wd.state # "down"
           /\ IF StopsCore
              THEN /\ wd' = [running |-> FALSE, state |-> "down", due |-> FALSE]
                   /\ core' = [st |-> "stopping", busy |-> TRUE]
                   /\ UNCHANGED excuse
              ELSE /\ wd' = [wd EXCEPT !.state = "down"]
                   /\ excuse' = "refused"
                   /\ UNCHANGED core
  <2>1. CASE StopsCore
    <3>1. /\ wd' = [running |-> FALSE, state |-> "down", due |-> FALSE]
          /\ core' = [st |-> "stopping", busy |-> TRUE] /\ excuse' = excuse
      BY <1>2, <2>1
    <3>2. wd' \in WdType /\ core' \in CoreType /\ ~wd'.running /\ ~wd'.due
      BY <3>1
    <3>3. QED
      BY <1>1, <1>2, <3>1, <3>2 DEF WatchTypeOK, Hopeful
  <2>2. CASE ~StopsCore
    <3>1. wd' = [wd EXCEPT !.state = "down"] /\ core' = core /\ excuse' = "refused"
      BY <1>2, <2>2
    <3>2. wd' \in WdType /\ wd'.running = wd.running /\ wd'.due = wd.due
      BY <1>1, <3>1
    <3>3. QED
      BY <1>1, <1>2, <3>1, <3>2 DEF WatchTypeOK, Hopeful
  <2>3. QED
    BY <2>1, <2>2
<1>3. CASE /\ \E i \in DOMAIN out' : out'[i].kind = "complete"
           /\ wd' = [wd EXCEPT !.state = "up"]
           /\ excuse' = "none"
           /\ UNCHANGED core
  <2>1. wd' \in WdType /\ wd'.state = "up" /\ wd'.running = wd.running /\ wd'.due = wd.due
    BY <1>1, <1>3
  <2>2. QED
    BY <1>1, <1>3, <2>1 DEF WatchTypeOK, Hopeful
<1>4. CASE /\ \A i \in DOMAIN out' : out'[i].kind # "complete" /\ wd.state = "down"
           /\ UNCHANGED <<wd, core, excuse>>
  BY <1>4 DEF WatchTypeOK, Hopeful
<1>5. QED
  BY <1>2, <1>3, <1>4 DEF Hear

\* A request ends: with an answer, because nobody listens, or by its timeout.
LEMMA EndStep ==
    ASSUME WatchInductive, NEW s \in Slots, Answer(s) \/ Refused(s) \/ GiveUp(s)
    PROVE  /\ WatchInductive'
           /\ wd'.state = "down" /\ wd.state # "down" => trouble
<1>1. /\ ClientInductive /\ WatchTypeOK /\ Requests /\ Hopeful /\ Informed /\ Calm
      /\ Hear(out') /\ UNCHANGED <<url, app, link, age, silent, trouble>>
  BY DEF WatchInductive, Answer, Refused, GiveUp
<1>2. /\ WatchTypeOK' /\ Hopeful'
      /\ wd'.due => wd.due
      /\ wd'.running => wd.running /\ (wd'.due <=> wd.due)
      /\ /\ DOMAIN out' # {}
         /\ \A i \in DOMAIN out' : out'[i].kind # "complete"
         /\ wd'.running
         => excuse' # "none"
      /\ DOMAIN out' = {} => UNCHANGED <<wd, core, excuse>>
      /\ wd'.state = "down" /\ wd.state # "down" =>
           \E i \in DOMAIN out' : out'[i].kind # "complete"
  BY <1>1, Hearing
<1>3. ASSUME GiveUp(s)
      PROVE  Timeout(s, s) /\ Live(conns[s]) /\ ~conns[s].retry /\ age[s] = TimeoutTicks
  BY <1>1, <1>3 DEF GiveUp, Timeout, InFlight, Live, Requests
<1>4. \/ Finished(s)
      \/ NetworkError(s, FALSE)
      \/ Timeout(s, s) /\ ~conns[s].retry
  BY <1>3 DEF Answer, Refused
<1>5. /\ ClientInductive' /\ opts' = opts
      /\ \A t \in Slots : t # s => conns'[t] = conns[t]
      /\ Live(conns'[s]) => /\ Live(conns[s])
                            /\ conns'[s] = [conns[s] EXCEPT !.phase = "failed"]
      /\ conns'[s].phase # "sent"
  BY <1>1, <1>4, OneEnds
<1>6. Live(conns'[s]) => /\ conns'[s].timer = conns[s].timer
                        /\ conns'[s].retry = conns[s].retry
  BY <1>1, <1>5 DEF ClientInductive, Connection
<1>7. Requests'
  BY <1>1, <1>2, <1>5, <1>6 DEF Requests
<1>8. \/ Answer(s) /\ \A i \in DOMAIN out' : out'[i].kind = "complete"
      \/ /\ ~trouble => FALSE
         /\ DOMAIN out' # {} /\ \A i \in DOMAIN out' : out'[i].kind # "complete"
      \/ Refused(s) /\ conns[s].phase = "failed" /\ DOMAIN out' = {}
  <2>1. CASE Answer(s)
    <3>1. out' = <<Signal("complete", conns[s].data)>>
      BY <1>1, <2>1, EndIsTold DEF Answer
    <3>2. QED
      BY <2>1, <3>1 DEF Signal
  <2>2. CASE Refused(s) /\ conns[s].phase = "sent"
    <3>1. out' = <<Signal("network", conns[s].data)>>
      BY <1>1, <2>2, EndIsTold DEF Refused
    <3>2. trouble
      BY <1>1, <2>2 DEF Refused, Calm, Live
    <3>3. QED
      BY <3>1, <3>2 DEF Signal
  <2>3. CASE Refused(s) /\ conns[s].phase = "failed"
    <3>1. out' = <<>>
      BY <1>1, <2>3, EndIsTold DEF Refused, NetworkError
    <3>2. QED
      BY <2>3, <3>1
  <2>4. CASE GiveUp(s)
    <3>1. out' = <<Signal("timeout", NoData)>>
      BY <1>1, <1>3, <2>4, EndIsTold
    <3>2. trouble
      BY <1>1, <1>3, <2>4, WatchdogAssumption DEF Calm
    <3>3. QED
      BY <3>1, <3>2 DEF Signal
  <2>5. QED
    BY <2>1, <2>2, <2>3, <2>4 DEF Refused
<1>9. Informed'
  <2>1. CASE Answer(s)
    BY <1>1, <2>1 DEF Answer, Informed
  <2>2. CASE DOMAIN out' # {} /\ \A i \in DOMAIN out' : out'[i].kind # "complete"
    BY <1>1, <1>2, <2>2 DEF Informed
  <2>3. CASE conns[s].phase = "failed" /\ DOMAIN out' = {}
    <3>1. UNCHANGED <<wd, excuse>>
      BY <1>2, <2>3
    <3>2. ASSUME NEW t \in Slots, conns[t].phase = "sent"
          PROVE  conns'[t].phase = "sent"
      BY <1>5, <2>3, <3>2
    <3>3. QED
      BY <1>1, <3>1, <3>2 DEF Informed
  <2>4. QED
    BY <1>8, <2>1, <2>2, <2>3
<1>10. Calm'
  <2>1. SUFFICES ASSUME ~trouble
                 PROVE  /\ Well
                        /\ \A t \in Slots : Live(conns'[t]) =>
                            conns'[t].phase = "sent" /\ link[t] = "open" /\ age[t] = 0
    BY <1>1 DEF Calm, Well
  <2>2. ~Live(conns'[s])
    <3>1. Live(conns[s]) => conns[s].phase = "sent" /\ link[s] = "open" /\ age[s] = 0
      BY <1>1, <2>1 DEF Calm
    <3>2. CASE Answer(s)
      BY <1>1, <3>2 DEF Answer, Finished, ClientInductive, Free, Live
    <3>3. ~Refused(s) \/ ~Live(conns[s])
      BY <3>1 DEF Refused
    <3>4. ~GiveUp(s)
      BY <1>3, <3>1, WatchdogAssumption
    <3>5. QED
      BY <1>5, <3>2, <3>3, <3>4
  <2>3. QED
    BY <1>1, <1>5, <2>1, <2>2 DEF Calm
<1>11. QED
  BY <1>2, <1>5, <1>7, <1>8, <1>9, <1>10 DEF WatchInductive

\* The watchdog asks.
LEMMA PollStep ==
    ASSUME WatchInductive, NEW s \in Slots, Poll(s)
    PROVE  WatchInductive'
<1>1. /\ ClientInductive /\ WatchTypeOK /\ Requests /\ Hopeful /\ Informed /\ Calm
      /\ wd.due
      /\ UNCHANGED <<core, url, app, silent, trouble, excuse>>
  BY DEF WatchInductive, Poll
<1>2. Poller \in Users
  BY WatchdogAssumption DEF Poller
<1>3. /\ SendAt(s, Poller, Poller, conns)
      /\ entries' = [entries EXCEPT ![s] = "conn"] /\ out' = <<>> /\ opts' = opts
  BY DEF Poll, Send
<1> HIDE DEF Poller
<1>4. /\ ClientInductive'
      /\ ~Live(conns[s])
      /\ \A t \in Slots : t # s => conns'[t] = conns[t]
      /\ conns'[s].phase = "sent" /\ conns'[s].timer = opts.timeout /\ conns'[s].retry = opts.retry
  BY <1>1, <1>2, <1>3, OneIsSent
<1>5. /\ wd' = [wd EXCEPT !.due = FALSE]
      /\ age' = [age EXCEPT ![s] = 0]
      /\ link' = [link EXCEPT ![s] = IF app.st # "dead" /\ app.port = url
                                     THEN "open" ELSE "refused"]
  BY DEF Poll
<1>6. WatchTypeOK'
  <2>1. wd' \in [running : BOOLEAN, state : {"unknown", "up", "down"}, due : BOOLEAN]
    BY <1>1, <1>5 DEF WatchTypeOK
  <2>2. 0 \in 0..TimeoutTicks
    BY WatchdogAssumption
  <2>3. /\ link' \in [Slots -> {"none", "open", "refused"}]
        /\ age' \in [Slots -> 0..TimeoutTicks]
    BY <1>1, <1>5, <2>2 DEF WatchTypeOK
  <2>4. QED
    BY <1>1, <2>1, <2>3 DEF WatchTypeOK
<1>7. /\ wd'.running = wd.running /\ wd'.state = wd.state /\ ~wd'.due
      /\ age'[s] = 0 /\ \A t \in Slots : t # s => age'[t] = age[t] /\ link'[t] = link[t]
      /\ Well => link'[s] = "open"
  BY <1>1, <1>5 DEF WatchTypeOK, Well
<1>8. Requests'
  <2>1. \A t \in Slots : Live(conns'[t]) => conns'[t].timer /\ ~conns'[t].retry
    BY <1>1, <1>4 DEF Requests
  <2>2. ASSUME NEW t \in Slots, t # s, Live(conns'[t])
        PROVE  Live(conns[t]) /\ age'[t] = age[t] /\ age'[t] # age'[s]
    BY <1>1, <1>4, <1>7, <2>2 DEF Requests
  <2>3. \A t, u \in Slots : Live(conns'[t]) /\ Live(conns'[u]) /\ age'[t] = age'[u] => t = u
    BY <1>1, <2>2 DEF Requests
  <2>4. QED
    BY <1>1, <1>3, <1>7, <2>1, <2>3 DEF Requests
<1>9. Hopeful'
  BY <1>1, <1>7 DEF Hopeful
<1>10. Informed'
  <2>1. SUFFICES ASSUME wd.running, excuse = "none", silent > 0
                 PROVE  \E t \in Slots : conns'[t].phase = "sent" /\ age'[t] = silent - 1
    BY <1>1, <1>7 DEF Informed
  <2>2. CASE silent = 1
    BY <1>4, <1>7, <2>2
  <2>3. ASSUME NEW t \in Slots, conns[t].phase = "sent", age[t] = silent - 1
        PROVE  conns'[t].phase = "sent" /\ age'[t] = silent - 1
    BY <1>4, <1>7, <2>3 DEF Live
  <2>4. QED
    BY <1>1, <2>1, <2>2, <2>3 DEF Informed
<1>11. Calm'
  BY <1>1, <1>4, <1>7 DEF Calm, Well
<1>12. QED
  BY <1>4, <1>6, <1>8, <1>9, <1>10, <1>11 DEF WatchInductive

\* An abandoned connection is deleted.
LEMMA DeferredStep ==
    ASSUME WatchInductive, NEW s \in Slots, Deferred(s)
    PROVE  WatchInductive'
<1>1. /\ Delete(s) /\ UNCHANGED watchVars /\ opts' = opts
      /\ conns[s].phase = "dropped" /\ ~Live(Free) /\ Free.phase = "free"
  BY DEF Deferred, Delete, Live, Free
<1>2. ClientInductive'
  BY <1>1, DeleteStep DEF WatchInductive
<1>3. conns'[s] = Free /\ \A t \in Slots : t # s => conns'[t] = conns[t]
  BY <1>1 DEF Delete, WatchInductive, ClientInductive
<1>4. WatchTypeOK' /\ Requests' /\ Hopeful'
  BY <1>1, <1>3 DEF WatchInductive, WatchTypeOK, Requests, Hopeful, watchVars
<1>5. Informed' /\ Calm'
  BY <1>1, <1>3 DEF WatchInductive, Informed, Calm, Well, watchVars
<1>6. QED
  BY <1>2, <1>4, <1>5 DEF WatchInductive

\* Core starts and stops the watchdog, or tells it where the application listens.
LEMMA CoreStep ==
    ASSUME WatchInductive, Start \/ DelayedStart \/ Stop \/ SetupStopped \/ ClientPort
    PROVE  WatchInductive' /\ (wd'.state = "down" => wd.state = "down")
<1>1. /\ UNCHANGED <<conns, entries, opts, sslError, userData, history, app, link, age, trouble>>
      /\ out' = <<>>
  BY DEF Start, DelayedStart, Stop, SetupStopped, ClientPort
<1>2. ClientInductive'
  BY <1>1, NobodyMoves DEF WatchInductive, ClientInductive, OutType
<1>3. /\ wd \in [running : BOOLEAN, state : {"unknown", "up", "down"}, due : BOOLEAN]
      /\ core \in [st : {"idle", "waiting", "on", "stopping"}, busy : BOOLEAN]
      /\ silent \in 0..TimeoutTicks + 2 /\ 0 \in 0..TimeoutTicks + 2
      /\ app \in [st : {"alive", "hung", "dead"}, port : Ports]
  BY WatchdogAssumption DEF WatchInductive, WatchTypeOK
<1>4. wd'.state = wd.state /\ (wd'.due => wd.due)
  BY <1>3 DEF Start, DelayedStart, Stop, SetupStopped, ClientPort, Started
<1>5. Requests'
  BY <1>1, <1>4 DEF WatchInductive, Requests
<1>6. Calm'
  BY <1>1 DEF WatchInductive, Calm, Well, Start, DelayedStart, Stop, SetupStopped, ClientPort, Started
<1>7. CASE Started /\ UNCHANGED url
  <2>1. wd' \in [running : BOOLEAN, state : {"unknown", "up", "down"}, due : BOOLEAN]
    BY <1>3, <1>7 DEF Started
  <2>2. WatchTypeOK'
    BY <1>1, <1>3, <1>7, <2>1 DEF WatchInductive, WatchTypeOK, Started
  <2>3. Hopeful' /\ Informed'
    BY <1>1, <1>3, <1>4, <1>7 DEF Hopeful, Informed, Started
  <2>4. QED
    BY <1>2, <1>4, <1>5, <1>6, <2>2, <2>3 DEF WatchInductive
<1>8. CASE /\ UNCHANGED <<wd, excuse, silent>>
           /\ core' \in [st : {"idle", "waiting", "on", "stopping"}, busy : BOOLEAN]
           /\ url' \in Ports \cup {NoPort}
  BY <1>1, <1>2, <1>4, <1>5, <1>6, <1>8
  DEF WatchInductive, WatchTypeOK, Hopeful, Informed
<1>9. CASE Stop
  <2>1. /\ wd' \in [running : BOOLEAN, state : {"unknown", "up", "down"}, due : BOOLEAN]
        /\ ~wd'.running /\ UNCHANGED <<url, silent, excuse>>
        /\ core' \in [st : {"idle", "waiting", "on", "stopping"}, busy : BOOLEAN]
    BY <1>3, <1>9 DEF Stop
  <2>2. QED
    BY <1>1, <1>2, <1>4, <1>5, <1>6, <2>1
    DEF WatchInductive, WatchTypeOK, Hopeful, Informed
<1>10. url \in Ports \cup {NoPort}
  BY DEF WatchInductive, WatchTypeOK
<1>11. CASE Start
  <2>1. UNCHANGED url
    BY <1>11 DEF Start
  <2>2. CASE Started
    BY <1>7, <2>1, <2>2
  <2>3. CASE core' = [st |-> "waiting", busy |-> TRUE] /\ UNCHANGED <<wd, excuse, silent>>
    BY <1>8, <1>10, <2>1, <2>3
  <2>4. CASE core' = [core EXCEPT !.busy = TRUE] /\ UNCHANGED <<wd, excuse, silent>>
    <3>1. core' \in [st : {"idle", "waiting", "on", "stopping"}, busy : BOOLEAN]
      BY <1>3, <2>4
    <3>2. QED
      BY <1>8, <1>10, <2>1, <2>4, <3>1
  <2>5. QED
    BY <1>11, <2>2, <2>3, <2>4 DEF Start
<1>12. CASE DelayedStart
  BY <1>7, <1>12 DEF DelayedStart
<1>13. CASE SetupStopped
  BY <1>3, <1>8, <1>10, <1>13 DEF SetupStopped
<1>14. CASE ClientPort
  BY <1>3, <1>8, <1>14 DEF ClientPort
<1>15. QED
  BY <1>9, <1>11, <1>12, <1>13, <1>14

\* The application dies, hangs or comes back.
LEMMA AppStep ==
    ASSUME WatchInductive, NEW st \in {"alive", "hung", "dead"}, NEW port \in Ports,
           AppMoves(st, port)
    PROVE  WatchInductive'
<1>1. /\ UNCHANGED <<conns, entries, opts, sslError, userData, history, wd, core, url, age, excuse>>
      /\ out' = <<>> /\ trouble' = TRUE
      /\ app' = [st |-> st, port |-> port]
      /\ silent' = IF st = "alive" THEN 0 ELSE silent
      /\ link' = [s \in Slots |-> IF st = "dead" /\ link[s] = "open" THEN "refused" ELSE link[s]]
      /\ st = "hung" => app.st = "alive"
  BY DEF AppMoves
<1>2. ClientInductive'
  BY <1>1, NobodyMoves DEF WatchInductive, ClientInductive, OutType
<1>3. WatchTypeOK'
  <2>1. link' \in [Slots -> {"none", "open", "refused"}]
    BY <1>1 DEF WatchInductive, WatchTypeOK
  <2>2. silent' \in 0..TimeoutTicks + 2
    BY <1>1, WatchdogAssumption DEF WatchInductive, WatchTypeOK
  <2>3. QED
    BY <1>1, <2>1, <2>2 DEF WatchInductive, WatchTypeOK
<1>4. Requests' /\ Hopeful' /\ Informed' /\ Calm'
  BY <1>1 DEF WatchInductive, Requests, Hopeful, Informed, Calm
<1>5. QED
  BY <1>2, <1>3, <1>4 DEF WatchInductive

\* An interval passes: every request that is still under way becomes older.
LEMMA TickStep ==
    ASSUME WatchInductive, Tick
    PROVE  WatchInductive'
<1>1. /\ UNCHANGED <<conns, entries, opts, sslError, userData, history, core, url, app, excuse>>
      /\ out' = <<>> /\ ~wd.due
      /\ wd' = [wd EXCEPT !.due = wd.running]
      /\ age' = [s \in Slots |-> IF conns[s].phase = "sent" THEN age[s] + 1 ELSE 0]
      /\ link' = [s \in Slots |-> IF conns[s].phase = "sent" THEN link[s] ELSE "none"]
      /\ silent' = IF wd.running /\ app.st # "alive"
                   THEN IF silent > TimeoutTicks + 1 THEN silent ELSE silent + 1
                   ELSE 0
      /\ trouble' = ~Well
  BY DEF Tick
<1>2. ClientInductive'
  BY <1>1, NobodyMoves DEF WatchInductive, ClientInductive, OutType
<1>3. /\ WatchTypeOK /\ Requests /\ Hopeful /\ Informed /\ TimeoutTicks \in Nat
      /\ age \in [Slots -> 0..TimeoutTicks] /\ silent \in 0..TimeoutTicks + 2
  BY WatchdogAssumption DEF WatchInductive, WatchTypeOK
<1>4. ASSUME NEW s \in Slots, Live(conns[s])
      PROVE  /\ conns[s].phase = "sent" /\ app.st # "alive"
             /\ age[s] \in Nat /\ age[s] < TimeoutTicks /\ age'[s] = age[s] + 1
  BY <1>1, <1>3, <1>4 DEF Tick, Requests, Live
<1>5. WatchTypeOK'
  <2>1. ASSUME NEW s \in Slots
        PROVE  age'[s] \in 0..TimeoutTicks
    <3>1. CASE Live(conns[s])
      BY <1>3, <1>4, <3>1
    <3>2. CASE ~Live(conns[s])
      BY <1>1, <1>3, <3>2 DEF Live
    <3>3. QED
      BY <3>1, <3>2
  <2>2. age' \in [Slots -> 0..TimeoutTicks] /\ link' \in [Slots -> {"none", "open", "refused"}]
    BY <1>1, <1>3, <2>1 DEF WatchTypeOK
  <2>3. silent' \in 0..TimeoutTicks + 2
    BY <1>1, <1>3
  <2>4. wd' \in [running : BOOLEAN, state : {"unknown", "up", "down"}, due : BOOLEAN]
    BY <1>1, <1>3 DEF WatchTypeOK
  <2>5. trouble' \in BOOLEAN
    BY <1>1
  <2>6. QED
    BY <1>1, <1>3, <2>2, <2>3, <2>4, <2>5 DEF WatchTypeOK
<1>6. Requests'
  BY <1>1, <1>3, <1>4 DEF Requests
<1>7. wd'.running = wd.running /\ wd'.state = wd.state /\ wd'.due = wd.running
  BY <1>1, <1>3 DEF WatchTypeOK
<1>8. Hopeful'
  BY <1>1, <1>3, <1>7 DEF Hopeful
<1>9. Informed'
  <2>1. SUFFICES ASSUME wd.running, excuse = "none", app.st # "alive"
                 PROVE  \/ silent' = 1
                        \/ \E s \in Slots : conns[s].phase = "sent" /\ age'[s] = silent' - 1
    BY <1>1, <1>7 DEF Informed
  <2>2. CASE silent = 0
    BY <1>1, <1>3, <2>1, <2>2
  <2>3. CASE silent > 0
    <3>1. PICK s \in Slots : conns[s].phase = "sent" /\ age[s] = silent - 1
      BY <1>1, <1>3, <2>1, <2>3 DEF Informed
    <3>2. age[s] < TimeoutTicks /\ age'[s] = age[s] + 1
      BY <1>4, <3>1 DEF Live
    <3>3. silent' = silent + 1
      BY <1>1, <1>3, <2>1, <3>1, <3>2
    <3>4. QED
      BY <1>3, <3>1, <3>2, <3>3
  <2>4. QED
    BY <1>3, <2>2, <2>3
<1>10. Calm'
  BY <1>1, <1>4 DEF Calm, Well
<1>11. QED
  BY <1>2, <1>5, <1>6, <1>8, <1>9, <1>10 DEF WatchInductive

\* Every step keeps what is known of the watchdog.
LEMMA WatchStep == WatchInductive /\ [WatchNext]_watchdogVars => WatchInductive'
<1>1. ASSUME WatchInductive, UNCHANGED watchdogVars
      PROVE  WatchInductive'
  <2>1. ClientInductive'
    BY <1>1, NobodyMoves
    DEF watchdogVars, clientVars, WatchInductive, ClientInductive, OutType
  <2>2. WatchTypeOK' /\ Requests' /\ Hopeful'
    BY <1>1 DEF watchdogVars, watchVars, clientVars, WatchInductive, WatchTypeOK, Requests, Hopeful
  <2>3. Informed' /\ Calm'
    BY <1>1 DEF watchdogVars, watchVars, clientVars, WatchInductive, Informed, Calm, Well
  <2>4. QED
    BY <2>1, <2>2, <2>3 DEF WatchInductive
<1>2. QED
  BY <1>1, EndStep, PollStep, DeferredStep, CoreStep, AppStep, TickStep DEF WatchNext

LEMMA WatchStarts == WatchInit => WatchInductive
<1>1. SUFFICES ASSUME WatchInit
               PROVE  WatchInductive
  OBVIOUS
<1>2. Constructed(TRUE)
  BY <1>1 DEF WatchInit, ClientInit
<1>3. ClientInductive
  BY <1>2, Construction
<1>4. WatchTypeOK
  BY <1>1, WatchdogAssumption DEF WatchInit, WatchTypeOK
<1>5. Requests
  BY <1>1, <1>2 DEF WatchInit, Constructed, Requests, Live, Free
<1>6. Hopeful /\ Informed /\ Calm
  BY <1>1 DEF WatchInit, Hopeful, Informed, Calm
<1>7. QED
  BY <1>3, <1>4, <1>5, <1>6 DEF WatchInductive

LEMMA WatchSafe == WatchSpec => []WatchInductive
BY WatchStarts, WatchStep, PTL DEF WatchSpec

\* Requests have different ages, none above the timeout.
LEMMA RequestsAreFew == WatchInductive => RequestsAreBounded
<1>1. SUFFICES ASSUME WatchInductive
               PROVE  Cardinality(InFlight) <= TimeoutTicks + 1
  BY DEF RequestsAreBounded, WatchInductive
<1> DEFINE f == [s \in InFlight |-> age[s]]
<1>2. /\ \A s \in InFlight : age[s] \in 0..TimeoutTicks
      /\ \A s, t \in InFlight : age[s] = age[t] => s = t
  BY <1>1 DEF WatchInductive, WatchTypeOK, Requests, InFlight, Live
<1>3. f \in Injection(InFlight, 0..TimeoutTicks)
  BY <1>2 DEF Injection, IsInjective
<1>4. IsFiniteSet(0..TimeoutTicks) /\ Cardinality(0..TimeoutTicks) = TimeoutTicks + 1
  BY FS_Interval, WatchdogAssumption
<1>5. QED
  BY <1>3, <1>4, FS_Injection

\* However long the application hangs, and however often the service is started
\* and stopped meanwhile: no more requests are under way than the timeout has
\* intervals, and the one just sent, for they all have different ages.
THEOREM PollsAreBounded == WatchSpec => []RequestsAreBounded
BY RequestsAreFew, WatchSafe, PTL

\* A silence that lasts longer than the timeout is noticed, but for the two
\* excuses, for any timeout and whatever becomes of the application and Core.
THEOREM DeathsAreNoticed == WatchSpec => []DeathIsNoticed
<1>1. WatchInductive => DeathIsNoticed
  BY WatchdogAssumption DEF WatchInductive, WatchTypeOK, Informed, DeathIsNoticed
<1>2. QED
  BY <1>1, WatchSafe, PTL

\* No request that ends late can report an application that has been well.
THEOREM AlarmsAreJustified == WatchSpec => NoFalseAlarm
<1>1. ASSUME WatchInductive, [WatchNext]_watchdogVars
      PROVE  [wd'.state = "down" /\ wd.state # "down" => trouble]_watchdogVars
  <2>1. ASSUME NEW s \in Slots, Poll(s)
        PROVE  wd'.state = wd.state
    BY <1>1, <2>1 DEF Poll, WatchInductive, WatchTypeOK
  <2>2. ASSUME Tick
        PROVE  wd'.state = wd.state
    BY <1>1, <2>2 DEF Tick, WatchInductive, WatchTypeOK
  <2>3. ASSUME NEW s \in Slots, Deferred(s)
        PROVE  wd'.state = wd.state
    BY <2>3 DEF Deferred, watchVars
  <2>4. ASSUME NEW st, NEW port, AppMoves(st, port)
        PROVE  wd'.state = wd.state
    BY <2>4 DEF AppMoves
  <2>5. QED
    BY <1>1, <2>1, <2>2, <2>3, <2>4, EndStep, CoreStep DEF WatchNext
<1>2. WatchInductive /\ [WatchNext]_watchdogVars
      => [wd'.state = "down" /\ wd.state # "down" => trouble]_watchdogVars
  BY <1>1
<1>3. QED
  BY <1>2, WatchSafe, PTL DEF WatchSpec, NoFalseAlarm
=============================================================================
