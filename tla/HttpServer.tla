------------------------------ MODULE HttpServer ------------------------------
(***************************************************************************)
(* The API server: Server starts and stops the HttpServer that listens on  *)
(* the local host, and HttpServer puts together the requests that arrive   *)
(* in pieces on each connection and has each one handled.                  *)
(*                                                                         *)
(* Pieces are sequences of tokens: the request line, the Content-Length    *)
(* line, the empty line and parts of the content, which is compact JSON    *)
(* (no line ends, fewer than two blanks).                                  *)
(***************************************************************************)
EXTENDS Naturals, Sequences, FiniteSetsExt

CONSTANTS
    Sockets,        \* bound: addresses of QTcpSocket objects
    Shapes,         \* what requests look like: the lengths of parts of content
    MaxRequests,    \* bound: requests of one connection
    InitialPorts,   \* arguments of setInitialPort
    MaxAttaches     \* bound: starts that fail

PortMod == 65536

ASSUME HttpServerAssumption ==
    /\ MaxRequests \in Nat \ {0}
    /\ Shapes \subseteq Seq(Nat \ {0})
    /\ InitialPorts \subseteq 0..PortMod
    /\ MaxAttaches \in Nat

VARIABLES
    server,     \* Server's port and _running, HttpServer's socket, what was announced
    wire,       \* on each connection: the requests, and how much of them was read
    contexts,   \* _contexts at each address
    handled,    \* on each connection: what HttpHandler::handle has been given
    tidy        \* each piece so far was of one request, the first with its header

httpVars == <<server, wire, contexts, handled, tidy>>

MaxScanned == 10    \* MAX_ATTEMPTS
Ephemeral == 32768  \* the port the system chooses for port 0

-----------------------------------------------------------------------------
(* Requests. *)

LineSize == 20
EndSize == 2

\* The sums of the first so many lengths, and of all.
Sums(lengths) ==
    LET sum[k \in 0..Len(lengths)] == IF k = 0 THEN 0 ELSE sum[k - 1] + lengths[k]
    IN  sum

Sum(lengths) == Sums(lengths)[Len(lengths)]

Token(i, kind, size) == [of |-> i, kind |-> kind, size |-> size]

\* Request i of a connection; without content there is no Content-Length.
Tokens(i, shape) ==
    <<Token(i, "line", LineSize)>>
    \o (IF shape = <<>> THEN <<>> ELSE <<Token(i, "length", LineSize)>>)
    \o <<Token(i, "end", EndSize)>>
    \o [j \in DOMAIN shape |-> Token(i, "content", shape[j])]

\* The first so many requests, one after the other, and what is sent on c.
Streams(requests) ==
    LET sent[k \in 0..Len(requests)] ==
            IF k = 0 THEN <<>> ELSE sent[k - 1] \o Tokens(k, requests[k])
    IN  sent

Stream(c) == Streams(wire[c].requests)[Len(wire[c].requests)]

Bytes(tokens) == Sum([i \in DOMAIN tokens |-> tokens[i].size])

Positions(tokens, kind) == {i \in DOMAIN tokens : tokens[i].kind = kind}

\* HttpHeaders::decode fails when the first line has fewer than three fields.
Decodes(tokens) == tokens[1].kind = "line"

\* HttpHeaders::decode, getSize: without an empty line the position is -1, to
\* which the four bytes of two line ends are added.  (The line end before the
\* empty line counts as part of the line.)
HeaderSize(tokens) ==
    IF Positions(tokens, "end") = {} THEN 3
    ELSE Bytes(SubSeq(tokens, 1, Min(Positions(tokens, "end"))))

\* HttpHeaders::decode: of several Content-Length lines the last one counts,
\* whichever request it belongs to
ContentLength(c, tokens) ==
    IF Positions(tokens, "length") = {} THEN 0
    ELSE Sum(wire[c].requests[tokens[Max(Positions(tokens, "length"))].of])

Expected(c, tokens) == HeaderSize(tokens) + ContentLength(c, tokens)

\* HttpRequest::decode: the first line, and what follows the last line end
Decoded(tokens) ==
    LET lines == DOMAIN tokens \ Positions(tokens, "content")
    IN  [of |-> tokens[1].of, size |-> Bytes(SubSeq(tokens, Max(lines) + 1, Len(tokens)))]

-----------------------------------------------------------------------------
(* Server and HttpServer::start. *)

\* Server::setInitialPort, which lets 65536 pass, and the conversion to quint16
SetInitialPort(port) ==
    /\ server' = [server EXCEPT !.port = port]
    /\ UNCHANGED <<wire, contexts, handled, tidy>>

\* HttpServer::start: the first free port of ten; port 0 is always free and
\* stands for any port, but is announced as it is
Scans(port) ==
    LET tried(i) == (port + i) % PortMod
        zeros == {i \in 0..MaxScanned - 1 : tried(i) = 0}
        last == IF zeros = {} THEN MaxScanned - 1 ELSE Min(zeros)
    IN  {[bound |-> IF tried(i) = 0 THEN Ephemeral ELSE tried(i), announced |-> tried(i)] :
            i \in 0..last}

\* Server::start: once it has run it does nothing; otherwise Core is attached
\* before the server listens, and once more for every start that fails
ServerStart ==
    /\ ~server.running
    /\ \/ /\ \E scan \in Scans(server.port) :
            server' = [server EXCEPT !.running = TRUE, !.listening = TRUE, !.attached = @ + 1,
                                     !.bound = scan.bound, !.announced = scan.announced]
       \/ /\ \A i \in 0..MaxScanned - 1 : (server.port + i) % PortMod # 0
          /\ server.attached < MaxAttaches
          /\ server' = [server EXCEPT !.attached = @ + 1]
    /\ UNCHANGED <<wire, contexts, handled, tidy>>

\* Server::stop: connections go on, and the server still counts as running
ServerStop ==
    /\ server.running
    /\ server' = [server EXCEPT !.listening = FALSE]
    /\ UNCHANGED <<wire, contexts, handled, tidy>>

-----------------------------------------------------------------------------
(* Slots of HttpServer. *)

\* HttpServer::incomingConnection; what the client will send is chosen here
IncomingConnection(c, requests) ==
    /\ server.listening /\ ~wire[c].open
    /\ wire' = [wire EXCEPT ![c] = [open |-> TRUE, requests |-> requests, read |-> 0]]
    /\ handled' = [handled EXCEPT ![c] = <<>>]
    /\ tidy' = [tidy EXCEPT ![c] = TRUE]
    /\ UNCHANGED <<server, contexts>>

\* HttpServer::readyRead and handleMessage: a piece that does not start with a
\* request line is dropped if there is nothing to append it to; a request is
\* complete when its bytes are there
Read(c, piece) ==
    IF contexts[c].data = <<>> /\ ~Decodes(piece)
    THEN UNCHANGED <<contexts, handled>>
    ELSE LET data == contexts[c].data \o piece
             expected == IF contexts[c].data = <<>> THEN Expected(c, piece) ELSE contexts[c].expected
         IN  IF Bytes(data) >= expected
             THEN /\ contexts' = [contexts EXCEPT ![c] = [data |-> <<>>, expected |-> expected]]
                  /\ handled' = [handled EXCEPT ![c] = Append(@, Decoded(data))]
             ELSE /\ contexts' = [contexts EXCEPT ![c] = [data |-> data, expected |-> expected]]
                  /\ UNCHANGED handled

\* The piece is of the request that is being read, and has all of its header.
IsTidy(data, piece) ==
    /\ \A i \in DOMAIN piece : piece[i].of = Head(data \o piece).of
    /\ data = <<>> => Decodes(piece) /\ Positions(piece, "end") # {}

\* HttpServer::readyRead, for whatever piece the system has read by then
ReadyRead(c, n) ==
    /\ wire[c].open
    /\ wire[c].read + n <= Len(Stream(c))
    /\ LET piece == SubSeq(Stream(c), wire[c].read + 1, wire[c].read + n)
       IN  /\ Read(c, piece)
           /\ tidy' = [tidy EXCEPT ![c] = @ /\ IsTidy(contexts[c].data, piece)]
    /\ wire' = [wire EXCEPT ![c].read = @ + n]
    /\ UNCHANGED server

\* Mutant: a context survives its connection.
DisconnectedKept(c) ==
    /\ wire[c].open
    /\ wire' = [wire EXCEPT ![c].open = FALSE]
    /\ UNCHANGED <<server, contexts, handled, tidy>>

Unread == [data |-> <<>>, expected |-> 0]

\* HttpServer::disconnected, error: the address is free for another socket
Disconnected(c) ==
    /\ wire[c].open
    /\ wire' = [wire EXCEPT ![c] = [open |-> FALSE, requests |-> <<>>, read |-> 0]]
    /\ contexts' = [contexts EXCEPT ![c] = Unread]
    /\ handled' = [handled EXCEPT ![c] = <<>>]
    /\ tidy' = [tidy EXCEPT ![c] = TRUE]
    /\ UNCHANGED server

-----------------------------------------------------------------------------

\* Server::Server
ServerInit ==
    /\ server = [port |-> 4804, running |-> FALSE, listening |-> FALSE, attached |-> 0,
                 bound |-> 0, announced |-> 0]
    /\ wire = [c \in Sockets |-> [open |-> FALSE, requests |-> <<>>, read |-> 0]]
    /\ contexts = [c \in Sockets |-> Unread]
    /\ handled = [c \in Sockets |-> <<>>]
    /\ tidy = [c \in Sockets |-> TRUE]

ServerNext ==
    \/ \E port \in InitialPorts : SetInitialPort(port)
    \/ ServerStart \/ ServerStop
    \/ \E c \in Sockets :
        \/ \E k \in 1..MaxRequests : \E requests \in [1..k -> Shapes] : IncomingConnection(c, requests)
        \/ \E n \in 1..Len(Stream(c)) : ReadyRead(c, n)
        \/ Disconnected(c)

ServerSpec == ServerInit /\ [][ServerNext]_httpVars

-----------------------------------------------------------------------------
(* Properties. *)

ServerTypeOK ==
    /\ server \in [port : 0..PortMod, running : BOOLEAN, listening : BOOLEAN,
                   attached : 0..MaxAttaches + 1, bound : 0..PortMod - 1,
                   announced : 0..PortMod - 1]
    /\ \A c \in Sockets :
        /\ wire[c].read \in 0..Len(Stream(c))
        /\ contexts[c].expected \in Nat
    /\ tidy \in [Sockets -> BOOLEAN]

\* Clients that keep asking the port that was announced find the server, unless
\* the scan has come past the last port.
AnnouncedIsBound == server.listening => server.announced \in {server.bound, 0}

\* The requests of connection c that have been read to their end.
Complete(c) ==
    {i \in DOMAIN wire[c].requests : Len(Streams(wire[c].requests)[i]) <= wire[c].read}

\* However a connection is cut into pieces, no request is handled twice or for
\* another one; and if every request comes after the answer to the one before,
\* its header in one piece, each is handled once it is complete, and with all
\* of its content, whatever other connections had the address before.
HandledOnceAndWhole ==
    \A c \in Sockets :
        /\ \A i, j \in DOMAIN handled[c] : i < j => handled[c][i].of < handled[c][j].of
        /\ tidy[c] => handled[c] = [i \in Complete(c) |->
                                        [of |-> i, size |-> Sum(wire[c].requests[i])]]
=============================================================================
