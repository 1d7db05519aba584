----------------------------- MODULE Lab1Proofs -----------------------------
(***************************************************************************)
(* Theorems about Lab1, for any number of clients, any requests and paths, *)
(* and any limit of golimit:                                               *)
(*   - a client of the server that only got files and listings takes every *)
(*     answer for the one to its own request (HttpServer's KeepsStep);     *)
(*   - the proxy ends only by how a client arrives (Proxy's                *)
(*     EndsOnlyOnArrival).                                                 *)
(***************************************************************************)
EXTENDS Lab1, TLAPS

(* A message: the head of a request or of a response, or a body. *)
Msgs == [kind : {"head", "body"}, is : Requests \cup Nat]

(* The types that the argument needs. *)
ServerTypeOK ==
  /\ up \in BOOLEAN
  /\ conn \in [Clients -> {None, "queued", "held", "open", "closed"}]
  /\ handler \in [Clients -> {None, "read", "bad", "stat", "create", "body", "head", "tail"}]
  /\ client \in [Clients -> {"away", "ready", "sending", "waiting", "body", "gone", "failed"}]
  /\ code \in [Clients -> Nat]
  /\ asked \in [Clients -> Requests \cup {NoRequest}]
  /\ held \in [Clients -> BOOLEAN]
  /\ plain \in [Clients -> BOOLEAN]
  /\ toServer \in [Clients -> Seq(Msgs)]
  /\ toClient \in [Clients -> Seq(Msgs)]

----------------------------------------------------------------------------
(* How far a request is.  One client's request, its two wires and the      *)
(* handler of its connection move together; the other clients only share   *)
(* the accept loop, the places of golimit and the files.                   *)

IsHead(q) == q[1].kind = "head"
IsBody(q, i) == q[i].kind = "body"

(* Of a request that the server has read, nothing is on the way any more,  *)
(* except for the body of a POST that the server's reader did not get.     *)
Rest(c) ==
  \/ Len(toServer[c]) = 0
  \/ /\ Len(toServer[c]) = 1
     /\ IsBody(toServer[c], 1)
     /\ asked[c].method = "POST"
     /\ client[c] = "waiting"

(* The server has not read the request. *)
Unread(c) ==
  /\ Len(toClient[c]) = 0
  /\ handler[c] \in {None, "read"}
  /\ conn[c] # "closed"
  /\ IsHead(toServer[c])
  /\ \/ Len(toServer[c]) = 1
     \/ /\ Len(toServer[c]) = 2
        /\ IsBody(toServer[c], 2)
        /\ asked[c].method = "POST"
        /\ client[c] = "waiting"

(* The handler is at it, and has written nothing yet. *)
Working(c) ==
  /\ Len(toClient[c]) = 0
  /\ handler[c] \in {"stat", "create", "body", "head"}
  /\ Rest(c)

(* The handler has written the head of the response. *)
Half(c) ==
  /\ Len(toClient[c]) = 1
  /\ IsHead(toClient[c])
  /\ handler[c] = "tail"
  /\ Rest(c)

(* The response is written.  The handler then reads the next request; the  *)
(* rest of a POST is no request, and the connection is closed.             *)
Done(c) ==
  /\ Len(toClient[c]) = 2
  /\ IsHead(toClient[c])
  /\ IsBody(toClient[c], 2)
  /\ handler[c] \in {None, "read", "bad"}
  /\ handler[c] = None => conn[c] = "closed"
  /\ asked[c].method # "POST" => handler[c] = "read"
  /\ Rest(c)

Asking(c) ==
  /\ client[c] = "sending" => asked[c].method = "POST"
  /\ Unread(c) \/ Working(c) \/ Half(c) \/ Done(c)

(* The client has read the head of a file or a listing: the body is still  *)
(* to be written, on the way, or in its reader.                            *)
Reading(c) ==
  /\ Len(toServer[c]) = 0
  /\ \/ handler[c] = "tail" /\ ~held[c] /\ Len(toClient[c]) = 0
     \/ handler[c] = "read" /\ ~held[c] /\ Len(toClient[c]) = 1 /\ IsBody(toClient[c], 1)
     \/ handler[c] = "read" /\ held[c] /\ Len(toClient[c]) = 0

(* A client between two requests has nothing on the way. *)
Idle(c) ==
  /\ Len(toServer[c]) = 0
  /\ Len(toClient[c]) = 0
  /\ handler[c] \in {None, "read"}
  /\ conn[c] # "closed"

InStep(c) ==
  /\ client[c] \in {"away", "ready", "sending", "waiting", "body", "gone"}
  /\ client[c] \in {"away", "ready"} => Idle(c)
  /\ client[c] \in {"sending", "waiting"} => Asking(c)
  /\ client[c] = "body" => Reading(c)

(* A connection is open while it has a handler. *)
ConnOK(c) ==
  /\ handler[c] # None <=> conn[c] = "open"
  /\ client[c] = "away" => conn[c] = None

ClientOK(c) == up => ConnOK(c) /\ (plain[c] => InStep(c))

(* The accepted connection waits for its place. *)
LoopOK == up /\ loop # Nobody => loop \in Clients /\ conn[loop] = "held"

ServerInv == ServerTypeOK /\ LoopOK /\ \A c \in Clients : ClientOK(c)

----------------------------------------------------------------------------
(* What a step leaves to the others *)

Same(d) ==
  /\ conn'[d] = conn[d]
  /\ handler'[d] = handler[d]
  /\ client'[d] = client[d]
  /\ asked'[d] = asked[d]
  /\ held'[d] = held[d]
  /\ plain'[d] = plain[d]
  /\ toServer'[d] = toServer[d]
  /\ toClient'[d] = toClient[d]

(* A step that touches nothing of a client keeps what holds of it. *)
LEMMA SameKept ==
  ASSUME NEW d \in Clients, ClientOK(d), Same(d), up' => up
  PROVE  ClientOK(d)'
<1>1. (Rest(d) => Rest(d)') /\ (Idle(d) => Idle(d)')
  BY DEF Same, Rest, Idle, IsBody
<1>2. (Unread(d) => Unread(d)') /\ (Reading(d) => Reading(d)')
  BY DEF Same, Unread, Reading, IsHead, IsBody
<1>3. /\ Working(d) => Working(d)'
      /\ Half(d) => Half(d)'
      /\ Done(d) => Done(d)'
  BY <1>1 DEF Same, Working, Half, Done, IsHead, IsBody
<1>4. (Asking(d) => Asking(d)') /\ (ConnOK(d) => ConnOK(d)')
  BY <1>2, <1>3 DEF Same, Asking, ConnOK
<1>5. InStep(d) => InStep(d)'
  BY <1>1, <1>2, <1>4 DEF Same, InStep
<1> QED  BY <1>4, <1>5 DEF Same, ClientOK

(* The wires stay sequences of messages. *)
LEMMA Pushed ==
  ASSUME NEW q \in [Clients -> Seq(Msgs)], NEW c \in Clients, NEW m \in Msgs
  PROVE  Push(q, c, m) \in [Clients -> Seq(Msgs)]
<1>1. q[c] \in Seq(Msgs)
  OBVIOUS
<1> QED  BY <1>1 DEF Push

(* Push appends to one wire. *)
LEMMA PushedWire ==
  ASSUME NEW q \in [Clients -> Seq(Msgs)], NEW c \in Clients, NEW m \in Msgs
  PROVE  /\ Len(Push(q, c, m)[c]) = Len(q[c]) + 1
         /\ Push(q, c, m)[c][Len(q[c]) + 1] = m
         /\ \A i \in 1 .. Len(q[c]) : Push(q, c, m)[c][i] = q[c][i]
<1>1. Push(q, c, m)[c] = Append(q[c], m)
  BY DEF Push
<1>2. q[c] \in Seq(Msgs) /\ Len(q[c]) \in Nat
  OBVIOUS
<1> QED  BY <1>1, <1>2

(* A wire with a first message is not empty. *)
(* A reader that takes k of one or two messages. *)
LEMMA Taken ==
  /\ \A k \in 1 .. 1 : k = 1
  /\ \A k \in 1 .. 2 : k = 1 \/ k = 2
  /\ 1 - 1 = 0 /\ 2 - 1 = 1 /\ 2 - 2 = 0 /\ ~(1 > 1) /\ 2 > 1
OBVIOUS

LEMMA FirstMessage ==
  ASSUME NEW q \in [Clients -> Seq(Msgs)], NEW c \in Clients, NEW k, First(q, c, k)
  PROVE  /\ Len(q[c]) >= 1 /\ Len(q[c]) # 0
         /\ 1 \in 1 .. Len(q[c]) /\ Len(q[c]) \in 1 .. Len(q[c])
         /\ q[c][1].kind = k
<1>1. q[c] \in Seq(Msgs) /\ q[c] # <<>> /\ q[c][1].kind = k
  BY DEF First
<1> QED  BY <1>1

(* Pop takes the first n messages from one wire. *)
LEMMA Popped ==
  ASSUME NEW q \in [Clients -> Seq(Msgs)], NEW c \in Clients, NEW n \in 1 .. Len(q[c])
  PROVE  /\ Pop(q, c, n) \in [Clients -> Seq(Msgs)]
         /\ Len(Pop(q, c, n)[c]) = Len(q[c]) - n
         /\ \A i \in 1 .. Len(q[c]) - n : Pop(q, c, n)[c][i] = q[c][n + i]
         /\ \A d \in Clients \ {c} : Pop(q, c, n)[d] = q[d]
<1>1. Pop(q, c, n)[c] = SubSeq(q[c], n + 1, Len(q[c]))
  BY DEF Pop
<1>2. q[c] \in Seq(Msgs) /\ Len(q[c]) \in Nat
  OBVIOUS
<1>3. \A d \in Clients \ {c} : Pop(q, c, n)[d] = q[d]
  BY DEF Pop
<1>4. SubSeq(q[c], n + 1, Len(q[c])) \in Seq(Msgs)
  BY <1>2
<1>5. Pop(q, c, n) \in [Clients -> Seq(Msgs)]
  BY <1>4 DEF Pop
<1> QED  BY <1>1, <1>2, <1>3, <1>5

----------------------------------------------------------------------------
(* The types *)

(* The handlers answer with a status code. *)
LEMMA StatusType == \A r : Dispatched(r) \in Nat
<1>1. ASSUME NEW p PROVE GetHandler(p) \in Nat
  BY DEF GetHandler
<1> QED  BY <1>1 DEF Dispatched, UnsupportedMethodHandler

(* What is pushed on a wire is a message. *)
LEMMA MsgTypes ==
  /\ Body \in Msgs
  /\ \A n \in Nat : HeadOf(n) \in Msgs
  /\ \A r \in Requests : HeadOf(r) \in Msgs
BY DEF Body, HeadOf, Msgs

(* Every step keeps the types. *)
LEMMA TypeKept ==
  ASSUME ServerTypeOK, Next
  PROVE  ServerTypeOK'
<1> USE DEF Set
<1>1. CASE Add
  BY ZenonT(60), <1>1 DEF Add, ServerTypeOK, clientVars
<1>2. ASSUME NEW c \in Clients, Accept(c) \/ Connect(c) \/ Exit(c) \/ Killed(c) \/ NameTaken(c) \/ Misread(c)
      PROVE  ServerTypeOK'
  BY ZenonT(60), <1>2 DEF Accept, Connect, Exit, Killed, NameTaken, Misread, ServerTypeOK, clientVars, serverVars, wires
<1>3. ASSUME NEW c \in Clients, SendBad(c) \/ ClientLeft(c) \/ Stat(c) \/ Create(c)
      PROVE  ServerTypeOK'
  BY ZenonT(60), <1>3 DEF SendBad, ClientLeft, Stat, Create, ServerTypeOK, clientVars, wires
<1>4. ASSUME NEW c \in Clients, ReadRequest(c)
      PROVE  ServerTypeOK'
  <2>1. PICK k \in 1 .. Len(toServer[c]) : toServer' = Pop(toServer, c, k)
    BY <1>4 DEF ReadRequest
  <2>2. toServer' \in [Clients -> Seq(Msgs)]
    BY ZenonT(60), <2>1, Popped DEF ServerTypeOK
  <2>3. code' \in [Clients -> Nat]
    BY <1>4, StatusType DEF ReadRequest, ServerTypeOK
  <2>4. handler' \in [Clients -> {None, "read", "bad", "stat", "create", "body", "head", "tail"}]
    BY <1>4 DEF ReadRequest, ServerTypeOK
  <2> QED  BY <1>4, <2>2, <2>3, <2>4 DEF ReadRequest, ServerTypeOK, clientVars
<1>5. ASSUME NEW c \in Clients, BadRequest(c)
      PROVE  ServerTypeOK'
  <2>1. Len(toServer[c]) \in 1 .. Len(toServer[c])
    BY <1>5 DEF BadRequest, First, ServerTypeOK
  <2>2. toServer' \in [Clients -> Seq(Msgs)]
    BY ZenonT(60), <1>5, <2>1, Popped DEF BadRequest, ServerTypeOK
  <2> QED  BY <1>5, <2>2 DEF BadRequest, ServerTypeOK, clientVars
<1>6. ASSUME NEW c \in Clients, ReadBody(c)
      PROVE  ServerTypeOK'
  <2>1. CASE toServer' = toServer
    BY <1>6, <2>1 DEF ReadBody, ServerTypeOK, clientVars
  <2>2. CASE First(toServer, c, "body") /\ toServer' = Pop(toServer, c, 1)
    <3>1. 1 \in 1 .. Len(toServer[c])
      BY <2>2 DEF First, ServerTypeOK
    <3>2. toServer' \in [Clients -> Seq(Msgs)]
      BY ZenonT(60), <2>2, <3>1, Popped DEF ServerTypeOK
    <3> QED  BY <1>6, <3>2 DEF ReadBody, ServerTypeOK, clientVars
  <2> QED  BY <1>6, <2>1, <2>2 DEF ReadBody
<1>7. ASSUME NEW c \in Clients, WriteHead(c) \/ WriteTail(c)
      PROVE  ServerTypeOK'
  <2>1. PICK m \in Msgs : toClient' = Push(toClient, c, m)
    BY <1>7, MsgTypes DEF WriteHead, WriteTail, ServerTypeOK
  <2>2. toClient' \in [Clients -> Seq(Msgs)]
    BY ZenonT(60), <2>1, Pushed DEF ServerTypeOK
  <2>3. CASE WriteHead(c)
    <3>1. /\ up' = FALSE \/ up' = up
          /\ handler' = handler \/ handler' = Set(handler, c, "tail")
          /\ UNCHANGED <<conn, client, code, asked, held, plain, toServer>>
      BY ZenonT(60), <2>3 DEF WriteHead, clientVars
    <3> QED  BY ZenonT(60), <2>2, <3>1 DEF ServerTypeOK
  <2>4. CASE WriteTail(c)
    BY ZenonT(60), <2>2, <2>4 DEF WriteTail, ServerTypeOK, clientVars
  <2> QED  BY <1>7, <2>3, <2>4
<1>8. ASSUME NEW c \in Clients, SendHead(c) \/ SendBody(c)
      PROVE  ServerTypeOK'
  <2>1. PICK m \in Msgs : toServer' = Push(toServer, c, m)
    BY <1>8, MsgTypes DEF SendHead, SendBody
  <2>2. toServer' \in [Clients -> Seq(Msgs)]
    BY ZenonT(60), <2>1, Pushed DEF ServerTypeOK
  <2>3. CASE SendHead(c)
    BY ZenonT(60), <2>2, <2>3 DEF SendHead, ServerTypeOK, serverVars
  <2>4. CASE SendBody(c)
    BY <2>2, <2>4 DEF SendBody, ServerTypeOK, serverVars
  <2> QED  BY <1>8, <2>3, <2>4
<1>9. ASSUME NEW c \in Clients, ReadHead(c)
      PROVE  ServerTypeOK'
  <2>1. PICK k \in 1 .. Len(toClient[c]) : toClient' = Pop(toClient, c, k) /\ held' = Set(held, c, k > 1)
    BY ZenonT(60), <1>9 DEF ReadHead
  <2>2. toClient' \in [Clients -> Seq(Msgs)]
    BY ZenonT(60), <2>1, Popped DEF ServerTypeOK
  <2>3. held' \in [Clients -> BOOLEAN]
    BY <2>1 DEF ServerTypeOK
  <2>4. plain' \in [Clients -> BOOLEAN]
    BY ZenonT(60), <1>9 DEF ReadHead, ServerTypeOK
  <2>5. client' \in [Clients -> {"away", "ready", "sending", "waiting", "body", "gone", "failed"}]
    BY <1>9 DEF ReadHead, ServerTypeOK
  <2> QED  BY ZenonT(60), <1>9, <2>2, <2>3, <2>4, <2>5 DEF ReadHead, ServerTypeOK, serverVars
<1>10. ASSUME NEW c \in Clients, ReadTail(c)
       PROVE  ServerTypeOK'
  <2>1. toClient' \in [Clients -> Seq(Msgs)]
    <3>1. CASE toClient' = toClient
      BY <3>1 DEF ServerTypeOK
    <3>2. CASE First(toClient, c, "body") /\ toClient' = Pop(toClient, c, 1)
      <4>1. 1 \in 1 .. Len(toClient[c])
        BY <3>2 DEF First, ServerTypeOK
      <4> QED  BY ZenonT(60), <3>2, <4>1, Popped DEF ServerTypeOK
    <3> QED  BY <1>10, <3>1, <3>2 DEF ReadTail
  <2> QED  BY <1>10, <2>1 DEF ReadTail, ServerTypeOK, serverVars
<1> QED  BY <1>1, <1>2, <1>3, <1>4, <1>5, <1>6, <1>7, <1>8, <1>9, <1>10
         DEF Next, HandleConnection, sender

----------------------------------------------------------------------------
(* The server and its clients *)

(* A step of one client, or of the server for it, concerns no other. *)
LEMMA OneClient ==
  ASSUME ServerInv, NEW c \in Clients, \A d \in Clients \ {c} : Same(d), up' => up,
         ServerTypeOK', LoopOK', up' => ConnOK(c)' /\ (plain'[c] => InStep(c)')
  PROVE  ServerInv'
<1>1. ClientOK(c)'
  BY DEF ClientOK
<1>2. ASSUME NEW d \in Clients \ {c} PROVE ClientOK(d)'
  BY <1>2, SameKept DEF ServerInv
<1> QED  BY <1>1, <1>2 DEF ServerInv

(* The accept loop, and the connections. *)
LEMMA Accepts ==
  ASSUME ServerInv, ServerTypeOK', NEW c \in Clients, Accept(c) \/ (loop = c /\ Add) \/ Connect(c)
  PROVE  ServerInv'
<1> USE DEF ServerInv, Set
<1>0. up /\ up' = up /\ ConnOK(c) /\ (plain[c] => InStep(c))
  BY ZenonT(60) DEF ClientOK, Accept, Add, Connect
<1>1. /\ toServer' = toServer /\ toClient' = toClient /\ asked' = asked /\ held' = held /\ plain' = plain
      /\ \A d \in Clients \ {c} : Same(d)
  BY DEF Accept, Add, Connect, Same, ServerTypeOK, clientVars, serverVars
<1>2. LoopOK'
  <2>1. CASE Accept(c)
    BY <2>1 DEF LoopOK, Accept, ServerTypeOK
  <2>2. CASE Add
    BY <2>2 DEF LoopOK, Add
  <2>3. CASE Connect(c)
    BY <1>0, <2>3 DEF LoopOK, ConnOK, Connect, serverVars, ServerTypeOK, None
  <2> QED  BY <2>1, <2>2, <2>3
<1>3. CASE Accept(c)
  <2>1. /\ conn[c] = "queued" /\ conn'[c] = "held" /\ handler'[c] = handler[c] /\ client'[c] = client[c]
    BY ZenonT(60), <1>3 DEF Accept, clientVars, ServerTypeOK
  <2>2. handler[c] = None /\ ConnOK(c)'
    BY <1>0, <2>1 DEF ConnOK, None
  <2>3. InStep(c) => InStep(c)'
    BY ZenonT(60), <1>1, <2>1, <2>2 DEF InStep, Idle, Asking, Unread, Working, Half, Done, Reading, Rest, IsHead, IsBody, None
  <2> QED  BY ZenonT(60), <1>0, <1>1, <1>2, <2>2, <2>3, OneClient
<1>4. CASE loop = c /\ Add
  <2>1. conn'[c] = "open" /\ handler'[c] = "read" /\ client'[c] = client[c]
    BY ZenonT(60), <1>4 DEF Add, clientVars, ServerTypeOK
  <2>2. conn[c] = "held" /\ handler[c] = None
    BY ZenonT(60), <1>0, <1>4 DEF LoopOK, ConnOK, Add
  <2>3. ConnOK(c)'
    BY <1>0, <2>1, <2>2 DEF ConnOK, None
  <2>4. InStep(c) => InStep(c)'
    BY ZenonT(60), <1>1, <2>1, <2>2 DEF InStep, Idle, Asking, Unread, Working, Half, Done, Reading, Rest, IsHead, IsBody, None
  <2> QED  BY <1>0, <1>1, <1>2, <2>3, <2>4, OneClient
<1>5. CASE Connect(c)
  <2>1. client[c] = "away" /\ client'[c] = "ready" /\ conn'[c] = "queued" /\ handler'[c] = handler[c]
    <3>1. /\ client[c] = "away" /\ client' = Set(client, c, "ready") /\ conn' = Set(conn, c, "queued")
          /\ handler' = handler
      BY ZenonT(60), <1>5 DEF Connect, serverVars
    <3>2. c \in DOMAIN client /\ c \in DOMAIN conn
      BY ZenonT(60) DEF ServerTypeOK
    <3> QED BY ZenonT(60), <3>1, <3>2
  <2>2. handler[c] = None /\ ConnOK(c)'
    BY <1>0, <2>1 DEF ConnOK, None
  <2>3. InStep(c) => InStep(c)'
    BY <1>1, <2>1, <2>2 DEF InStep, Idle
  <2> QED  BY ZenonT(60), <1>0, <1>1, <1>2, <2>2, <2>3, OneClient
<1> QED  BY <1>3, <1>4, <1>5

(* What a step of the handler or of the client leaves alone. *)
LEMMA Apart ==
  ASSUME ServerInv, NEW c \in Clients, HandleConnection(c) \/ sender(c) \/ Exit(c) \/ Killed(c) \/ NameTaken(c)
  PROVE  /\ \A d \in Clients \ {c} : Same(d)
         /\ up' => up
         /\ LoopOK'
<1>1. ASSUME NEW d \in Clients \ {c} PROVE Same(d)
  <2> USE DEF ServerInv, Same, ServerTypeOK, Set, Push, Pop
  <2>1. CASE ReadRequest(c) \/ BadRequest(c) \/ SendBad(c) \/ ClientLeft(c)
    BY <2>1 DEF ReadRequest, BadRequest, SendBad, ClientLeft, clientVars
  <2>2. CASE Stat(c) \/ Create(c)
    BY ZenonT(60), <2>2 DEF Stat, Create, clientVars, wires
  <2>3. CASE ReadBody(c)
    BY ZenonT(60), <2>3 DEF ReadBody, clientVars
  <2>4. CASE WriteHead(c) \/ WriteTail(c)
    BY <2>4 DEF WriteHead, WriteTail, clientVars
  <2>5. CASE SendHead(c) \/ SendBody(c)
    BY <2>5 DEF SendHead, SendBody, serverVars
  <2>6. CASE ReadHead(c) \/ ReadTail(c)
    BY ZenonT(60), <2>6 DEF ReadHead, ReadTail, serverVars
  <2>7. CASE Misread(c) \/ Exit(c) \/ Killed(c) \/ NameTaken(c)
    <3>1. /\ \E s \in {"failed", "gone"} : client' = Set(client, c, s)
          /\ UNCHANGED <<wires, serverVars, asked, sent, held, plain>>
      BY ZenonT(60), <2>7 DEF Misread, Exit, Killed, NameTaken
    <3> QED  BY <3>1 DEF serverVars, wires
  <2> QED  BY ZenonT(60), <2>1, <2>2, <2>3, <2>4, <2>5, <2>6, <2>7 DEF HandleConnection, sender
<1>2. (up' => up) /\ loop' = loop
  <2>1. CASE HandleConnection(c)
    BY ZenonT(60), <2>1 DEF HandleConnection, ReadRequest, BadRequest, SendBad, ClientLeft, Stat, Create, ReadBody,
                WriteHead, WriteTail
  <2>2. CASE SendHead(c) \/ SendBody(c)
    <3>1. up' = up /\ serverVars' = serverVars
      BY ZenonT(60), <2>2 DEF SendHead, SendBody
    <3> QED  BY <3>1 DEF serverVars
  <2>4. CASE ReadHead(c) \/ ReadTail(c)
    <3>1. up' = up /\ serverVars' = serverVars
      BY ZenonT(60), <2>4 DEF ReadHead, ReadTail
    <3> QED  BY <3>1 DEF serverVars
  <2>3. CASE Misread(c) \/ Exit(c) \/ Killed(c) \/ NameTaken(c)
    <3>1. up' = up /\ serverVars' = serverVars
      BY ZenonT(60), <2>3 DEF Misread, Exit, Killed, NameTaken
    <3> QED  BY <3>1 DEF serverVars
  <2> QED  BY <2>1, <2>2, <2>3, <2>4 DEF sender
<1>a. conn' = conn \/ (up /\ handler[c] \in {"bad", "read"} /\ conn' = Set(conn, c, "closed"))
  <2>1. CASE SendBad(c) \/ ClientLeft(c)
    BY ZenonT(60), <2>1 DEF SendBad, ClientLeft
  <2>2. CASE HandleConnection(c) /\ ~SendBad(c) /\ ~ClientLeft(c)
    BY ZenonT(60), <2>2 DEF HandleConnection, ReadRequest, BadRequest, Stat, Create, ReadBody, WriteHead, WriteTail, wires
  <2>3. CASE sender(c) \/ Exit(c) \/ Killed(c) \/ NameTaken(c)
    BY ZenonT(60), <2>3 DEF sender, SendHead, SendBody, ReadHead, ReadTail, Misread, Exit, Killed, NameTaken, wires
  <2> QED  BY <2>1, <2>2, <2>3
<1>3. LoopOK'
  BY ZenonT(60), <1>2, <1>a DEF ServerInv, ServerTypeOK, LoopOK, ClientOK, ConnOK, Set, None
<1> QED  BY <1>1, <1>2, <1>3

(* HandleConnection: the request is read once, the answer is written once, *)
(* and only what is left of a POST is taken for a bad request.             *)
LEMMA Handles ==
  ASSUME ServerInv, ServerTypeOK', NEW c \in Clients, HandleConnection(c)
  PROVE  ServerInv'
<1> SUFFICES up' => ConnOK(c)' /\ (plain'[c] => InStep(c)')
  BY Apart, OneClient
<1>0. up /\ ConnOK(c) /\ (plain[c] => InStep(c)) /\ ServerTypeOK
  BY ZenonT(60) DEF ServerInv, ClientOK, HandleConnection, ReadRequest, BadRequest, SendBad, ClientLeft, Stat, Create,
         ReadBody, WriteHead, WriteTail
<1>a. client'[c] = client[c] /\ asked'[c] = asked[c] /\ held'[c] = held[c] /\ plain'[c] = plain[c]
  BY ZenonT(60) DEF HandleConnection, ReadRequest, BadRequest, SendBad, ClientLeft, Stat, Create,
         ReadBody, WriteHead, WriteTail, clientVars
<1>t. toServer \in [Clients -> Seq(Msgs)] /\ toClient \in [Clients -> Seq(Msgs)]
  BY <1>0 DEF ServerTypeOK
<1>b. Len(toServer[c]) \in Nat /\ Len(toClient[c]) \in Nat
  BY <1>t
<1>c. ASSUME handler[c] # None, handler'[c] # None, conn'[c] = conn[c] PROVE ConnOK(c)'
  BY ZenonT(60), <1>0, <1>a, <1>c DEF ConnOK
<1>1. CASE ReadRequest(c)
  <2>1. PICK k \in 1 .. Len(toServer[c]) : toServer' = Pop(toServer, c, k)
    BY <1>1 DEF ReadRequest
  <2>2. /\ Len(toServer'[c]) = Len(toServer[c]) - k
        /\ Len(toServer[c]) = 2 /\ k = 1 => toServer'[c][1] = toServer[c][2]
    <3>1. /\ Len(Pop(toServer, c, k)[c]) = Len(toServer[c]) - k
          /\ \A i \in 1 .. Len(toServer[c]) - k : Pop(toServer, c, k)[c][i] = toServer[c][k + i]
      BY <1>t, Popped
    <3>2. /\ Len(toServer'[c]) = Len(toServer[c]) - k
          /\ \A i \in 1 .. Len(toServer[c]) - k : toServer'[c][i] = toServer[c][k + i]
      BY ZenonT(60), <2>1, <3>1
    <3> QED  BY <3>2
  <2>3. /\ handler[c] = "read" /\ IsHead(toServer[c]) /\ Len(toServer[c]) # 0
        /\ handler'[c] \in {"stat", "head"} /\ toClient'[c] = toClient[c] /\ conn'[c] = conn[c]
    <3>1. IsHead(toServer[c]) /\ Len(toServer[c]) # 0
      BY ZenonT(60), <1>1, <1>t, FirstMessage DEF ReadRequest, IsHead
    <3> QED  BY ZenonT(60), <1>0, <1>1, <3>1 DEF ReadRequest, ServerTypeOK, Set
  <2>4. Asking(c) => Unread(c)
    BY ZenonT(60), <2>3 DEF Asking, Unread, Working, Half, Done, Rest, IsHead, IsBody
  <2>5. Unread(c) => Working(c)'
    <3>1. CASE Len(toServer[c]) = 1
      <4>1. Len(toServer'[c]) = 0
        BY <2>2, <3>1
      <4> QED  BY ZenonT(60), <2>3, <4>1 DEF Unread, Working, Rest
    <3>2. CASE Len(toServer[c]) = 2
      <4>1. Len(toServer'[c]) = 0 \/ (Len(toServer'[c]) = 1 /\ toServer'[c][1] = toServer[c][2])
        BY <2>2, <3>2
      <4> QED  BY <1>a, <2>3, <3>2, <4>1 DEF Unread, Working, Rest, IsBody
    <3> QED  BY ZenonT(60), <3>1, <3>2 DEF Unread
  <2>6. InStep(c) => InStep(c)'
    BY ZenonT(60), <1>a, <2>3, <2>4, <2>5 DEF InStep, Idle, Reading, Asking
  <2> QED  BY ZenonT(60), <1>0, <1>a, <1>c, <2>3, <2>6 DEF None
<1>2. CASE BadRequest(c)
  <2>a. IsBody(toServer[c], 1) /\ Len(toServer[c]) # 0 /\ Len(toServer[c]) \in 1 .. Len(toServer[c])
    BY ZenonT(60), <1>2, <1>t, FirstMessage DEF BadRequest, IsBody
  <2>1. /\ handler[c] = "read" /\ IsBody(toServer[c], 1) /\ Len(toServer[c]) # 0
        /\ handler'[c] = "bad" /\ toClient'[c] = toClient[c] /\ conn'[c] = conn[c]
    BY ZenonT(60), <1>0, <1>2, <2>a DEF BadRequest, ServerTypeOK, Set
  <2>2. Len(toServer'[c]) = 0
    <3>1. PICK n \in 1 .. Len(toServer[c]) : n = Len(toServer[c]) /\ toServer' = Pop(toServer, c, n)
      BY ZenonT(60), <1>2, <2>a DEF BadRequest
    <3>2. Len(toServer'[c]) = Len(toServer[c]) - n
      <4>1. Len(Pop(toServer, c, n)[c]) = Len(toServer[c]) - n
        BY ZenonT(60), <1>t, <3>1, Popped
      <4> QED  BY ZenonT(60), <3>1, <4>1
    <3> QED  BY <1>b, <3>1, <3>2
  <2>3. Asking(c) => Done(c) /\ asked[c].method = "POST"
    BY ZenonT(60), <2>1 DEF Asking, Unread, Working, Half, Done, Rest, IsHead, IsBody
  <2>4. Done(c) /\ asked[c].method = "POST" => Done(c)'
    BY ZenonT(60), <1>a, <2>1, <2>2 DEF Done, Rest, IsHead, IsBody, None
  <2>5. InStep(c) => InStep(c)'
    BY ZenonT(60), <1>a, <2>1, <2>3, <2>4 DEF InStep, Idle, Reading, Asking
  <2> QED  BY ZenonT(60), <1>0, <1>a, <1>c, <2>1, <2>5 DEF None
<1>3. CASE SendBad(c)
  <2>1. /\ handler[c] = "bad" /\ handler'[c] = None /\ conn'[c] = "closed"
        /\ toServer'[c] = toServer[c] /\ toClient'[c] = toClient[c]
    BY ZenonT(60), <1>0, <1>3 DEF SendBad, ServerTypeOK, Set
  <2>2. Asking(c) => Done(c) /\ asked[c].method = "POST"
    BY ZenonT(60), <2>1 DEF Asking, Unread, Working, Half, Done, None
  <2>3. Done(c) /\ asked[c].method = "POST" => Done(c)'
    BY ZenonT(60), <1>a, <2>1 DEF Done, Rest, IsHead, IsBody
  <2>4. InStep(c) => InStep(c)'
    BY ZenonT(60), <1>a, <2>1, <2>2, <2>3 DEF InStep, Idle, Reading, Asking, None
  <2>5. ConnOK(c)'
    BY ZenonT(60), <1>0, <1>a, <2>1 DEF ConnOK, None
  <2> QED  BY ZenonT(60), <1>0, <1>a, <2>4, <2>5
<1>4. CASE ClientLeft(c)
  <2>1. /\ client[c] \in {"gone", "failed"} /\ handler[c] = "read" /\ handler'[c] = None /\ conn'[c] = "closed"
    BY ZenonT(60), <1>0, <1>4 DEF ClientLeft, ServerTypeOK, Set
  <2>2. InStep(c) => InStep(c)'
    BY ZenonT(60), <1>a, <2>1 DEF InStep
  <2>3. ConnOK(c)'
    BY ZenonT(60), <1>0, <1>a, <2>1 DEF ConnOK, None
  <2> QED  BY ZenonT(60), <1>0, <1>a, <2>2, <2>3
<1>5. CASE Stat(c) \/ Create(c)
  <2>1. /\ handler[c] \in {"stat", "create"} /\ handler'[c] \in {"create", "body"}
        /\ toServer'[c] = toServer[c] /\ toClient'[c] = toClient[c] /\ conn'[c] = conn[c]
    BY ZenonT(60), <1>0, <1>5 DEF Stat, Create, ServerTypeOK, Set, wires
  <2>2. Asking(c) => Working(c)
    BY ZenonT(60), <2>1 DEF Asking, Unread, Half, Done, None
  <2>3. Working(c) => Working(c)'
    BY ZenonT(60), <1>a, <2>1 DEF Working, Rest, IsBody
  <2>4. InStep(c) => InStep(c)'
    BY ZenonT(60), <1>a, <2>1, <2>2, <2>3 DEF InStep, Idle, Reading, Asking, None
  <2> QED  BY ZenonT(60), <1>0, <1>a, <1>c, <2>1, <2>4 DEF None
<1>6. CASE ReadBody(c)
  <2>1. /\ handler[c] = "body" /\ handler'[c] = "head"
        /\ toClient'[c] = toClient[c] /\ conn'[c] = conn[c]
    BY ZenonT(60), <1>0, <1>6 DEF ReadBody, ServerTypeOK, Set
  <2>2. toServer'[c] = toServer[c] \/ (Len(toServer[c]) >= 1 /\ Len(toServer'[c]) = Len(toServer[c]) - 1)
    <3>1. CASE toServer' = toServer
      BY <3>1
    <3>2. CASE First(toServer, c, "body") /\ toServer' = Pop(toServer, c, 1)
      <4>1. 1 \in 1 .. Len(toServer[c])
        BY ZenonT(60), <1>t, <3>2, FirstMessage
      <4>2. Len(toServer'[c]) = Len(toServer[c]) - 1
        BY ZenonT(60), <1>t, <3>2, <4>1, Popped
      <4> QED  BY <1>b, <4>1, <4>2
    <3> QED  BY ZenonT(60), <1>6, <3>1, <3>2 DEF ReadBody
  <2>3. Asking(c) => Working(c)
    BY ZenonT(60), <2>1 DEF Asking, Unread, Half, Done, None
  <2>4. Working(c) => Working(c)'
    <3>1. CASE toServer'[c] = toServer[c]
      BY ZenonT(60), <1>a, <2>1, <3>1 DEF Working, Rest, IsBody
    <3>2. CASE Len(toServer[c]) >= 1 /\ Len(toServer'[c]) = Len(toServer[c]) - 1
      <4>1. Working(c) => Len(toServer[c]) \in {0, 1}
        BY ZenonT(60) DEF Working, Rest
      <4>2. Working(c) => Len(toServer'[c]) = 0
        BY <1>b, <3>2, <4>1
      <4> QED  BY ZenonT(60), <2>1, <4>2 DEF Working, Rest
    <3> QED  BY <2>2, <3>1, <3>2
  <2>5. InStep(c) => InStep(c)'
    BY ZenonT(60), <1>a, <2>1, <2>3, <2>4 DEF InStep, Idle, Reading, Asking, None
  <2> QED  BY ZenonT(60), <1>0, <1>a, <1>c, <2>1, <2>5 DEF None
<1>7. CASE WriteHead(c)
  <2> SUFFICES ASSUME up' PROVE ConnOK(c)' /\ (plain'[c] => InStep(c)')
    BY ZenonT(60)
  <2>1. /\ handler[c] = "head" /\ handler'[c] = "tail"
        /\ toServer'[c] = toServer[c] /\ conn'[c] = conn[c] /\ toClient' = Push(toClient, c, HeadOf(code[c]))
    BY <1>0, <1>7 DEF WriteHead, ServerTypeOK, Set
  <2>2. /\ Len(toClient'[c]) = Len(toClient[c]) + 1
        /\ Len(toClient[c]) = 0 => IsHead(toClient'[c])
    <3>1. PICK m \in Msgs : m = HeadOf(code[c])
      BY <1>0, MsgTypes DEF ServerTypeOK
    <3>2. Len(toClient'[c]) = Len(toClient[c]) + 1 /\ toClient'[c][Len(toClient[c]) + 1] = m
      <4>1. /\ Len(Push(toClient, c, m)[c]) = Len(toClient[c]) + 1
            /\ Push(toClient, c, m)[c][Len(toClient[c]) + 1] = m
        BY ZenonT(60), <1>t, PushedWire
      <4> QED  BY ZenonT(60), <2>1, <3>1, <4>1
    <3>3. m.kind = "head"
      BY <3>1 DEF HeadOf
    <3> QED  BY <3>2, <3>3 DEF IsHead
  <2>3. Asking(c) => Working(c)
    BY ZenonT(60), <2>1 DEF Asking, Unread, Half, Done, None
  <2>4. Working(c) => Half(c)'
    BY <1>a, <2>1, <2>2 DEF Working, Half, Rest, IsBody
  <2>5. InStep(c) => InStep(c)'
    BY ZenonT(60), <1>a, <2>1, <2>3, <2>4 DEF InStep, Idle, Reading, Asking, None
  <2> QED  BY ZenonT(60), <1>0, <1>a, <1>c, <2>1, <2>5 DEF None
<1>8. CASE WriteTail(c)
  <2>1. /\ handler[c] = "tail" /\ handler'[c] = "read"
        /\ toServer'[c] = toServer[c] /\ conn'[c] = conn[c] /\ toClient' = Push(toClient, c, Body)
    BY <1>0, <1>8 DEF WriteTail, ServerTypeOK, Set
  <2>2. /\ Len(toClient'[c]) = Len(toClient[c]) + 1
        /\ Len(toClient[c]) = 0 => IsBody(toClient'[c], 1)
        /\ Len(toClient[c]) = 1 => IsBody(toClient'[c], 2) /\ (IsHead(toClient[c]) => IsHead(toClient'[c]))
    <3>1. PICK m \in Msgs : m = Body
      BY MsgTypes
    <3>2. /\ Len(toClient'[c]) = Len(toClient[c]) + 1 /\ toClient'[c][Len(toClient[c]) + 1] = m
          /\ \A i \in 1 .. Len(toClient[c]) : toClient'[c][i] = toClient[c][i]
      <4>1. /\ Len(Push(toClient, c, m)[c]) = Len(toClient[c]) + 1
            /\ Push(toClient, c, m)[c][Len(toClient[c]) + 1] = m
            /\ \A i \in 1 .. Len(toClient[c]) : Push(toClient, c, m)[c][i] = toClient[c][i]
        BY ZenonT(60), <1>t, PushedWire
      <4> QED  BY ZenonT(60), <2>1, <3>1, <4>1
    <3>3. m.kind = "body"
      BY ZenonT(60), <3>1 DEF Body
    <3>4. CASE Len(toClient[c]) = 1
      <4>1. toClient'[c][2] = m /\ toClient'[c][1] = toClient[c][1]
        BY <3>2, <3>4
      <4> QED  BY <3>2, <3>3, <3>4, <4>1 DEF IsHead, IsBody
    <3>5. CASE Len(toClient[c]) # 1
      BY <3>2, <3>3, <3>5 DEF IsBody
    <3> QED  BY ZenonT(60), <3>4, <3>5
  <2>3. Asking(c) => Half(c)
    BY ZenonT(60), <2>1 DEF Asking, Unread, Working, Done, None
  <2>4. Half(c) => Done(c)'
    <3>1. Half(c) => Len(toClient'[c]) = 2
      BY <2>2 DEF Half
    <3>2. Rest(c) => Rest(c)'
      BY ZenonT(60), <1>a, <2>1 DEF Rest, IsBody
    <3>3. Half(c) => IsHead(toClient'[c]) /\ IsBody(toClient'[c], 2)
      BY ZenonT(60), <2>2 DEF Half
    <3> QED  BY ZenonT(60), <2>1, <3>1, <3>2, <3>3 DEF Half, Done, None
  <2>5. Reading(c) => Reading(c)'
    BY <1>a, <2>1, <2>2 DEF Reading
  <2>6. InStep(c) => InStep(c)'
    BY ZenonT(60), <1>a, <2>1, <2>3, <2>4, <2>5 DEF InStep, Idle, Asking, None
  <2> QED  BY ZenonT(60), <1>0, <1>a, <1>c, <2>1, <2>6 DEF None
<1> QED  BY <1>1, <1>2, <1>3, <1>4, <1>5, <1>6, <1>7, <1>8 DEF HandleConnection

(* sender: a request is sent on wires that are empty, and what is read is  *)
(* its answer.                                                             *)
LEMMA Sends ==
  ASSUME ServerInv, ServerTypeOK', NEW c \in Clients, sender(c) \/ Exit(c) \/ Killed(c) \/ NameTaken(c)
  PROVE  ServerInv'
<1> SUFFICES ASSUME up' PROVE ConnOK(c)' /\ (plain'[c] => InStep(c)')
  BY Apart, OneClient
<1>0. ServerTypeOK /\ up /\ ConnOK(c) /\ (plain[c] => InStep(c))
  BY ZenonT(60), Apart DEF ServerInv, ClientOK
<1>t. toServer \in [Clients -> Seq(Msgs)] /\ toClient \in [Clients -> Seq(Msgs)]
  BY <1>0 DEF ServerTypeOK
<1>b. Len(toServer[c]) \in Nat /\ Len(toClient[c]) \in Nat
  BY <1>t
<1>c. ASSUME client'[c] # "away", handler'[c] = handler[c], conn'[c] = conn[c] PROVE ConnOK(c)'
  BY ZenonT(60), <1>0, <1>c DEF ConnOK
<1>1. CASE SendHead(c)
  <2>1. PICK r \in Requests : /\ asked'[c] = r
                              /\ toServer' = Push(toServer, c, HeadOf(r))
                              /\ client'[c] = IF r.method = "POST" THEN "sending" ELSE "waiting"
    BY <1>0, <1>1 DEF SendHead, ServerTypeOK, Set
  <2>2. /\ client[c] = "ready" /\ plain'[c] = plain[c]
        /\ handler'[c] = handler[c] /\ conn'[c] = conn[c] /\ toClient'[c] = toClient[c]
    BY ZenonT(60), <1>1 DEF SendHead, serverVars
  <2>3. Len(toServer'[c]) = Len(toServer[c]) + 1 /\ (Len(toServer[c]) = 0 => IsHead(toServer'[c]))
    <3>1. PICK m \in Msgs : m = HeadOf(r)
      BY MsgTypes
    <3>2. Len(toServer'[c]) = Len(toServer[c]) + 1 /\ toServer'[c][Len(toServer[c]) + 1] = m
      <4>1. /\ Len(Push(toServer, c, m)[c]) = Len(toServer[c]) + 1
            /\ Push(toServer, c, m)[c][Len(toServer[c]) + 1] = m
        BY ZenonT(60), <1>t, PushedWire
      <4> QED  BY ZenonT(60), <2>1, <3>1, <4>1
    <3>3. m.kind = "head"
      BY <3>1 DEF HeadOf
    <3>4. Len(toServer[c]) = 0 => toServer'[c][1] = m
      <4>1. 0 + 1 = 1
        OBVIOUS
      <4> QED  BY ZenonT(60), <3>2, <4>1
    <3> QED  BY ZenonT(60), <3>2, <3>3, <3>4 DEF IsHead
  <2>4. Idle(c) => Asking(c)'
    <3>1. Len(toServer[c]) = 0 => Len(toServer'[c]) = 1
      BY <2>3
    <3> QED  BY ZenonT(60), <2>1, <2>2, <2>3, <3>1 DEF Idle, Asking, Unread
  <2>5. InStep(c) => InStep(c)'
    BY ZenonT(60), <2>1, <2>2, <2>4 DEF InStep
  <2> QED  BY ZenonT(60), <1>0, <1>c, <2>1, <2>2, <2>5
<1>2. CASE SendBody(c)
  <2>1. /\ client[c] = "sending" /\ client'[c] = "waiting" /\ plain'[c] = plain[c] /\ asked'[c] = asked[c]
        /\ handler'[c] = handler[c] /\ conn'[c] = conn[c] /\ toClient'[c] = toClient[c]
        /\ toServer' = Push(toServer, c, Body)
    BY <1>0, <1>2 DEF SendBody, serverVars, ServerTypeOK, Set
  <2>2. /\ Len(toServer'[c]) = Len(toServer[c]) + 1
        /\ Len(toServer[c]) = 0 => IsBody(toServer'[c], 1)
        /\ Len(toServer[c]) = 1 => IsBody(toServer'[c], 2) /\ (IsHead(toServer[c]) => IsHead(toServer'[c]))
    <3>1. PICK m \in Msgs : m = Body
      BY MsgTypes
    <3>2. /\ Len(toServer'[c]) = Len(toServer[c]) + 1 /\ toServer'[c][Len(toServer[c]) + 1] = m
          /\ \A i \in 1 .. Len(toServer[c]) : toServer'[c][i] = toServer[c][i]
      <4>1. /\ Len(Push(toServer, c, m)[c]) = Len(toServer[c]) + 1
            /\ Push(toServer, c, m)[c][Len(toServer[c]) + 1] = m
            /\ \A i \in 1 .. Len(toServer[c]) : Push(toServer, c, m)[c][i] = toServer[c][i]
        BY ZenonT(60), <1>t, PushedWire
      <4> QED  BY ZenonT(60), <2>1, <3>1, <4>1
    <3>3. m.kind = "body"
      BY <3>1 DEF Body
    <3>4. CASE Len(toServer[c]) = 1
      <4>1. toServer'[c][2] = m /\ toServer'[c][1] = toServer[c][1]
        BY <3>2, <3>4
      <4> QED  BY ZenonT(60), <3>2, <3>3, <3>4, <4>1 DEF IsHead, IsBody
    <3>5. CASE Len(toServer[c]) # 1
      BY <3>2, <3>3, <3>5 DEF IsBody
    <3> QED  BY ZenonT(60), <3>4, <3>5
  <2>3. Asking(c) => Asking(c)'
    <3>1. asked[c].method = "POST" /\ Rest(c) => Rest(c)'
      BY <2>1, <2>2 DEF Rest
    <3>2. asked[c].method = "POST" /\ Unread(c) => Unread(c)'
      <4>1. Unread(c) => Len(toServer[c]) = 1 /\ IsHead(toServer[c])
        BY ZenonT(60), <2>1 DEF Unread
      <4>2. Len(toServer[c]) = 1 => Len(toServer'[c]) = 2
        BY <2>2
      <4> QED  BY ZenonT(60), <2>1, <2>2, <4>1, <4>2 DEF Unread
    <3>3. asked[c].method = "POST" /\ (Working(c) \/ Half(c) \/ Done(c)) => (Working(c) \/ Half(c) \/ Done(c))'
      BY ZenonT(60), <2>1, <3>1 DEF Working, Half, Done, IsHead, IsBody
    <3> QED  BY ZenonT(60), <2>1, <3>2, <3>3 DEF Asking
  <2>4. InStep(c) => InStep(c)'
    BY ZenonT(60), <2>1, <2>3 DEF InStep
  <2> QED  BY ZenonT(60), <1>0, <1>c, <2>1, <2>4
<1>3. CASE ReadHead(c)
  <2>1. PICK k \in 1 .. Len(toClient[c]) : toClient' = Pop(toClient, c, k) /\ held' = Set(held, c, k > 1)
    BY ZenonT(60), <1>3 DEF ReadHead
  <2>a. held'[c] <=> k > 1
    BY ZenonT(60), <1>0, <2>1 DEF Set, ServerTypeOK
  <2>2. /\ client[c] = "waiting" /\ asked'[c] = asked[c]
        /\ handler'[c] = handler[c] /\ conn'[c] = conn[c] /\ toServer'[c] = toServer[c]
        /\ Len(toClient[c]) >= 1
    <3>1. Len(toClient[c]) >= 1
      BY ZenonT(60), <1>3, <1>t, FirstMessage DEF ReadHead
    <3> QED  BY ZenonT(60), <1>3, <3>1 DEF ReadHead, serverVars
  <2>3. client'[c] \in {"body", "ready"}
        /\ (plain'[c] => plain[c] /\ asked[c].method = "GET" /\ client'[c] = "body")
    <3> DEFINE want == Wanted(c, toClient[c][1].is)
    <3>1. plain'[c] => plain[c] /\ want
      BY ZenonT(60), <1>0, <1>3 DEF ReadHead, ServerTypeOK
    <3>2. client'[c] = IF want THEN "body" ELSE "ready"
      BY ZenonT(60), <1>0, <1>3 DEF ReadHead, ServerTypeOK, Set
    <3> QED  BY ZenonT(60), <3>1, <3>2 DEF Wanted
  <2>4. /\ Len(toClient'[c]) = Len(toClient[c]) - k
        /\ Len(toClient[c]) = 2 /\ k = 1 => toClient'[c][1] = toClient[c][2]
    <3>1. /\ Len(Pop(toClient, c, k)[c]) = Len(toClient[c]) - k
          /\ \A i \in 1 .. Len(toClient[c]) - k : Pop(toClient, c, k)[c][i] = toClient[c][k + i]
      BY ZenonT(60), <1>t, Popped
    <3>2. /\ Len(toClient'[c]) = Len(toClient[c]) - k
          /\ \A i \in 1 .. Len(toClient[c]) - k : toClient'[c][i] = toClient[c][k + i]
      BY ZenonT(60), <2>1, <3>1
    <3> QED  BY <3>2
  <2>5. asked[c].method = "GET" /\ Half(c) => Reading(c)'
    <3> SUFFICES ASSUME asked[c].method = "GET", Half(c) PROVE Reading(c)'
      BY ZenonT(60)
    <3>1. Len(toServer'[c]) = 0 /\ handler'[c] = "tail" /\ Len(toClient[c]) = 1
      BY ZenonT(60), <2>2 DEF Half, Rest
    <3>2. Len(toClient'[c]) = 0 /\ ~held'[c]
      <4>1. k = 1
        BY ZenonT(60), <3>1, Taken
      <4> QED  BY ZenonT(60), <2>4, <2>a, <3>1, <4>1, Taken
    <3> QED  BY ZenonT(60), <3>1, <3>2 DEF Reading
  <2>6. asked[c].method = "GET" /\ Done(c) => Reading(c)'
    <3> SUFFICES ASSUME asked[c].method = "GET", Done(c) PROVE Reading(c)'
      OBVIOUS
    <3>1. Len(toServer'[c]) = 0 /\ handler'[c] = "read" /\ Len(toClient[c]) = 2 /\ IsBody(toClient[c], 2)
      BY ZenonT(60), <2>2 DEF Done, Rest
    <3>2. CASE k = 1
      <4>1. Len(toClient'[c]) = 1 /\ ~held'[c]
        BY ZenonT(60), <2>4, <2>a, <3>1, <3>2, Taken
      <4>2. IsBody(toClient'[c], 1)
        BY ZenonT(60), <2>4, <3>1, <3>2 DEF IsBody
      <4> QED  BY ZenonT(60), <3>1, <4>1, <4>2 DEF Reading
    <3>3. CASE k = 2
      <4>1. Len(toClient'[c]) = 0 /\ held'[c]
        BY ZenonT(60), <2>4, <2>a, <3>1, <3>3, Taken
      <4> QED  BY ZenonT(60), <3>1, <4>1 DEF Reading
    <3>4. k = 1 \/ k = 2
      BY ZenonT(60), <3>1, Taken
    <3> QED  BY ZenonT(60), <3>2, <3>3, <3>4
  <2>7. plain'[c] => InStep(c)'
    <3>1. plain'[c] => Half(c) \/ Done(c)
      <4>1. Len(toClient[c]) # 0
        BY <1>b, <2>2
      <4> QED  BY ZenonT(60), <1>0, <2>2, <2>3, <4>1 DEF InStep, Asking, Unread, Working
    <3>2. plain'[c] => Reading(c)' /\ client'[c] = "body"
      BY ZenonT(60), <2>3, <2>5, <2>6, <3>1
    <3> QED  BY <3>2 DEF InStep
  <2> QED  BY ZenonT(60), <1>c, <2>2, <2>3, <2>7
<1>4. CASE ReadTail(c)
  <2>1. /\ client[c] = "body" /\ client'[c] = "ready" /\ plain'[c] = plain[c]
        /\ handler'[c] = handler[c] /\ conn'[c] = conn[c] /\ toServer'[c] = toServer[c]
    BY <1>0, <1>4 DEF ReadTail, serverVars, ServerTypeOK, Set
  <2>2. Reading(c) => Len(toClient'[c]) = 0
    <3>1. CASE held[c]
      BY ZenonT(60), <1>4, <3>1 DEF ReadTail, Reading
    <3>2. CASE ~held[c]
      <4>1. 1 \in 1 .. Len(toClient[c]) /\ toClient' = Pop(toClient, c, 1)
        <5>1. First(toClient, c, "body") /\ toClient' = Pop(toClient, c, 1)
          BY ZenonT(60), <1>4, <3>2 DEF ReadTail
        <5> QED  BY ZenonT(60), <1>t, <5>1, FirstMessage
      <4>2. Len(toClient'[c]) = Len(toClient[c]) - 1
        BY ZenonT(60), <1>t, <4>1, Popped
      <4>3. Reading(c) => Len(toClient[c]) \in {0, 1}
        BY ZenonT(60) DEF Reading
      <4>4. Len(toClient[c]) >= 1
        BY <1>b, <4>1
      <4> QED  BY <1>b, <4>2, <4>3, <4>4
    <3> QED  BY ZenonT(60), <3>1, <3>2
  <2>3. Reading(c) => handler[c] = "read" \/ (Len(toClient[c]) = 0 /\ ~held[c])
    BY ZenonT(60) DEF Reading
  <2>4. held[c] \/ Len(toClient[c]) # 0
    <3>1. held[c] \/ First(toClient, c, "body")
      BY ZenonT(60), <1>4 DEF ReadTail
    <3>2. First(toClient, c, "body") => Len(toClient[c]) # 0
      BY ZenonT(60), <1>t, FirstMessage
    <3> QED  BY ZenonT(60), <3>1, <3>2
  <2>5. Reading(c) => handler[c] = "read" /\ conn[c] = "open" /\ Len(toServer[c]) = 0
    BY <1>0, <2>3, <2>4 DEF ConnOK, Reading, None
  <2>6. InStep(c) => InStep(c)'
    BY ZenonT(60), <2>1, <2>2, <2>5 DEF InStep, Idle
  <2> QED  BY ZenonT(60), <1>0, <1>c, <2>1, <2>6
<1>5. CASE Misread(c)
  <2>1. /\ client'[c] = "failed" /\ plain'[c] = plain[c] /\ handler'[c] = handler[c] /\ conn'[c] = conn[c]
    BY <1>0, <1>5 DEF Misread, wires, serverVars, ServerTypeOK, Set
  <2>2. toClient[c] = <<>> => Len(toClient[c]) = 0
    BY <1>t
  <2>3. ~InStep(c)
    <3>1. CASE client[c] = "waiting" /\ First(toClient, c, "body")
      <4>1. Len(toClient[c]) # 0 /\ ~IsHead(toClient[c])
        BY <1>t, <3>1 DEF First, IsHead
      <4> QED  BY <3>1, <4>1 DEF InStep, Asking, Unread, Working, Half, Done
    <3>2. CASE client[c] \in {"waiting", "body", "sending"} /\ Len(toClient[c]) = 0 /\ conn[c] = "closed"
      <4>1. handler[c] = None /\ Len(toClient[c]) # 1 /\ Len(toClient[c]) # 2
        BY <1>0, <3>2 DEF ConnOK, None
      <4> QED  BY ZenonT(60), <3>2, <4>1 DEF InStep, Asking, Unread, Working, Half, Done, Reading, None
    <3> QED  BY ZenonT(60), <1>0, <1>5, <2>2, <3>1, <3>2 DEF Misread
  <2> QED  BY ZenonT(60), <1>0, <1>c, <2>1, <2>3
<1>6. CASE Exit(c) \/ Killed(c) \/ NameTaken(c)
  <2>1. /\ client'[c] = "gone" /\ handler'[c] = handler[c] /\ conn'[c] = conn[c]
    BY <1>0, <1>6 DEF Exit, Killed, NameTaken, wires, serverVars, ServerTypeOK, Set
  <2> QED  BY ZenonT(60), <1>c, <2>1 DEF InStep
<1> QED  BY <1>1, <1>2, <1>3, <1>4, <1>5, <1>6 DEF sender

(* Every step of the server and its clients keeps the invariant. *)
LEMMA ServerStep ==
  ASSUME ServerInv, [Next]_vars
  PROVE  ServerInv'
<1>1. CASE Next
  <2>1. ServerTypeOK'
    BY <1>1, TypeKept DEF ServerInv
  <2>2. CASE Add
    <3>1. loop \in Clients
      BY <2>2 DEF ServerInv, LoopOK, Add
    <3> QED  BY <2>1, <2>2, <3>1, Accepts
  <2>3. ASSUME NEW c \in Clients, Accept(c) \/ Connect(c) PROVE ServerInv'
    BY <2>1, <2>3, Accepts
  <2>4. ASSUME NEW c \in Clients, HandleConnection(c) PROVE ServerInv'
    BY <2>1, <2>4, Handles
  <2>5. ASSUME NEW c \in Clients, sender(c) \/ Exit(c) \/ Killed(c) \/ NameTaken(c) PROVE ServerInv'
    BY <2>1, <2>5, Sends
  <2> QED  BY <1>1, <2>2, <2>3, <2>4, <2>5 DEF Next
<1>2. CASE UNCHANGED vars
  <2>1. \A d \in Clients : Same(d)
    BY ZenonT(60), <1>2 DEF vars, wires, serverVars, clientVars, Same
  <2>2. (up' => up) /\ ServerTypeOK' /\ LoopOK'
    BY <1>2 DEF vars, wires, serverVars, clientVars, ServerInv, ServerTypeOK, LoopOK
  <2>3. ASSUME NEW d \in Clients PROVE ClientOK(d)'
    BY <2>1, <2>2, SameKept DEF ServerInv
  <2> QED  BY ZenonT(60), <2>2, <2>3 DEF ServerInv
<1> QED  BY <1>1, <1>2

(* No client has connected yet. *)
LEMMA ServerStart ==
  ASSUME Init
  PROVE  ServerInv
<1>1. ServerTypeOK
  BY DEF Init, ServerTypeOK, NoRequest
<1>2. ASSUME NEW c \in Clients PROVE ClientOK(c)
  <2>1. /\ conn[c] = None /\ handler[c] = None /\ client[c] = "away"
        /\ Len(toServer[c]) = 0 /\ Len(toClient[c]) = 0
    BY ZenonT(60) DEF Init
  <2> QED  BY ZenonT(60), <2>1 DEF ClientOK, ConnOK, InStep, Idle, None
<1> QED  BY ZenonT(60), <1>1, <1>2 DEF ServerInv, LoopOK, Init

----------------------------------------------------------------------------
(* The proxy and its clients *)

(* A client has a server, or nil, only once its address was read, and main *)
(* reads the address of the client it accepted last.                       *)
ProxyClientOK(c) ==
  /\ proxyClient[c] = "away" => proxyConn[c] = P!None
  /\ proxyConn[c] # "accepted" => proxyHandler[c] = P!None
  /\ proxyHandler[c] = P!None => server[c] = P!None

ProxyInv ==
  /\ proxyUp \in BOOLEAN
  /\ proxyConn \in [Proxied -> {P!None, "queued", "accepted"}]
  /\ server \in [Proxied -> {P!None, "ok", "nil", "closed"}]
  /\ proxyHandler \in [Proxied -> {P!None, "read", "forward", "returned"}]
  /\ proxyClient \in [Proxied -> {"away", "silent", "ready", "waiting", "gone"}]
  /\ \A c \in Proxied : ProxyClientOK(c)
  /\ proxyLoop \notin {P!Nobody, P!Nil} => /\ proxyLoop \in Proxied /\ proxyConn[proxyLoop] = "accepted"
                                       /\ proxyHandler[proxyLoop] = P!None
  /\ EndsOnlyOnArrival

(* The proxy runs, and no client has connected to it. *)
LEMMA ProxyStart ==
  ASSUME P!Init
  PROVE  ProxyInv
BY DEF P!Init, ProxyInv, ProxyClientOK, EndsOnlyOnArrival, P!EndsOnlyOnArrival, P!None, P!Nobody, P!Nil

(* Every step of the proxy and its clients keeps the invariant. *)
LEMMA ProxyStep ==
  ASSUME ProxyInv, [P!Next]_proxyVars
  PROVE  ProxyInv'
<1> USE DEF ProxyInv, ProxyClientOK, EndsOnlyOnArrival, P!EndsOnlyOnArrival, P!None, P!Nobody, P!Nil, P!Set
<1>0. CASE P!AcceptFails \/ P!ReadNil
  BY ZenonT(60), <1>0 DEF P!AcceptFails, P!ReadNil
<1>1. CASE P!ReadHost
  <2>1. PICK k \in 1 .. Len(wire[proxyLoop]) : server' = P!Set(server, proxyLoop, P!Dial(proxyLoop, k))
    BY ZenonT(60), <1>1 DEF P!ReadHost
  <2>2. P!Dial(proxyLoop, k) \in {"ok", "nil"}
    BY DEF P!Dial
  <2> QED  BY <1>1, <2>1, <2>2 DEF P!ReadHost
<1>2. CASE P!NoHost
  BY ZenonT(60), <1>2 DEF P!NoHost
<1>3. ASSUME NEW c \in Proxied, P!Accept(c) PROVE ProxyInv'
  BY <1>3 DEF P!Accept
<1>4. ASSUME NEW c \in Proxied, P!ReadRequest(c) PROVE ProxyInv'
  <2>1. /\ UNCHANGED <<proxyLoop, proxyConn, server, proxyClient>>
        /\ proxyHandler[c] = "read"
    BY <1>4 DEF P!ReadRequest
  <2>2. \/ P!Answer(c, 501, "returned") /\ UNCHANGED proxyUp
        \/ server[c] = "nil" /\ proxyUp' = FALSE /\ UNCHANGED <<answers, proxyHandler>>
        \/ proxyHandler' = P!Set(proxyHandler, c, "forward") /\ UNCHANGED <<proxyUp, answers>>
    <3>1. CASE Head(wire[c]) # "GET"
      BY ZenonT(60), <1>4, <3>1 DEF P!ReadRequest
    <3>2. CASE Head(wire[c]) = "GET" /\ server[c] = "nil"
      BY ZenonT(60), <1>4, <3>2 DEF P!ReadRequest
    <3>3. CASE Head(wire[c]) = "GET" /\ server[c] # "nil"
      BY ZenonT(60), <1>4, <3>3 DEF P!ReadRequest
    <3> QED  BY ZenonT(60), <3>1, <3>2, <3>3
  <2>3. CASE server[c] = "nil" /\ proxyUp' = FALSE /\ UNCHANGED <<answers, proxyHandler>>
    BY ZenonT(60), <2>1, <2>3
  <2>4. ASSUME NEW next \in {"returned", "forward"},
               proxyHandler' = P!Set(proxyHandler, c, next), UNCHANGED proxyUp
        PROVE  ProxyInv'
    BY <2>1, <2>4
  <2> QED  BY <2>2, <2>3, <2>4, ZenonT(60) DEF P!Answer
<1>b. ASSUME NEW c \in Proxied, P!BadRequest(c) PROVE ProxyInv'
  BY <1>b DEF P!BadRequest
<1>5. ASSUME NEW c \in Proxied, P!ReadEOF(c) PROVE ProxyInv'
  BY ZenonT(60), <1>5 DEF P!ReadEOF
<1>6. ASSUME NEW c \in Proxied, P!Forward(c) PROVE ProxyInv'
  BY ZenonT(60), <1>6 DEF P!Forward, P!Answer
<1>7. ASSUME NEW c \in Proxied, P!Connect(c) PROVE ProxyInv'
  BY ZenonT(60), <1>7 DEF P!Connect
<1>8. ASSUME NEW c \in Proxied, P!NameHost(c) \/ P!Ask(c) \/ P!GetAnswer(c) PROVE ProxyInv'
  <2>1. PICK to \in {"ready", "waiting"} :
          /\ proxyClient[c] \in {"silent", "ready", "waiting"}
          /\ proxyClient' = P!Set(proxyClient, c, to)
          /\ UNCHANGED <<proxyUp, proxyLoop, proxyConn, server, proxyHandler>>
    BY ZenonT(60), <1>8 DEF P!NameHost, P!Ask, P!GetAnswer
  <2> QED  BY ZenonT(60), <2>1
<1>9. ASSUME NEW c \in Proxied, P!Leave(c) PROVE ProxyInv'
  BY ZenonT(60), <1>9 DEF P!Leave
<1>10. CASE UNCHANGED proxyVars
  BY ZenonT(60), <1>10 DEF proxyVars
<1> QED  BY ZenonT(60), <1>0, <1>1, <1>2, <1>3, <1>4, <1>b, <1>5, <1>6, <1>7, <1>8, <1>9, <1>10
         DEF P!Next, P!ProxyStep, P!handleClientRequest

----------------------------------------------------------------------------
(* Both ways together *)

(* The inductive invariant holds in every behaviour of Lab1's programs. *)
THEOREM Invariance == LabSpec => [](ServerInv /\ ProxyInv)
<1>1. LabInit => ServerInv /\ ProxyInv
  BY ServerStart, ProxyStart DEF LabInit
<1>2. ServerInv /\ ProxyInv /\ [LabNext]_labVars => (ServerInv /\ ProxyInv)'
  <2> SUFFICES ASSUME ServerInv, ProxyInv, [LabNext]_labVars PROVE (ServerInv /\ ProxyInv)'
    OBVIOUS
  <2>1. [Next]_vars /\ [P!Next]_proxyVars
    BY DEF LabNext, labVars
  <2> QED  BY <2>1, ServerStep, ProxyStep
<1> QED  BY <1>1, <1>2, PTL DEF LabSpec

(* Client/main.go does not read the body of most answers, and the server   *)
(* not that of a refused POST; yet a client that only got files and        *)
(* listings so far (plain) never takes anything for its answer that is     *)
(* not, nor finds its connection closed, while the server runs.            *)
THEOREM StepCorrect == LabSpec => []KeepsStep
<1>1. ServerInv => KeepsStep
  <2> SUFFICES ASSUME ServerInv, NEW c \in Clients, client[c] = "failed", plain[c], up PROVE FALSE
    BY ZenonT(60) DEF KeepsStep
  <2>1. client[c] \in {"away", "ready", "sending", "waiting", "body", "gone"}
    BY ZenonT(60) DEF ServerInv, ClientOK, InStep
  <2> QED  BY <2>1
<1> QED  BY <1>1, Invariance, PTL

(* Proxy/main.go has four places that panic for every client.  They need   *)
(* an Accept that failed, or an address that was missing, bad, or read     *)
(* together with a request: nothing that a client with a good address or   *)
(* its server does ends the proxy.                                         *)
THEOREM ArrivalCorrect == LabSpec => []EndsOnlyOnArrival
<1>1. ProxyInv => EndsOnlyOnArrival
  BY DEF ProxyInv
<1> QED  BY <1>1, Invariance, PTL
=============================================================================
