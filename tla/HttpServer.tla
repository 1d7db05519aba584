----------------------------- MODULE HttpServer -----------------------------
(***************************************************************************)
(* The HTTP server of Lab1 (Server/main.go, handler.go, tools.go) with its *)
(* clients (Client/main.go: main and sender, without the proxy).           *)
(*                                                                         *)
(* A message is its head and its body, which arrive one after the other.   *)
(* Both sides read each message through a new bufio.Reader: what that had  *)
(* read ahead is lost with it, what it had not is found by the next one.   *)
(***************************************************************************)
EXTENDS Integers, Sequences, FiniteSets

CONSTANTS
  Clients,
  Requests,     \* what they may ask for: method and path
  MaxRequests,  \* bound: how many requests each client makes
  Limit,        \* golimit.NewGoLimit(10)
  Valid,        \* paths with one of the known endings
  Dirs,         \* paths that are directories
  Homeless,     \* paths in a directory that is not there
  Present       \* paths of files there at the start

VARIABLES
  up,           \* the server process runs
  conn,         \* each client's connection
  loop,         \* the connection ListenAndServe has accepted and not started
  slots,        \* goroutines counted by golimit
  handler,      \* how far HandleConnection is
  req,          \* its request
  dest,         \* the file DownloadFile writes
  code,         \* the status of its response
  toServer,     \* what is on the way to the server
  toClient,     \* what is on the way to the client
  ahead,        \* the server's reader holds the body already
  files,        \* the server's files: who wrote them
  client,       \* how far sender is
  asked,        \* the client's last request
  sent,         \* how many it has made
  held,         \* the client's reader holds the body already
  plain         \* it got nothing but files and listings so far

serverVars == <<loop, slots, handler, req, dest, code, ahead, files>>
clientVars == <<client, asked, sent, held, plain>>
wires == <<conn, toServer, toClient>>
vars == <<up, wires, serverVars, clientVars>>

Nobody == "nobody"
None == "none"
NoRequest == [method |-> None, path |-> None]
Names == {<<p, i>> : p \in Valid \cup Present, i \in {0, 1}}  \* p, and p(1)
NoFile == <<None, 0>>
HeadOf(x) == [kind |-> "head", is |-> x]
Body == [kind |-> "body", is |-> 0]

Init ==
  /\ up = TRUE
  /\ conn = [c \in Clients |-> None]
  /\ loop = Nobody
  /\ slots = 0
  /\ handler = [c \in Clients |-> None]
  /\ req = [c \in Clients |-> NoRequest]
  /\ dest = [c \in Clients |-> NoFile]
  /\ code = [c \in Clients |-> 0]
  /\ toServer = [c \in Clients |-> <<>>]
  /\ toClient = [c \in Clients |-> <<>>]
  /\ ahead = [c \in Clients |-> FALSE]
  /\ files = [n \in Names |-> IF n[1] \in Present /\ n[2] = 0 THEN "first" ELSE None]
  /\ client = [c \in Clients |-> "away"]
  /\ asked = [c \in Clients |-> NoRequest]
  /\ sent = [c \in Clients |-> 0]
  /\ held = [c \in Clients |-> FALSE]
  /\ plain = [c \in Clients |-> TRUE]

Set(f, c, v) == [f EXCEPT ![c] = v]
Push(q, c, m) == [q EXCEPT ![c] = Append(@, m)]
Pop(q, c, n) == [q EXCEPT ![c] = SubSeq(@, n + 1, Len(@))]
First(q, c, k) == q[c] # <<>> /\ q[c][1].kind = k

----------------------------------------------------------------------------
(* ListenAndServe: Accept, then g.Add, which waits for a free place. *)

Accept(c) ==
  /\ up
  /\ loop = Nobody
  /\ conn[c] = "queued"
  /\ loop' = c
  /\ conn' = Set(conn, c, "held")
  /\ UNCHANGED <<up, toServer, toClient, slots, handler, req, dest, code, ahead, files, clientVars>>

Add ==
  /\ up
  /\ loop # Nobody
  /\ slots < Limit
  /\ slots' = slots + 1
  /\ handler' = Set(handler, loop, "read")
  /\ conn' = Set(conn, loop, "open")
  /\ loop' = Nobody
  /\ UNCHANGED <<up, toServer, toClient, req, dest, code, ahead, files, clientVars>>

----------------------------------------------------------------------------
(* HandleConnection: the status of a request that needs no file written. *)

Exists(p) == p \in Dirs \/ (p \in Valid \cup Present /\ files[<<p, 0>>] # None)

GetHandler(p) ==
  CASE ~Exists(p) -> 404
    [] p \in Dirs \/ p \in Valid -> 200
    [] OTHER -> 400

UnsupportedMethodHandler == 501

Dispatched(r) ==
  CASE r.method = "GET" -> GetHandler(r.path)
    [] r.method = "POST" -> IF r.path \in Valid THEN 0 ELSE 400
    [] OTHER -> UnsupportedMethodHandler

WrongFreed(err) == IF err = "EOF" THEN slots - 1 ELSE slots
Freed(err) == slots - 1

ReadRequest(c) ==
  /\ up
  /\ handler[c] = "read"
  /\ First(toServer, c, "head")
  /\ \E k \in 1 .. Len(toServer[c]) :
       /\ toServer' = Pop(toServer, c, k)
       /\ ahead' = Set(ahead, c, k > 1)
  /\ LET r == toServer[c][1].is IN
       /\ req' = Set(req, c, r)
       /\ code' = Set(code, c, Dispatched(r))
       /\ handler' = Set(handler, c, IF Dispatched(r) = 0 THEN "stat" ELSE "head")
  /\ UNCHANGED <<up, conn, toClient, loop, slots, dest, files, clientVars>>

(* The rest of an earlier request is no request: the place is given back,  *)
(* then the client is told.                                                *)
BadRequest(c) ==
  /\ up
  /\ handler[c] = "read"
  /\ First(toServer, c, "body")
  /\ toServer' = Pop(toServer, c, Len(toServer[c]))
  /\ slots' = Freed("malformed")
  /\ handler' = Set(handler, c, "bad")
  /\ UNCHANGED <<up, conn, toClient, loop, req, dest, code, ahead, files, clientVars>>

SendBad(c) ==
  /\ up
  /\ handler[c] = "bad"
  /\ handler' = Set(handler, c, None)
  /\ conn' = Set(conn, c, "closed")
  /\ UNCHANGED <<up, toServer, toClient, loop, slots, req, dest, code, ahead, files, clientVars>>

ClientLeft(c) ==
  /\ up
  /\ handler[c] = "read"
  /\ client[c] \in {"gone", "failed"}
  /\ toServer[c] = <<>>
  /\ slots' = Freed("EOF")
  /\ handler' = Set(handler, c, None)
  /\ conn' = Set(conn, c, "closed")
  /\ UNCHANGED <<up, toServer, toClient, loop, req, dest, code, ahead, files, clientVars>>

----------------------------------------------------------------------------
(* PostHandler with DownloadFile: a name that is taken gets a (1). *)

Place(p) == <<p, IF Exists(p) THEN 1 ELSE 0>>

Stat(c) ==
  /\ up
  /\ handler[c] = "stat"
  /\ dest' = Set(dest, c, Place(req[c].path))
  /\ handler' = Set(handler, c, "create")
  /\ UNCHANGED <<up, wires, loop, slots, req, code, ahead, files, clientVars>>

(* A failed os.Create only prints; the nil file fails the write. *)
Create(c) ==
  /\ up
  /\ handler[c] = "create"
  /\ IF req[c].path \in Homeless
     THEN dest' = Set(dest, c, NoFile) /\ UNCHANGED files
     ELSE files' = [files EXCEPT ![dest[c]] = "cut"] /\ UNCHANGED dest
  /\ handler' = Set(handler, c, "body")
  /\ UNCHANGED <<up, wires, loop, slots, req, code, ahead, clientVars>>

Saved(c, come) ==
  IF dest[c] = NoFile THEN files
  ELSE [files EXCEPT ![dest[c]] = IF come THEN c ELSE "cut"]

(* ReadAll of a body whose client died gives what came: an error that only *)
(* prints, and a file cut short that is answered 200.                      *)
ReadBody(c) ==
  /\ up
  /\ handler[c] = "body"
  /\ LET come == ahead[c] \/ First(toServer, c, "body") IN
       /\ come \/ client[c] = "gone"
       /\ toServer' = IF ahead[c] \/ ~come THEN toServer ELSE Pop(toServer, c, 1)
       /\ files' = Saved(c, come)
  /\ code' = Set(code, c, IF dest[c] = NoFile THEN 500 ELSE 200)
  /\ handler' = Set(handler, c, "head")
  /\ UNCHANGED <<up, conn, toClient, loop, slots, req, dest, ahead, clientVars>>

----------------------------------------------------------------------------
(* Response.Write writes head and body to the connection one by one.  A    *)
(* response of PostHandler's error path has no body: the defer that closes *)
(* it panics, and the server ends.                                         *)

WriteHead(c) ==
  /\ up
  /\ handler[c] = "head"
  /\ toClient' = Push(toClient, c, HeadOf(code[c]))
  /\ IF code[c] = 500
     THEN up' = FALSE /\ UNCHANGED handler
     ELSE handler' = Set(handler, c, "tail") /\ UNCHANGED up
  /\ UNCHANGED <<conn, toServer, loop, slots, req, dest, code, ahead, files, clientVars>>

WriteTail(c) ==
  /\ up
  /\ handler[c] = "tail"
  /\ toClient' = Push(toClient, c, Body)
  /\ handler' = Set(handler, c, "read")
  /\ req' = Set(req, c, NoRequest)
  /\ code' = Set(code, c, 0)
  /\ dest' = Set(dest, c, NoFile)
  /\ ahead' = Set(ahead, c, FALSE)
  /\ UNCHANGED <<up, conn, toServer, loop, slots, files, clientVars>>

----------------------------------------------------------------------------
(* The client: main, and sender for each request *)

Connect(c) ==
  /\ up
  /\ client[c] = "away"
  /\ client' = Set(client, c, "ready")
  /\ conn' = Set(conn, c, "queued")
  /\ UNCHANGED <<up, toServer, toClient, serverVars, asked, sent, held, plain>>

SendHead(c) ==
  /\ client[c] = "ready"
  /\ sent[c] < MaxRequests[c]
  /\ \E r \in Requests :
       /\ asked' = Set(asked, c, r)
       /\ toServer' = Push(toServer, c, HeadOf(r))
       /\ client' = Set(client, c, IF r.method = "POST" THEN "sending" ELSE "waiting")
  /\ sent' = [sent EXCEPT ![c] = @ + 1]
  /\ UNCHANGED <<up, conn, toClient, serverVars, held, plain>>

SendBody(c) ==
  /\ client[c] = "sending"
  /\ toServer' = Push(toServer, c, Body)
  /\ client' = Set(client, c, "waiting")
  /\ UNCHANGED <<up, conn, toClient, serverVars, asked, sent, held, plain>>

(* Only the body of a GET answered 200 is read. *)
Wanted(c, status) == asked[c].method = "GET" /\ status = 200

WrongReadHead(c) ==
  /\ client[c] = "waiting"
  /\ First(toClient, c, "head")
  /\ toClient' = Pop(toClient, c, 1)
  /\ client' = Set(client, c, "ready")
  /\ UNCHANGED <<up, conn, toServer, serverVars, asked, sent, held, plain>>
ReadHead(c) ==
  /\ client[c] = "waiting"
  /\ First(toClient, c, "head")
  /\ \E k \in 1 .. Len(toClient[c]) :
       /\ toClient' = Pop(toClient, c, k)
       /\ held' = Set(held, c, k > 1)
  /\ LET want == Wanted(c, toClient[c][1].is) IN
       /\ client' = Set(client, c, IF want THEN "body" ELSE "ready")
       /\ plain' = [plain EXCEPT ![c] = @ /\ want]
  /\ UNCHANGED <<up, conn, toServer, serverVars, asked, sent>>

ReadTail(c) ==
  /\ client[c] = "body"
  /\ held[c] \/ First(toClient, c, "body")
  /\ toClient' = IF held[c] THEN toClient ELSE Pop(toClient, c, 1)
  /\ held' = Set(held, c, FALSE)
  /\ client' = Set(client, c, "ready")
  /\ UNCHANGED <<up, conn, toServer, serverVars, asked, sent, plain>>

(* DownloadFile splits a name that is taken on the client's own disk at    *)
(* its dot.  A directory's name may have none: the client panics.          *)
NameTaken(c) ==
  /\ client[c] = "body"
  /\ asked[c].path \in Dirs
  /\ client' = Set(client, c, "gone")
  /\ UNCHANGED <<up, wires, serverVars, asked, sent, held, plain>>

(* A response that does not parse, or none at all, is nil, and closing its *)
(* body panics.  A write to a connection that is closed ends the client.   *)
Misread(c) ==
  /\ \/ client[c] = "waiting" /\ First(toClient, c, "body")
     \/ client[c] \in {"waiting", "body", "sending"} /\ toClient[c] = <<>>
                                                     /\ (conn[c] = "closed" \/ ~up)
  /\ client' = Set(client, c, "failed")
  /\ UNCHANGED <<up, wires, serverVars, asked, sent, held, plain>>

Exit(c) ==
  /\ client[c] = "ready"
  /\ client' = Set(client, c, "gone")
  /\ UNCHANGED <<up, wires, serverVars, asked, sent, held, plain>>

(* The client's process is killed in the middle of an upload. *)
Killed(c) ==
  /\ client[c] = "sending"
  /\ client' = Set(client, c, "gone")
  /\ UNCHANGED <<up, wires, serverVars, asked, sent, held, plain>>

----------------------------------------------------------------------------
HandleConnection(c) ==
  \/ ReadRequest(c)
  \/ BadRequest(c)
  \/ SendBad(c)
  \/ ClientLeft(c)
  \/ Stat(c)
  \/ Create(c)
  \/ ReadBody(c)
  \/ WriteHead(c)
  \/ WriteTail(c)

sender(c) ==
  \/ SendHead(c)
  \/ SendBody(c)
  \/ ReadHead(c)
  \/ ReadTail(c)
  \/ Misread(c)

Next ==
  \/ Add
  \/ \E c \in Clients : \/ Accept(c)
                        \/ HandleConnection(c)
                        \/ Connect(c)
                        \/ sender(c)
                        \/ Exit(c)
                        \/ Killed(c)
                        \/ NameTaken(c)

Spec == Init /\ [][Next]_vars

(* The server's goroutines run; a client may stop at any point. *)
Fairness ==
  /\ WF_vars(Add)
  /\ \A c \in Clients : WF_vars(Accept(c)) /\ WF_vars(HandleConnection(c))

----------------------------------------------------------------------------
(* Properties *)

(* Client/main.go leaves the body of every answer unread but that of a GET *)
(* answered 200, and of a refused POST the server leaves the body unread.  *)
(* A client that got nothing else so far takes every answer for the one to *)
(* its own request: as long as the server runs it never misreads one, nor  *)
(* finds its connection closed.                                            *)
KeepsStep == \A c \in Clients : client[c] = "failed" /\ plain[c] => ~up

(* A client that connected is served in the end if the others do not keep  *)
(* their connections for ever, unless the server ends.                     *)
Served ==
  \A c \in Clients :
    (\A d \in Clients \ {c} : []<>(handler[d] = None))
      => (conn[c] = "queued" ~> (conn[c] = "open" \/ ~up))
=============================================================================
