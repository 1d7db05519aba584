------------------------------- MODULE Proxy -------------------------------
(***************************************************************************)
(* The proxy of Lab1 (Proxy/main.go) with its clients (Client/main.go:     *)
(* main and proxy).  A client first names its server, in a message of its  *)
(* own that may yet arrive together with the request that follows.  The    *)
(* server behind the proxy answers, or its connection breaks.              *)
(***************************************************************************)
EXTENDS Integers, Sequences

CONSTANTS
  Clients,
  Reachable,    \* the clients that name a server that can be dialled
  Methods,      \* what they ask for: "GET", "OTHER"
  MaxRequests   \* bound: requests of one client

VARIABLES
  up,           \* the proxy runs
  loop,         \* the client whose first message main waits for; nil if Accept failed
  conn,         \* each client's connection
  wire,         \* what is on the way to the proxy
  server,       \* the proxy's connection to the client's server
  handler,      \* how far handleClientRequest is
  answers,      \* what is on the way to the client
  client,       \* how far the client is
  sent          \* the number of its requests

vars == <<up, loop, conn, wire, server, handler, answers, client, sent>>

None == "none"
Nobody == "nobody"
Nil == "nil"
Set(f, c, v) == [f EXCEPT ![c] = v]

Init ==
  /\ up = TRUE
  /\ loop = Nobody
  /\ conn = [c \in Clients |-> None]
  /\ wire = [c \in Clients |-> <<>>]
  /\ server = [c \in Clients |-> None]
  /\ handler = [c \in Clients |-> None]
  /\ answers = [c \in Clients |-> <<>>]
  /\ client = [c \in Clients |-> "away"]
  /\ sent = [c \in Clients |-> 0]

----------------------------------------------------------------------------
(* main: Accept, then a Read of at most 1024 bytes in the same goroutine.  *)

Accept(c) ==
  /\ up
  /\ loop = Nobody
  /\ conn[c] = "queued"
  /\ loop' = c
  /\ conn' = Set(conn, c, "accepted")
  /\ UNCHANGED <<up, wire, server, handler, answers, client, sent>>

(* A failed Accept, for want of a file descriptor say, is only printed: the *)
(* client is nil, and the Read of nil panics.                               *)
AcceptFails ==
  /\ up
  /\ loop = Nobody
  /\ loop' = Nil
  /\ UNCHANGED <<up, conn, wire, server, handler, answers, client, sent>>

ReadNil ==
  /\ up
  /\ loop = Nil
  /\ up' = FALSE
  /\ UNCHANGED <<loop, conn, wire, server, handler, answers, client, sent>>

(* Everything but the last byte is the address; with the request behind it *)
(* it is none.  A failed Dial gives nil and the client is handled all the  *)
(* same.                                                                   *)
Dial(c, k) == IF k = 1 /\ c \in Reachable THEN "ok" ELSE "nil"

ReadHost ==
  /\ up
  /\ loop \notin {Nobody, Nil}
  /\ \E k \in 1 .. Len(wire[loop]) :
       /\ wire' = [wire EXCEPT ![loop] = SubSeq(@, k + 1, Len(@))]
       /\ server' = Set(server, loop, Dial(loop, k))
  /\ handler' = Set(handler, loop, "read")
  /\ loop' = Nobody
  /\ UNCHANGED <<up, conn, answers, client, sent>>

(* Read gives nothing when the client left: the slice up to -1 panics. *)
WrongNoHost ==
  /\ up
  /\ loop \notin {Nobody, Nil}
  /\ wire[loop] = <<>>
  /\ client[loop] = "gone"
  /\ UNCHANGED vars
NoHost ==
  /\ up
  /\ loop \notin {Nobody, Nil}
  /\ wire[loop] = <<>>
  /\ client[loop] = "gone"
  /\ up' = FALSE
  /\ UNCHANGED <<loop, conn, wire, server, handler, answers, client, sent>>

----------------------------------------------------------------------------
(* handleClientRequest.  It takes one Read of at most 1024 bytes for a      *)
(* request.                                                                 *)

(* Every early return but that on EOF leaves both connections open. *)
Answer(c, status, next) ==
  /\ answers' = [answers EXCEPT ![c] = IF client[c] = "gone" THEN @ ELSE Append(@, status)]
  /\ handler' = Set(handler, c, next)

ReadRequest(c) ==
  /\ up
  /\ handler[c] = "read"
  /\ wire[c] # <<>>
  /\ wire' = Set(wire, c, Tail(wire[c]))
  /\ CASE Head(wire[c]) # "GET" ->
            Answer(c, 501, "returned") /\ UNCHANGED up
       [] Head(wire[c]) = "GET" /\ server[c] = "nil" ->  \* Write to nil panics
            up' = FALSE /\ UNCHANGED <<answers, handler>>
       [] OTHER ->
            handler' = Set(handler, c, "forward") /\ UNCHANGED <<up, answers>>
  /\ UNCHANGED <<loop, conn, server, client, sent>>

(* A longer one, or one of which only a part has come, does not parse. *)
BadRequest(c) ==
  /\ up
  /\ handler[c] = "read"
  /\ wire[c] # <<>>
  /\ wire' = Set(wire, c, Tail(wire[c]))
  /\ handler' = Set(handler, c, "returned")
  /\ UNCHANGED <<up, loop, conn, server, answers, client, sent>>

(* EOF: both connections are closed; closing nil panics.  A connection that *)
(* was reset is another error: the handler just returns.                    *)
ReadEOF(c) ==
  /\ up
  /\ handler[c] = "read"
  /\ wire[c] = <<>>
  /\ client[c] = "gone"
  /\ \/ server[c] = "nil" /\ up' = FALSE /\ UNCHANGED server
     \/ server[c] # "nil" /\ server' = Set(server, c, "closed") /\ UNCHANGED up
     \/ UNCHANGED <<up, server>>
  /\ handler' = Set(handler, c, "returned")
  /\ UNCHANGED <<loop, conn, wire, answers, client, sent>>

(* The server's response is copied; without one the client is told 500. *)
WrongForward(c) ==
  /\ up
  /\ handler[c] = "forward"
  /\ \/ Answer(c, 200, "read") /\ UNCHANGED up
     \/ up' = FALSE /\ UNCHANGED <<answers, handler>>
  /\ UNCHANGED <<loop, conn, wire, server, client, sent>>
Forward(c) ==
  /\ up
  /\ handler[c] = "forward"
  /\ \/ Answer(c, 200, "read")
     \/ client[c] = "gone" /\ Answer(c, 200, "returned")
     \/ Answer(c, 500, "returned")
  /\ UNCHANGED <<up, loop, conn, wire, server, client, sent>>

----------------------------------------------------------------------------
(* The client *)

Connect(c) ==
  /\ up
  /\ client[c] = "away"
  /\ client' = Set(client, c, "silent")
  /\ conn' = Set(conn, c, "queued")
  /\ UNCHANGED <<up, loop, wire, server, handler, answers, sent>>

NameHost(c) ==
  /\ client[c] = "silent"
  /\ client' = Set(client, c, "ready")
  /\ wire' = [wire EXCEPT ![c] = Append(@, "host")]
  /\ UNCHANGED <<up, loop, conn, server, handler, answers, sent>>

Ask(c) ==
  /\ client[c] = "ready"
  /\ sent[c] < MaxRequests
  /\ \E m \in Methods : wire' = [wire EXCEPT ![c] = Append(@, m)]
  /\ client' = Set(client, c, "waiting")
  /\ sent' = [sent EXCEPT ![c] = @ + 1]
  /\ UNCHANGED <<up, loop, conn, server, handler, answers>>

GetAnswer(c) ==
  /\ client[c] = "waiting"
  /\ answers[c] # <<>>
  /\ answers' = Set(answers, c, Tail(answers[c]))
  /\ client' = Set(client, c, "ready")
  /\ UNCHANGED <<up, loop, conn, wire, server, handler, sent>>

(* By "exit", or because the process ends; the proxy's end also ends it.   *)
Leave(c) ==
  /\ client[c] \in {"silent", "ready", "waiting"}
  /\ client' = Set(client, c, "gone")
  /\ answers' = Set(answers, c, <<>>)
  /\ UNCHANGED <<up, loop, conn, wire, server, handler, sent>>

----------------------------------------------------------------------------
ProxyStep ==
  \/ ReadNil
  \/ ReadHost
  \/ NoHost

handleClientRequest(c) ==
  \/ ReadRequest(c)
  \/ BadRequest(c)
  \/ ReadEOF(c)
  \/ Forward(c)

Next ==
  \/ AcceptFails
  \/ ProxyStep
  \/ \E c \in Clients : \/ Accept(c)
                        \/ handleClientRequest(c)
                        \/ Connect(c)
                        \/ NameHost(c)
                        \/ Ask(c)
                        \/ GetAnswer(c)
                        \/ Leave(c)

Spec == Init /\ [][Next]_vars

(* The proxy's goroutines run, and a client that is answered reads it. *)
Fairness ==
  /\ WF_vars(ProxyStep)
  /\ \A c \in Clients : /\ WF_vars(Accept(c))
                        /\ WF_vars(handleClientRequest(c))
                        /\ WF_vars(GetAnswer(c))

----------------------------------------------------------------------------
(* Properties *)

(* A panic in one goroutine ends the proxy for all.  It takes an Accept    *)
(* that failed, a client that left before it named a server, or one whose  *)
(* server could not be dialled or whose address was not read alone: what a *)
(* client with a good address, or its server, does later never ends it.    *)
EndsOnlyOnArrival ==
  ~up => \/ loop = Nil
         \/ \E c \in Clients : server[c] = "nil"
         \/ loop \notin {Nobody, Nil} /\ client[loop] = "gone" /\ server[loop] = None

(* The accept loop waits for the first message of one client at a time:    *)
(* every client is accepted if none stays silent for ever.                 *)
Accepted ==
  (\A c \in Clients : []<>(client[c] # "silent"))
    => \A c \in Clients : conn[c] = "queued" ~> (conn[c] = "accepted" \/ ~up)
=============================================================================
