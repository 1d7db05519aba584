------------------------------- MODULE LabRpc -------------------------------
(***************************************************************************)
(* The simulated network of the 6.824 labs (Lab3/src/labrpc/labrpc.go).    *)
(* A Call is a request that the network's goroutine takes and a processReq *)
(* goroutine carries to a server object.  processReq looks at the end and  *)
(* the server when it begins, runs the handler in a goroutine of its own,  *)
(* and looks again before it replies; in between anything may happen to    *)
(* either.  Sleeping is left out: a step may take any time.                *)
(*                                                                         *)
(* An end is named by who made it, in which incarnation, and the server it *)
(* is connected to: config.go draws a fresh random name for each, and      *)
(* connects it once.  A server object is a number, 0 for none.             *)
(* Definitions marked Wrong are faulty variants of the definition that     *)
(* follows them.                                                           *)
(***************************************************************************)
EXTENDS Naturals, Sequences, FiniteSets

CONSTANTS
  NServers,     \* how many servers there are
  Clerks,
  Calls         \* the Calls made, one element each

Servers == 1 .. NServers
Ends == (Servers \cup Clerks) \X Nat \X Servers
NoEnd == <<0, 0, 0>>
Owner(e) == e[1]
Connection(e) == e[3]

VARIABLES
  reliable, longReordering,
  ends,         \* names given to MakeEnd
  enabled,      \* ends that are enabled
  servers,      \* server object of each name
  done,         \* the network was cleaned up
  pc,           \* where each Call is
  from,         \* its end
  inst,         \* the server object processReq has read
  opts,         \* what it has read of reliable and longReordering
  handler       \* the goroutine in dispatch: none, runs, ran, returned

settings == <<reliable, longReordering, ends, enabled, servers, done>>
call == <<pc, from, inst, opts, handler>>
netvars == <<settings, call>>

NoOpts == [reliable |-> TRUE, longReordering |-> FALSE]
Waiting == {"sending", "request", "deliver", "wait", "got", "dead", "delayed", "timeout"}
Places == Waiting \cup {"idle", "true", "false"}

NetTypeOK ==
  /\ reliable \in BOOLEAN /\ longReordering \in BOOLEAN /\ done \in BOOLEAN
  /\ ends \subseteq Ends /\ enabled \subseteq ends
  /\ servers \in [Servers -> Nat]
  /\ pc \in [Calls -> Places]
  /\ from \in [Calls -> Ends \cup {NoEnd}]
  /\ \A c \in Calls : pc[c] # "idle" => from[c] \in ends
  /\ inst \in [Calls -> Nat]
  /\ opts \in [Calls -> [reliable : BOOLEAN, longReordering : BOOLEAN]]
  /\ handler \in [Calls -> {"none", "runs", "ran", "returned"}]

NetInit ==
  /\ reliable \in BOOLEAN
  /\ longReordering \in BOOLEAN
  /\ done = FALSE
  /\ pc = [c \in Calls |-> "idle"]
  /\ from = [c \in Calls |-> NoEnd]
  /\ inst = [c \in Calls |-> 0]
  /\ opts = [c \in Calls |-> NoOpts]
  /\ handler = [c \in Calls |-> "none"]

Go(c, place) == pc' = [pc EXCEPT ![c] = place]

----------------------------------------------------------------------------
(* Call, and the goroutine of MakeNetwork that takes its request. *)

Call(c, e) ==
  /\ pc[c] = "idle"
  /\ e \in ends
  /\ from' = [from EXCEPT ![c] = e]
  /\ Go(c, "sending")
  /\ UNCHANGED <<settings, inst, opts, handler>>

Receive(c) ==
  /\ pc[c] = "sending"
  /\ ~done
  /\ Go(c, "request")
  /\ UNCHANGED <<settings, from, inst, opts, handler>>

NetworkGone(c) ==
  /\ pc[c] = "sending"
  /\ done
  /\ Go(c, "false")
  /\ UNCHANGED <<settings, from, inst, opts, handler>>

----------------------------------------------------------------------------
(* processReq *)

readEndnameInfo(c) ==
  LET server == servers[Connection(from[c])] IN
  /\ pc[c] = "request"
  /\ inst' = [inst EXCEPT ![c] = server]
  /\ opts' = [opts EXCEPT ![c] = [reliable |-> reliable, longReordering |-> longReordering]]
  /\ Go(c, IF from[c] \in enabled /\ server # 0 THEN "deliver" ELSE "timeout")
  /\ UNCHANGED <<settings, from, handler>>

TimeOut(c) ==
  /\ pc[c] = "timeout"
  /\ Go(c, "false")
  /\ UNCHANGED <<settings, from, inst, opts, handler>>

DropRequest(c) ==
  /\ pc[c] = "deliver"
  /\ ~opts[c].reliable
  /\ Go(c, "false")
  /\ UNCHANGED <<settings, from, inst, opts, handler>>

Deliver(c) ==
  /\ pc[c] = "deliver"
  /\ Go(c, "wait")
  /\ handler' = [handler EXCEPT ![c] = "runs"]
  /\ UNCHANGED <<settings, from, inst, opts>>

(* dispatch: the method has run, and its reply is handed to processReq,    *)
(* if that still waits.                                                    *)
Return(c) ==
  /\ handler[c] = "ran"
  /\ handler' = [handler EXCEPT ![c] = "returned"]
  /\ pc' = IF pc[c] = "wait" THEN [pc EXCEPT ![c] = "got"] ELSE pc
  /\ UNCHANGED <<settings, from, inst, opts>>

WrongIsServerDead(c) == from[c] \notin enabled
WrongIsServerGone(c) == servers[Connection(from[c])] # inst[c]
isServerDead(c) == from[c] \notin enabled \/ servers[Connection(from[c])] # inst[c]

WrongPoll(c) == FALSE /\ UNCHANGED netvars

(* The poll every 100 ms while the handler runs. *)
Poll(c) ==
  /\ pc[c] = "wait"
  /\ isServerDead(c)
  /\ Go(c, "dead")
  /\ UNCHANGED <<settings, from, inst, opts, handler>>

(* isServerDead is asked again, then the dice. *)
NoReply(c) ==
  /\ \/ pc[c] = "dead"
     \/ pc[c] = "got" /\ (isServerDead(c) \/ ~opts[c].reliable)
  /\ Go(c, "false")
  /\ UNCHANGED <<settings, from, inst, opts, handler>>

Reply(c) ==
  /\ pc[c] = "got"
  /\ ~isServerDead(c)
  /\ \/ Go(c, "true")
     \/ opts[c].longReordering /\ Go(c, "delayed")
  /\ UNCHANGED <<settings, from, inst, opts, handler>>

LateReply(c) ==
  /\ pc[c] = "delayed"
  /\ Go(c, "true")
  /\ UNCHANGED <<settings, from, inst, opts, handler>>

(* Steps that only the network's own goroutines and timers take. *)
NetStep(c) ==
  \/ Receive(c) \/ NetworkGone(c) \/ readEndnameInfo(c) \/ TimeOut(c)
  \/ DropRequest(c) \/ Deliver(c) \/ Poll(c) \/ NoReply(c) \/ Reply(c) \/ LateReply(c)

----------------------------------------------------------------------------
(* What the tests set. *)

Reliable(yes) ==
  /\ reliable # yes
  /\ reliable' = yes
  /\ UNCHANGED <<longReordering, ends, enabled, servers, done, call>>

LongReordering(yes) ==
  /\ longReordering # yes
  /\ longReordering' = yes
  /\ UNCHANGED <<reliable, ends, enabled, servers, done, call>>

Cleanup ==
  /\ ~done
  /\ done' = TRUE
  /\ UNCHANGED <<reliable, longReordering, ends, enabled, servers, call>>
=============================================================================
