---------------------------- MODULE ChordLookup ----------------------------
(***************************************************************************)
(* Lookup in the Chord ring (Lab2/Node/routing.go): find at one node calls *)
(* FindSuccessorRPC, which calls itself at another node until one of them  *)
(* answers.  The nodes whose handlers wait for each other are path.        *)
(*                                                                         *)
(* Every RPC is a step, and meanwhile stablize and fixFingers change the   *)
(* pointers: FindSuccessorRPC reads Successors[0] again after it has asked *)
(* for its name, and closePrecedingNode a finger after it has tested it.   *)
(* How the pointers change is not said here: to any address.               *)
(* ptr[n][0] is Successors[0] of n, ptr[n][i] the address in finger i.     *)
(***************************************************************************)
EXTENDS Integers, Sequences

CONSTANTS
  Nodes,
  HashMod,           \* 2^m, the size of the identifier space
  Id,                \* Identifier: the hash of the name, perhaps not unique
  fingerTableSize,
  InitPtr,           \* the pointers a lookup may find when it starts
  MaxChanges         \* bound: how often the pointers change during it

NoAddr == "no address"     \* "", "-1" and the error texts used as addresses
Addrs == Nodes \cup {NoAddr}
Idents == 0 .. HashMod - 1
Slots == 0 .. fingerTableSize

(* fixFingers stores only addresses of nodes that answered it; stablize    *)
(* may leave "" in Successors[0], and joinChord an error text.             *)
Pointers == {p \in [Nodes -> [Slots -> Addrs]] :
               \A n \in Nodes : \A i \in Slots \ {0} : p[n][i] \in Nodes}

ASSUME SpaceAssumption == HashMod \in Nat \ {0} /\ Id \in [Nodes -> Idents]
ASSUME TableAssumption == fingerTableSize \in Nat /\ MaxChanges \in Nat
ASSUME PtrAssumption == InitPtr \subseteq Pointers
ASSUME AddrAssumption == NoAddr \notin Nodes

VARIABLES
  alive,      \* the nodes that are up
  ptr,
  changes,    \* how many pointer changes there were
  key,        \* the identifier looked up
  path,       \* the FindSuccessorRPC handlers, each waiting for the next
  phase,      \* what the last of them does, or how far find is
  slot,       \* the pointer closePrecedingNode tests or has chosen
  seen,       \* value of changes when the last handler tested Successors[0]
  reply       \* the FindSuccessorRPCReply on its way, or what find returns

pointers == <<alive, ptr, changes>>
vars == <<pointers, key, path, phase, slot, seen, reply>>

(* Clockwise distance, a full turn from an identifier to itself. *)
Dist(a, b) == IF b > a THEN b - a ELSE b - a + HashMod

between(start, elt, end, inclusive) ==
  IF end > start
  THEN (start < elt /\ elt < end) \/ (inclusive /\ elt = end)
  ELSE start < elt \/ elt < end \/ (inclusive /\ elt = end)

(* ChordCall gets through: the address is well formed, the node is up. *)
Reachable(a) == a \in alive

Here == path[Len(path)]
Succ(n) == ptr[n][0]
NoReply == [Found |-> FALSE, Addr |-> NoAddr]

TypeOK ==
  /\ alive \subseteq Nodes
  /\ ptr \in Pointers
  /\ changes \in 0 .. MaxChanges
  /\ key \in Idents
  /\ path \in Seq(Nodes)
  /\ phase \in {"start", "call", "answer", "forward", "hop", "return", "done"}
  /\ slot \in Slots
  /\ seen \in 0 .. MaxChanges
  /\ reply \in [Found : BOOLEAN, Addr : Addrs]

Init ==
  /\ alive = Nodes
  /\ ptr \in InitPtr
  /\ changes = 0
  /\ key \in Idents
  /\ path = <<>>
  /\ phase = "start"
  /\ slot = 0
  /\ seen = 0
  /\ reply = NoReply

----------------------------------------------------------------------------
(* Definitions marked Wrong are faulty variants of the definition that     *)
(* follows them.                                                           *)

(* find and clientLookUp: the lookup starts at the client's own node. *)
Start(n) ==
  /\ phase = "start"
  /\ Reachable(n)
  /\ path' = <<n>>
  /\ phase' = "call"
  /\ UNCHANGED <<pointers, key, slot, seen, reply>>

(* FindSuccessorRPC as far as closePrecedingNode: ask Successors[0] for    *)
(* its name; without an answer the reply is an error text and not Found.   *)
SuccessorDead ==
  /\ phase = "call"
  /\ Reachable(Here)
  /\ ~Reachable(Succ(Here))
  /\ phase' = "return"
  /\ reply' = NoReply
  /\ UNCHANGED <<pointers, key, path, slot, seen>>

Owns(n) == between(Id[n], key, Id[Succ(n)], TRUE)

Owned ==
  /\ phase = "call"
  /\ Reachable(Here)
  /\ Reachable(Succ(Here))
  /\ Owns(Here)
  /\ phase' = "answer"
  /\ UNCHANGED <<pointers, key, path, slot, seen, reply>>

WrongAnswerOf(n) == [Found |-> TRUE, Addr |-> n]
AnswerOf(n) == [Found |-> TRUE, Addr |-> Succ(n)]

(* The reply names Successors[0] as it is after the call for its name. *)
Answer ==
  /\ phase = "answer"
  /\ Reachable(Here)
  /\ phase' = "return"
  /\ reply' = AnswerOf(Here)
  /\ UNCHANGED <<pointers, key, path, slot, seen>>

Forward ==
  /\ phase = "call"
  /\ Reachable(Here)
  /\ Reachable(Succ(Here))
  /\ ~Owns(Here)
  /\ phase' = "forward"
  /\ slot' = fingerTableSize
  /\ seen' = changes
  /\ UNCHANGED <<pointers, key, path, reply>>

WrongCloser(n, a) == Reachable(a) /\ between(Id[n], Id[a], key, TRUE)
Closer(n, a) == Reachable(a) /\ between(Id[n], Id[a], key, FALSE)

NoFingerLeft(i) == i = 0

(* closePrecedingNode: the fingers from the last to the first, one call    *)
(* each; Successors[0] when none of them will do.                          *)
closePrecedingNode ==
  /\ phase = "forward"
  /\ Reachable(Here)
  /\ IF NoFingerLeft(slot) \/ Closer(Here, ptr[Here][slot])
     THEN phase' = "hop" /\ UNCHANGED slot
     ELSE phase' = "forward" /\ slot' = slot - 1
  /\ UNCHANGED <<pointers, key, path, seen, reply>>

(* The call of FindSuccessorRPC at the chosen pointer, read again. *)
Hop ==
  /\ phase = "hop"
  /\ Reachable(Here)
  /\ IF Reachable(ptr[Here][slot])
     THEN /\ path' = Append(path, ptr[Here][slot])
          /\ phase' = "call"
          /\ UNCHANGED reply
     ELSE /\ phase' = "return"
          /\ reply' = NoReply
          /\ UNCHANGED path
  /\ UNCHANGED <<pointers, key, slot, seen>>

(* A handler takes the reply of the one it called: Found, whatever that    *)
(* one said.                                                               *)
Return ==
  /\ phase = "return"
  /\ Len(path) > 1
  /\ Reachable(Here)
  /\ path' = SubSeq(path, 1, Len(path) - 1)
  /\ reply' = [reply EXCEPT !.Found = TRUE]
  /\ UNCHANGED <<pointers, key, phase, slot, seen>>

(* A handler's node went down: the one that called it gets an error.       *)
WrongBroken(j) ==
  /\ phase = "return"
  /\ ~Reachable(path[j])
  /\ path' = SubSeq(path, 1, j - 1)
  /\ phase' = "return"
  /\ reply' = NoReply
  /\ UNCHANGED <<pointers, key, slot, seen>>

Broken(j) ==
  /\ phase \notin {"start", "done"}
  /\ ~Reachable(path[j])
  /\ path' = SubSeq(path, 1, j - 1)
  /\ phase' = "return"
  /\ reply' = NoReply
  /\ UNCHANGED <<pointers, key, slot, seen>>

(* find again.  After a reply that is not Found it goes on with the error  *)
(* text as the next address; every further call fails, and it returns -1.  *)
Finish ==
  /\ phase = "return"
  /\ Len(path) = 1
  /\ Reachable(Here)
  /\ phase' = "done"
  /\ UNCHANGED <<pointers, key, path, slot, seen, reply>>

----------------------------------------------------------------------------
(* The surroundings: stablize and fixFingers write a pointer, nodes crash. *)

Change(n, i, a) ==
  /\ changes < MaxChanges
  /\ n \in alive
  /\ i # 0 => a \in Nodes
  /\ ptr' = [ptr EXCEPT ![n][i] = a]
  /\ changes' = changes + 1
  /\ UNCHANGED <<alive, key, path, phase, slot, seen, reply>>

Crash(n) ==
  /\ n \in alive
  /\ alive' = alive \ {n}
  /\ UNCHANGED <<ptr, changes, key, path, phase, slot, seen, reply>>

LookupStep ==
  \/ SuccessorDead
  \/ Owned
  \/ Answer
  \/ Forward
  \/ closePrecedingNode
  \/ Hop
  \/ Return
  \/ \E j \in 2 .. Len(path) : Broken(j)
  \/ Finish

Next ==
  \/ \E n \in Nodes : Start(n) \/ Crash(n)
  \/ LookupStep
  \/ \E n \in Nodes, i \in Slots, a \in Addrs : Change(n, i, a)

Spec == Init /\ [][Next]_vars

----------------------------------------------------------------------------
(* Properties *)

(* FindSuccessorRPC nests a call in a call with no limit of its own.  Each *)
(* hop goes to a node strictly before the key, so the handlers waiting for *)
(* each other are at most HashMod, and at most HashMod more for every      *)
(* pointer that changed between its test and its use.                      *)
HopsBounded == Len(path) <= HashMod * (1 + changes)

(* The node a key belongs to: none is met earlier, clockwise from the key. *)
Offset(a, b) == IF b >= a THEN b - a ELSE b - a + HashMod
IsOwner(n, k) == n \in Nodes /\ \A m \in Nodes : Offset(k, Id[n]) <= Offset(k, Id[m])

(* Every node is up and its Successors[0] is the next node on the ring. *)
Ideal ==
  /\ alive = Nodes
  /\ \A n \in Nodes :
       /\ Succ(n) \in Nodes
       /\ \A m \in Nodes : Dist(Id[n], Id[Succ(n)]) <= Dist(Id[n], Id[m])

(* README: Lookup returns the address of the file storage node.  As long   *)
(* as the nodes stay up and the successors right, whatever the fingers are *)
(* and however they change meanwhile, find succeeds and returns the node   *)
(* the key belongs to.                                                     *)
AnswerIsOwner == phase = "done" => reply.Found /\ IsOwner(reply.Addr, key)
LookupCorrect == []Ideal => []AnswerIsOwner

(* routing.go: found says whether the key is found.  What find takes for   *)
(* the address of the key's node is the address of a node.                 *)
FoundIsNode == (phase = "done" /\ reply.Found) => reply.Addr \in Nodes

----------------------------------------------------------------------------
(* A lookup that started ends, unless the node that asked goes down, with  *)
(* nodes crashing and pointers changing on the way.                        *)
LookupEnds ==
  (phase = "call") ~> (phase = "done" \/ (path # <<>> /\ ~Reachable(path[1])))
=============================================================================
