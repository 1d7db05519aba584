---------------------------- MODULE ChordFingers ----------------------------
(***************************************************************************)
(* The finger table of one node (Lab2/Node/stabilizing.go, fixFingers).    *)
(* The ticker of main.go starts fixFingers as a goroutine whether or not   *)
(* the last one is over, and all of them move the one index next, without  *)
(* the lock that is commented out.  A step is one RPC with the code up to  *)
(* the next one.  Goroutines may also race inside such a step; that is     *)
(* left out, and only adds to what the overlap shows.                      *)
(*                                                                         *)
(* The rest of the ring is the set of its nodes.  A lookup is right once   *)
(* stablize has settled the ring (ChordLookup) and may give any address    *)
(* before.  Definitions marked Wrong are faulty variants of the definition *)
(* that follows them.                                                      *)
(***************************************************************************)
EXTENDS Integers, FiniteSets

CONSTANTS
  Nodes,
  self,             \* the node whose table this is
  HashMod,          \* 2^m
  Id,
  fingerTableSize,
  Threads,          \* bound: how many runs of fixFingers overlap
  MaxChanges        \* bound: how often a node joins or fails

NoAddr == "no address"
Slots == 0 .. fingerTableSize      \* the table has one entry more than fingers

VARIABLES
  members,      \* the nodes that are up
  settled,      \* successors are right: lookups are
  changes,
  next,
  finger,       \* FingerTable[i].Address; Id is only printed
  thread,       \* runs of fixFingers: pc, id, SuccessorAddress of the result
  up            \* FALSE when an index out of range has ended the process

vars == <<members, settled, changes, next, finger, thread, up>>
ring == <<members, settled, changes>>

between(start, elt, end, inclusive) ==
  IF end > start
  THEN (start < elt /\ elt < end) \/ (inclusive /\ elt = end)
  ELSE start < elt \/ elt < end \/ (inclusive /\ elt = end)

SuccessorOf(id) ==
  CHOOSE m \in members : \A k \in members : (Id[m] - id) % HashMod <= (Id[k] - id) % HashMod

(* Exp of package big is 1 for an exponent that is not positive. *)
fingerEntry(k) == (Id[self] + IF k > 0 THEN 2 ^ (k - 1) ELSE 1) % HashMod

Idle == [pc |-> "idle", id |-> 0, addr |-> NoAddr]

(* initFingerTable *)
Init ==
  /\ members = Nodes
  /\ settled = TRUE
  /\ changes = 0
  /\ next = 0
  /\ finger = [i \in Slots |-> self]
  /\ thread = [t \in Threads |-> Idle]
  /\ up = TRUE

----------------------------------------------------------------------------
(* Another node joins or fails; stablize repairs the successors later. *)
Change(n) ==
  /\ n # self
  /\ changes < MaxChanges
  /\ changes' = changes + 1
  /\ members' = IF n \in members THEN members \ {n} ELSE members \cup {n}
  /\ settled' = FALSE
  /\ UNCHANGED <<next, finger, thread, up>>

Settle ==
  /\ ~settled
  /\ settled' = TRUE
  /\ UNCHANGED <<members, changes, next, finger, thread, up>>

First == IF next + 1 > fingerTableSize THEN 1 ELSE next + 1

fixFingers(t) ==
  /\ up
  /\ thread[t] = Idle
  /\ next' = First
  /\ thread' = [thread EXCEPT ![t] = [Idle EXCEPT !.pc = "find", !.id = fingerEntry(next')]]
  /\ UNCHANGED <<ring, finger, up>>

FindSuccessor(t) ==
  /\ up
  /\ thread[t].pc = "find"
  /\ \E a \in IF settled THEN {SuccessorOf(thread[t].id)} ELSE Nodes \cup {NoAddr} :
       thread' = [thread EXCEPT ![t].pc = "name", ![t].addr = a]
  /\ UNCHANGED <<ring, next, finger, up>>

(* The finger at next is set, wherever next points to by now, and next     *)
(* moves on.                                                               *)
SetFinger(t) ==
  IF next \in Slots
  THEN /\ finger' = [finger EXCEPT ![next] = thread[t].addr]
       /\ IF next + 1 > fingerTableSize
          THEN next' = 0 /\ thread' = [thread EXCEPT ![t] = Idle]
          ELSE /\ next' = next + 1
               /\ thread' = [thread EXCEPT ![t].pc = "loop", ![t].id = fingerEntry(next')]
       /\ UNCHANGED up
  ELSE up' = FALSE /\ UNCHANGED <<finger, next, thread>>

Stop(t) == thread' = [thread EXCEPT ![t] = Idle] /\ UNCHANGED <<finger, up>>

GetName(t) ==
  /\ up
  /\ thread[t].pc = "name"
  /\ IF thread[t].addr \in members THEN SetFinger(t) ELSE Stop(t) /\ UNCHANGED next
  /\ UNCHANGED ring

WrongSameSuccessor(id, a) == between(Id[self], Id[a], id, FALSE)
SameSuccessor(id, a) == between(Id[self], id, Id[a], FALSE)

(* The loop tries the same successor for the fingers that follow. *)
NextFinger(t) ==
  /\ up
  /\ thread[t].pc = "loop"
  /\ IF thread[t].addr \notin members THEN Stop(t) /\ UNCHANGED next
     ELSE IF SameSuccessor(thread[t].id, thread[t].addr) THEN SetFinger(t)
     ELSE Stop(t) /\ next' = next - 1
  /\ UNCHANGED ring

Step(t) == FindSuccessor(t) \/ GetName(t) \/ NextFinger(t)

Next ==
  \/ \E n \in Nodes : Change(n)
  \/ Settle
  \/ \E t \in Threads : fixFingers(t) \/ Step(t)

----------------------------------------------------------------------------
(* The shortcut of the loop, the failed calls that skip a finger and the   *)
(* wrap-around leave no finger behind: when the ring stops changing every  *)
(* finger comes to the successor of its start and stays there.             *)
FingersForm ==
  <>[](\A i \in Slots \ {0} : finger[i] = SuccessorOf(fingerEntry(i)))
=============================================================================
