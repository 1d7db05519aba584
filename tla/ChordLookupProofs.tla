------------------------- MODULE ChordLookupProofs -------------------------
(***************************************************************************)
(* Proofs about ChordLookup, for every ring, every finger table size and   *)
(* any pointers: the nesting of FindSuccessorRPC is bounded, and on an     *)
(* ideal ring the answer is the node the key belongs to.                   *)
(***************************************************************************)
EXTENDS ChordLookup, SequenceTheorems, TLAPS

(* between of tools.go is an arc of the ring, the same for start < end,    *)
(* for an arc over zero and for start = end, which is the whole ring.      *)
LEMMA BetweenIsArc ==
  ASSUME NEW a \in Idents, NEW e \in Idents, NEW b \in Idents
  PROVE  /\ between(a, e, b, FALSE) <=> Dist(a, e) < Dist(a, b)
         /\ between(a, e, b, TRUE) <=> Dist(a, e) <= Dist(a, b)
  BY SpaceAssumption DEF between, Dist, Idents

LEMMA DistRange ==
  ASSUME NEW a \in Idents, NEW b \in Idents
  PROVE  Dist(a, b) \in 1 .. HashMod
  BY SpaceAssumption DEF Dist, Idents

(* A node on the arc from a to the key is closer to the key than a. *)
LEMMA ArcShrinks ==
  ASSUME NEW a \in Idents, NEW e \in Idents, NEW b \in Idents,
         Dist(a, e) < Dist(a, b)
  PROVE  Dist(e, b) < Dist(a, b)
  BY SpaceAssumption DEF Dist, Idents

LEMMA OffsetIs ==
  ASSUME NEW a \in Idents, NEW k \in Idents, NEW b \in Idents,
         Dist(a, k) <= Dist(a, b)
  PROVE  Offset(k, b) = Dist(a, b) - Dist(a, k)
  BY SpaceAssumption DEF Dist, Offset, Idents

(* The bound of HopsBounded grows by a full turn with every change. *)
Bound(c) == HashMod * (1 + c)

LEMMA BoundGrows ==
  ASSUME NEW c \in Nat, NEW d \in Nat
  PROVE  /\ Bound(c) \in Nat
         /\ HashMod <= Bound(c)
         /\ c <= d => Bound(c) <= Bound(d)
         /\ c < d => Bound(c) + HashMod <= Bound(d)
<1>1. HashMod \in Nat /\ HashMod >= 1
  BY SpaceAssumption
<1>2. Bound(c) = HashMod + HashMod * c
  BY <1>1 DEF Bound
<1>3. HashMod * c \in Nat
  BY <1>1
<1>4. ASSUME NEW x \in Nat, NEW y \in Nat, x <= y PROVE Bound(x) <= Bound(y)
  BY <1>1, <1>4 DEF Bound
<1>5. ASSUME c < d PROVE Bound(c) + HashMod <= Bound(d)
  <2>1. Bound(c + 1) = Bound(c) + HashMod
    BY <1>1 DEF Bound
  <2>2. Bound(c + 1) <= Bound(d)
    BY <1>4, <1>5
  <2> QED BY <2>1, <2>2
<1> QED BY <1>1, <1>2, <1>3, <1>4, <1>5

----------------------------------------------------------------------------
(* What is left of the way to the key, behind the handlers there are. *)
Way == Len(path) - 1 + Dist(Id[Here], key)

(* The pointer in slot i, if it is still the one that was tested, leads    *)
(* closer to the key.                                                      *)
Leads(i) ==
  seen = changes =>
    /\ ptr[Here][i] \in Nodes
    /\ Dist(Id[ptr[Here][i]], key) < Dist(Id[Here], key)

IInv ==
  /\ TypeOK
  /\ phase = "start" <=> path = <<>>
  /\ seen <= changes
  /\ phase = "call" => Way <= Bound(changes)
  /\ phase \in {"forward", "hop"} => Way <= Bound(seen) /\ Leads(0)
  /\ phase = "hop" => Leads(slot)
  /\ Len(path) <= Bound(changes)

LEMMA HereTypes ==
  ASSUME TypeOK, path # <<>>
  PROVE  /\ Here \in Nodes
         /\ Id[Here] \in Idents
         /\ Len(path) \in Nat \ {0}
         /\ Dist(Id[Here], key) \in 1 .. HashMod
         /\ Way \in Nat
         /\ Len(path) <= Way
<1>1. path \in Seq(Nodes) /\ key \in Idents
  BY DEF TypeOK
<1>2. Len(path) \in Nat \ {0} /\ Here \in Nodes
  BY <1>1 DEF Here
<1>3. Id[Here] \in Idents
  BY <1>2, SpaceAssumption
<1>4. Dist(Id[Here], key) \in 1 .. HashMod
  BY <1>1, <1>3, DistRange
<1> QED BY <1>2, <1>3, <1>4, SpaceAssumption DEF Way

LEMMA InitIInv == Init => IInv
<1> SUFFICES ASSUME Init PROVE IInv
  OBVIOUS
<1>1. TypeOK
  BY PtrAssumption, TableAssumption, SpaceAssumption
  DEF Init, TypeOK, Slots, NoReply, Addrs
<1>2. Bound(0) \in Nat
  BY BoundGrows
<1> QED BY <1>1, <1>2 DEF Init, IInv

(* Steps after which no hop is under way need only keep the path short. *)
LEMMA QuietIInv ==
  ASSUME IInv, TypeOK', phase' \notin {"start", "call", "forward", "hop"},
         path' # <<>>, Len(path') <= Len(path), UNCHANGED <<changes, seen>>
  PROVE  IInv'
<1>1. changes \in Nat /\ Len(path) \in Nat /\ Len(path') \in Nat
  BY TableAssumption DEF IInv, TypeOK
<1>2. Bound(changes) \in Nat /\ Bound(changes)' = Bound(changes)
  BY <1>1, BoundGrows
<1>3. Len(path') <= Bound(changes)
  BY <1>1, <1>2 DEF IInv
<1> QED BY <1>2, <1>3 DEF IInv

LEMMA StartIInv ==
  ASSUME IInv, NEW n \in Nodes, Start(n)
  PROVE  IInv'
<1>1. TypeOK'
  BY DEF IInv, TypeOK, Start, pointers
<1>2. path' # <<>> /\ Len(path') = 1
  BY DEF Start
<1>3. Here' = n /\ key' = key /\ key \in Idents /\ Id[n] \in Idents
  BY SpaceAssumption DEF Here, Start, IInv, TypeOK
<1>4. Dist(Id[n], key) \in 1 .. HashMod
  BY <1>3, DistRange
<1>5. Way' = Dist(Id[n], key)
  BY <1>2, <1>3, <1>4 DEF Way
<1>6. changes \in Nat /\ changes' = changes /\ seen' = seen
  BY TableAssumption DEF IInv, TypeOK, Start, pointers
<1>7. HashMod <= Bound(changes) /\ Bound(changes) \in Nat /\ Bound(changes)' = Bound(changes)
  BY <1>6, BoundGrows
<1>8. Way' <= Bound(changes)' /\ Len(path') <= Bound(changes)'
  BY <1>2, <1>4, <1>5, <1>7, SpaceAssumption
<1> QED BY <1>1, <1>2, <1>6, <1>8 DEF IInv, Start

LEMMA ForwardIInv ==
  ASSUME IInv, Forward
  PROVE  IInv'
<1>1. TypeOK'
  BY TableAssumption DEF IInv, TypeOK, Forward, pointers, Slots
<1>2. /\ path # <<>> /\ Reachable(Succ(Here)) /\ ~Owns(Here)
      /\ path' = path /\ key' = key /\ ptr' = ptr /\ changes' = changes
      /\ seen' = changes /\ phase' = "forward"
  BY DEF IInv, Forward, pointers
<1>3. Here \in Nodes /\ Id[Here] \in Idents /\ key \in Idents
  BY <1>2, HereTypes DEF IInv, TypeOK
<1>4. Succ(Here) \in Nodes /\ Id[Succ(Here)] \in Idents
  BY <1>2, SpaceAssumption DEF Reachable, IInv, TypeOK
<1>5. ~(Dist(Id[Here], key) <= Dist(Id[Here], Id[Succ(Here)]))
  BY <1>2, <1>3, <1>4, BetweenIsArc DEF Owns
<1>6. Dist(Id[Here], Id[Succ(Here)]) < Dist(Id[Here], key)
  BY <1>3, <1>4, <1>5, DistRange
<1>7. Dist(Id[Succ(Here)], key) < Dist(Id[Here], key)
  BY <1>3, <1>4, <1>6, ArcShrinks
<1>8. Here' = Here /\ Way' = Way
  BY <1>2 DEF Here, Way
<1>9. Leads(0)'
  BY <1>2, <1>4, <1>7, <1>8 DEF Leads, Succ
<1>10. changes \in Nat /\ Way <= Bound(changes)
  BY TableAssumption DEF IInv, TypeOK, Forward
<1>11. Bound(seen)' = Bound(changes) /\ Bound(changes)' = Bound(changes)
  BY <1>2 DEF Bound
<1> QED BY <1>1, <1>2, <1>8, <1>9, <1>10, <1>11 DEF IInv

LEMMA closePrecedingNodeIInv ==
  ASSUME IInv, closePrecedingNode
  PROVE  IInv'
<1>1. /\ path # <<>> /\ phase = "forward"
      /\ path' = path /\ key' = key /\ ptr' = ptr /\ changes' = changes
      /\ seen' = seen /\ phase' \in {"forward", "hop"}
      /\ slot \in Slots
  BY DEF IInv, TypeOK, closePrecedingNode, pointers
<1>2. TypeOK'
  <2>1. slot' \in Slots
    BY <1>1, TableAssumption DEF closePrecedingNode, NoFingerLeft, Slots
  <2> QED BY <1>1, <2>1 DEF IInv, TypeOK, closePrecedingNode, pointers
<1>3. Here' = Here /\ Way' = Way /\ (Leads(0) => Leads(0)')
  BY <1>1 DEF Here, Way, Leads
<1>4. Here \in Nodes /\ Id[Here] \in Idents /\ key \in Idents
  BY <1>1, HereTypes DEF IInv, TypeOK
<1>5. ASSUME phase' = "hop" PROVE Leads(slot)'
  <2>1. slot' = slot /\ (slot = 0 \/ Closer(Here, ptr[Here][slot]))
    BY <1>5 DEF closePrecedingNode, NoFingerLeft
  <2>2. CASE slot = 0
    BY <1>1, <1>3, <2>1, <2>2 DEF IInv
  <2>3. CASE Closer(Here, ptr[Here][slot])
    <3>1. PICK a : a = ptr[Here][slot]
      OBVIOUS
    <3>2. a \in Nodes /\ Id[a] \in Idents /\ between(Id[Here], Id[a], key, FALSE)
      BY <2>3, <3>1, SpaceAssumption DEF Closer, Reachable, IInv, TypeOK
    <3>3. Dist(Id[Here], Id[a]) < Dist(Id[Here], key)
      BY <1>4, <3>2, BetweenIsArc
    <3>4. Dist(Id[a], key) < Dist(Id[Here], key)
      BY <1>4, <3>2, <3>3, ArcShrinks
    <3> QED BY <1>1, <1>3, <2>1, <3>1, <3>2, <3>4 DEF Leads
  <2> QED BY <2>1, <2>2, <2>3
<1>6. Bound(seen)' = Bound(seen) /\ Bound(changes)' = Bound(changes)
  BY <1>1 DEF Bound
<1> QED BY <1>1, <1>2, <1>3, <1>5, <1>6 DEF IInv

(* The hop gets closer, or a pointer has changed since it was tested. *)
LEMMA HopIInv ==
  ASSUME IInv, Hop
  PROVE  IInv'
<1>1. PICK a : a = ptr[Here][slot]
  OBVIOUS
<1>2. /\ path # <<>> /\ phase = "hop" /\ path \in Seq(Nodes) /\ key \in Idents
      /\ changes' = changes /\ seen' = seen /\ key' = key
      /\ seen \in Nat /\ changes \in Nat /\ seen <= changes
  BY TableAssumption DEF IInv, TypeOK, Hop, pointers
<1>3. CASE ~Reachable(a)
  <2>1. phase' = "return" /\ path' = path /\ reply' = NoReply
    BY <1>1, <1>3 DEF Hop
  <2>2. TypeOK'
    BY <2>1 DEF IInv, TypeOK, Hop, pointers, NoReply, Addrs
  <2>3. Len(path') <= Len(path)
    BY <1>2, <2>1
  <2> QED BY <1>2, <2>1, <2>2, <2>3, QuietIInv
<1>4. CASE Reachable(a)
  <2>1. /\ phase' = "call" /\ path' = Append(path, a)
        /\ a \in Nodes /\ Id[a] \in Idents
    BY <1>1, <1>4, SpaceAssumption DEF Hop, Reachable, IInv, TypeOK
  <2>2. path' \in Seq(Nodes) /\ Len(path') = Len(path) + 1 /\ path'[Len(path')] = a
    BY <1>2, <2>1
  <2>3. TypeOK'
    BY <2>1, <2>2 DEF IInv, TypeOK, Hop, pointers
  <2>4. /\ Len(path) \in Nat \ {0} /\ Dist(Id[Here], key) \in 1 .. HashMod
        /\ Way \in Nat /\ Len(path) <= Way
    BY <1>2, HereTypes DEF IInv
  <2>5. Dist(Id[a], key) \in 1 .. HashMod
    BY <1>2, <2>1, DistRange
  <2>6. Way' = Len(path) + Dist(Id[a], key)
    BY <1>2, <2>2, <2>4, <2>5 DEF Way, Here
  <2>7. Way <= Bound(seen)
    BY <1>2 DEF IInv
  <2>8. Bound(seen) \in Nat /\ Bound(changes) \in Nat
    BY <1>2, BoundGrows
  <2>9. Way' <= Bound(changes)
    <3>1. CASE seen = changes
      <4>1. Dist(Id[a], key) < Dist(Id[Here], key)
        BY <1>1, <1>2, <3>1 DEF IInv, Leads
      <4>2. Len(path) + Dist(Id[a], key) <= Way
        BY <2>4, <2>5, <4>1 DEF Way
      <4> QED BY <2>4, <2>5, <2>6, <2>7, <2>8, <3>1, <4>2
    <3>2. CASE seen < changes
      <4>1. Bound(seen) + HashMod <= Bound(changes)
        BY <1>2, <3>2, BoundGrows
      <4> QED BY <2>4, <2>5, <2>6, <2>7, <2>8, <4>1, SpaceAssumption
    <3> QED BY <1>2, <3>1, <3>2
  <2>10. Len(path') <= Way'
    BY <2>2, <2>4, <2>5, <2>6
  <2>11. Len(path') <= Bound(changes)
    BY <2>2, <2>4, <2>5, <2>6, <2>8, <2>9, <2>10
  <2>12. Bound(changes)' = Bound(changes)
    BY <1>2 DEF Bound
  <2>13. path' # <<>>
    BY <2>2, <2>4
  <2> QED BY <1>2, <2>1, <2>3, <2>9, <2>11, <2>12, <2>13 DEF IInv
<1> QED BY <1>3, <1>4

LEMMA ReplyTypes ==
  /\ NoReply \in [Found : BOOLEAN, Addr : Addrs]
  /\ \A a \in Addrs : [Found |-> TRUE, Addr |-> a] \in [Found : BOOLEAN, Addr : Addrs]
  /\ \A q \in [Found : BOOLEAN, Addr : Addrs] :
       [q EXCEPT !.Found = TRUE] \in [Found : BOOLEAN, Addr : Addrs]
  BY ZenonT(60) DEF NoReply, Addrs

(* What is left of the handlers after a reply or an error. *)
LEMMA Shortened ==
  ASSUME NEW p \in Seq(Nodes), NEW j \in 2 .. Len(p)
  PROVE  /\ SubSeq(p, 1, j - 1) \in Seq(Nodes)
         /\ Len(SubSeq(p, 1, j - 1)) = j - 1
         /\ SubSeq(p, 1, j - 1) # <<>>
<1>1. 1 \in Int /\ j - 1 \in Int /\ 1 <= j - 1
  OBVIOUS
<1>2. \A i \in 1 .. j - 1 : p[i] \in Nodes
  OBVIOUS
<1>3. /\ SubSeq(p, 1, j - 1) \in Seq(Nodes)
      /\ Len(SubSeq(p, 1, j - 1)) = IF 1 <= j - 1 THEN j - 1 - 1 + 1 ELSE 0
  BY <1>1, <1>2, SubSeqProperties
<1> QED BY <1>1, <1>3

LEMMA ReturnIInv ==
  ASSUME IInv, Return \/ \E j \in 2 .. Len(path) : Broken(j)
  PROVE  IInv'
<1>1. path \in Seq(Nodes) /\ Len(path) \in Nat /\ reply \in [Found : BOOLEAN, Addr : Addrs]
  BY DEF IInv, TypeOK
<1>2. PICK j \in 2 .. Len(path) : path' = SubSeq(path, 1, j - 1)
  <2>1. CASE Return
    <3>1. Len(path) \in 2 .. Len(path)
      BY <1>1, <2>1 DEF Return
    <3> QED BY <2>1, <3>1 DEF Return
  <2>2. CASE \E j \in 2 .. Len(path) : Broken(j)
    BY <2>2 DEF Broken
  <2> QED BY <2>1, <2>2
<1>3. path' \in Seq(Nodes) /\ Len(path') = j - 1 /\ path' # <<>>
  BY <1>1, <1>2, Shortened
<1>4. reply' \in [Found : BOOLEAN, Addr : Addrs]
  <2>1. reply' = [reply EXCEPT !.Found = TRUE] \/ reply' = NoReply
    BY DEF Return, Broken
  <2> QED BY <1>1, <2>1, ReplyTypes
<1>5. phase' = "return" /\ UNCHANGED <<alive, ptr, changes, key, slot, seen>>
  BY DEF Return, Broken, pointers
<1>6. TypeOK'
  BY <1>3, <1>4, <1>5 DEF IInv, TypeOK
<1>7. Len(path') <= Len(path)
  BY <1>1, <1>3
<1> QED BY <1>3, <1>5, <1>6, <1>7, QuietIInv

LEMMA HereIInv ==
  ASSUME IInv, SuccessorDead \/ Owned \/ Answer \/ Finish
  PROVE  IInv'
<1>1. path \in Seq(Nodes) /\ path # <<>> /\ Len(path) \in Nat
  BY DEF IInv, TypeOK, SuccessorDead, Owned, Answer, Finish
<1>2. /\ phase' \in {"answer", "return", "done"}
      /\ UNCHANGED <<alive, ptr, changes, key, path, slot, seen>>
  BY DEF SuccessorDead, Owned, Answer, Finish, pointers
<1>3. reply' \in [Found : BOOLEAN, Addr : Addrs]
  <2>1. Here \in Nodes /\ ptr \in Pointers /\ reply \in [Found : BOOLEAN, Addr : Addrs]
    BY <1>1, HereTypes DEF IInv, TypeOK
  <2>2. Succ(Here) \in Addrs
    BY <2>1, TableAssumption DEF Pointers, Succ, Slots
  <2>3. \/ reply' = reply
        \/ reply' = NoReply
        \/ reply' = [Found |-> TRUE, Addr |-> Succ(Here)]
    BY DEF SuccessorDead, Owned, Answer, AnswerOf, Finish
  <2> QED BY <2>1, <2>2, <2>3, ReplyTypes
<1>4. TypeOK'
  BY <1>2, <1>3 DEF IInv, TypeOK
<1>5. Len(path') <= Len(path)
  BY <1>1, <1>2
<1> QED BY <1>1, <1>2, <1>4, <1>5, QuietIInv

LEMMA ChangeIInv ==
  ASSUME IInv, NEW n \in Nodes, NEW i \in Slots, NEW a \in Addrs, Change(n, i, a)
  PROVE  IInv'
<1>1. /\ changes \in Nat /\ seen \in Nat /\ seen <= changes /\ changes < MaxChanges
      /\ changes' = changes + 1 /\ seen' = seen /\ path' = path /\ key' = key
      /\ phase' = phase /\ Len(path) \in Nat
  BY TableAssumption DEF IInv, TypeOK, Change
<1>2. TypeOK'
  <2>1. ptr \in Pointers /\ (i # 0 => a \in Nodes)
    BY DEF IInv, TypeOK, Change
  <2>2. ptr' = [ptr EXCEPT ![n] = [ptr[n] EXCEPT ![i] = a]]
    BY <2>1 DEF Change, Pointers
  <2>3. ptr' \in Pointers
    BY <2>1, <2>2 DEF Pointers
  <2>4. changes' \in 0 .. MaxChanges
    BY <1>1, TableAssumption
  <2> QED BY <1>1, <2>3, <2>4 DEF IInv, TypeOK, Change
<1>3. Bound(changes) <= Bound(changes') /\ Bound(changes) \in Nat /\ Bound(changes') \in Nat
  BY <1>1, BoundGrows
<1>4. Bound(changes)' = Bound(changes') /\ Bound(seen)' = Bound(seen)
  BY <1>1 DEF Bound
<1>5. Way' = Way
  BY <1>1 DEF Way, Here
<1>6. \A k : Leads(k)'
  BY <1>1 DEF Leads
<1>7. Len(path') <= Bound(changes)'
  BY <1>1, <1>3, <1>4 DEF IInv
<1>8. phase = "call" => Way' <= Bound(changes)'
  <2> SUFFICES ASSUME phase = "call" PROVE Way <= Bound(changes')
    BY <1>4, <1>5
  <2>1. Way \in Nat /\ Way <= Bound(changes)
    BY HereTypes DEF IInv
  <2> QED BY <1>3, <2>1
<1>9. seen' <= changes'
  BY <1>1
<1> QED BY <1>1, <1>2, <1>4, <1>5, <1>6, <1>7, <1>8, <1>9 DEF IInv

LEMMA StillIInv ==
  ASSUME IInv, (\E n \in Nodes : Crash(n)) \/ UNCHANGED vars
  PROVE  IInv'
<1>1. UNCHANGED <<ptr, changes, key, path, phase, slot, seen, reply>> /\ alive' \subseteq alive
  BY DEF Crash, vars, pointers
<1>2. TypeOK'
  BY <1>1 DEF IInv, TypeOK
<1> QED BY <1>1, <1>2 DEF IInv, Way, Leads, Here, Bound

LEMMA NextIInv == IInv /\ [Next]_vars => IInv'
<1> SUFFICES ASSUME IInv, [Next]_vars PROVE IInv'
  OBVIOUS
<1>1. CASE LookupStep
  BY <1>1, HereIInv, ForwardIInv, closePrecedingNodeIInv, HopIInv, ReturnIInv DEF LookupStep
<1>2. CASE \E n \in Nodes : Start(n)
  BY <1>2, StartIInv
<1>3. CASE \E n \in Nodes, i \in Slots, a \in Addrs : Change(n, i, a)
  BY <1>3, ChangeIInv
<1>4. CASE (\E n \in Nodes : Crash(n)) \/ UNCHANGED vars
  BY <1>4, StillIInv
<1> QED BY <1>1, <1>2, <1>3, <1>4 DEF Next

THEOREM Invariance == Spec => []IInv
  BY InitIInv, NextIInv, PTL DEF Spec

(* The state of a lookup and of the pointers keeps its type. *)
THEOREM TypeCorrect == Spec => []TypeOK
<1>1. IInv => TypeOK
  BY DEF IInv
<1> QED BY <1>1, Invariance, PTL

(* FindSuccessorRPC nests at most HashMod calls, and at most HashMod more  *)
(* for each pointer that changes meanwhile.                                *)
THEOREM HopsCorrect == Spec => []HopsBounded
<1>1. IInv => HopsBounded
  BY DEF IInv, HopsBounded, Bound
<1> QED BY <1>1, Invariance, PTL

----------------------------------------------------------------------------
(* While the ring is ideal: a handler about to answer has no node between  *)
(* itself and the key, and every reply names the key's node.               *)
CInv ==
  /\ phase = "answer" =>
       \A m \in Nodes : Dist(Id[Here], key) <= Dist(Id[Here], Id[m])
  /\ phase \in {"return", "done"} => reply.Found /\ IsOwner(reply.Addr, key)

LEMMA OwnedCInv ==
  ASSUME IInv, Ideal, Owned
  PROVE  CInv'
<1>1. path # <<>> /\ key \in Idents
  BY DEF IInv, TypeOK, Owned
<1>2. Here \in Nodes /\ Id[Here] \in Idents
  BY <1>1, HereTypes DEF IInv
<1>3. Succ(Here) \in Nodes /\ Id[Succ(Here)] \in Idents
  BY <1>2, SpaceAssumption DEF Ideal
<1>4. Dist(Id[Here], key) <= Dist(Id[Here], Id[Succ(Here)])
  BY <1>1, <1>2, <1>3, BetweenIsArc DEF Owned, Owns
<1>5. ASSUME NEW m \in Nodes PROVE Dist(Id[Here], key) <= Dist(Id[Here], Id[m])
  <2>1. Id[m] \in Idents /\ Dist(Id[Here], Id[Succ(Here)]) <= Dist(Id[Here], Id[m])
    BY <1>2, SpaceAssumption DEF Ideal
  <2>2. /\ Dist(Id[Here], key) \in Int
        /\ Dist(Id[Here], Id[m]) \in Int
        /\ Dist(Id[Here], Id[Succ(Here)]) \in Int
    BY <1>1, <1>2, <1>3, <2>1, DistRange, SpaceAssumption
  <2> QED BY <1>4, <2>1, <2>2
<1>6. Here' = Here /\ key' = key /\ phase' = "answer"
  BY DEF Owned, Here
<1> QED BY <1>5, <1>6 DEF CInv

LEMMA AnswerCInv ==
  ASSUME IInv, CInv, Ideal, Answer
  PROVE  CInv'
<1>1. path # <<>> /\ key \in Idents
  BY DEF IInv, TypeOK, Answer
<1>2. Here \in Nodes /\ Id[Here] \in Idents
  BY <1>1, HereTypes DEF IInv
<1>3. PICK s : s = Succ(Here)
  OBVIOUS
<1>4. s \in Nodes /\ Id[s] \in Idents
  BY <1>2, <1>3, SpaceAssumption DEF Ideal
<1>5. ASSUME NEW m \in Nodes PROVE Offset(key, Id[s]) <= Offset(key, Id[m])
  <2>1. Id[m] \in Idents
    BY SpaceAssumption
  <2>2. /\ Dist(Id[Here], key) <= Dist(Id[Here], Id[m])
        /\ Dist(Id[Here], key) <= Dist(Id[Here], Id[s])
    BY <1>4 DEF CInv, Answer
  <2>3. Dist(Id[Here], Id[s]) <= Dist(Id[Here], Id[m])
    BY <1>2, <1>3 DEF Ideal
  <2>4. /\ Offset(key, Id[s]) = Dist(Id[Here], Id[s]) - Dist(Id[Here], key)
        /\ Offset(key, Id[m]) = Dist(Id[Here], Id[m]) - Dist(Id[Here], key)
    BY <1>1, <1>2, <1>4, <2>1, <2>2, OffsetIs
  <2>5. /\ Dist(Id[Here], key) \in Int
        /\ Dist(Id[Here], Id[m]) \in Int
        /\ Dist(Id[Here], Id[s]) \in Int
    BY <1>1, <1>2, <1>4, <2>1, DistRange, SpaceAssumption
  <2> QED BY <2>3, <2>4, <2>5
<1>6. reply' = [Found |-> TRUE, Addr |-> s] /\ key' = key /\ phase' = "return"
  BY <1>3 DEF Answer, AnswerOf
<1>7. IsOwner(s, key)
  BY <1>4, <1>5 DEF IsOwner
<1>8. reply'.Found /\ reply'.Addr = s
  BY <1>6
<1> QED BY <1>6, <1>7, <1>8 DEF CInv, IsOwner

(* The ways to a reply that is not Found need a node that is down, or a    *)
(* successor that is none.                                                 *)
LEMMA NoFailure ==
  ASSUME IInv, Ideal, path # <<>>
  PROVE  /\ ~SuccessorDead
         /\ \A j \in 2 .. Len(path) : ~Broken(j)
         /\ Hop => phase' = "call"
<1>1. Here \in Nodes /\ path \in Seq(Nodes) /\ ptr \in Pointers /\ slot \in Slots
  BY HereTypes DEF IInv, TypeOK
<1>2. Reachable(Succ(Here))
  BY <1>1 DEF Ideal, Reachable
<1>3. Reachable(ptr[Here][slot])
  <2>1. CASE slot = 0
    BY <1>2, <2>1 DEF Succ
  <2>2. CASE slot # 0
    BY <1>1, <2>2 DEF Pointers, Ideal, Reachable
  <2> QED BY <2>1, <2>2
<1>4. \A j \in 2 .. Len(path) : Reachable(path[j])
  BY <1>1 DEF Ideal, Reachable
<1> QED BY <1>2, <1>3, <1>4 DEF SuccessorDead, Broken, Hop

LEMMA NextCInv == IInv /\ Ideal /\ CInv /\ [Next]_vars => CInv'
<1> SUFFICES ASSUME IInv, Ideal, CInv, [Next]_vars PROVE CInv'
  OBVIOUS
<1>1. CASE LookupStep
  <2>1. path # <<>>
    BY <1>1 DEF LookupStep, SuccessorDead, Owned, Answer, Forward, closePrecedingNode,
                Hop, Return, Broken, Finish, IInv, TypeOK
  <2>2. CASE Owned
    BY <2>2, OwnedCInv
  <2>3. CASE Answer
    BY <2>3, AnswerCInv
  <2>4. CASE Forward \/ closePrecedingNode \/ Hop
    <3>1. phase' \in {"forward", "hop", "call"}
      BY <2>1, <2>4, NoFailure DEF Forward, closePrecedingNode
    <3> QED BY <3>1 DEF CInv
  <2>5. CASE Return
    <3>1. reply \in [Found : BOOLEAN, Addr : Addrs]
      BY DEF IInv, TypeOK
    <3>2. reply' = [reply EXCEPT !.Found = TRUE] /\ key' = key /\ phase' = "return"
      BY <2>5 DEF Return
    <3>3. reply'.Found /\ reply'.Addr = reply.Addr
      BY <3>1, <3>2
    <3>4. IsOwner(reply.Addr, key)
      BY <2>5 DEF CInv, Return
    <3> QED BY <3>2, <3>3, <3>4 DEF CInv, IsOwner
  <2>6. CASE Finish
    BY <2>6 DEF CInv, Finish, IsOwner
  <2> QED BY <1>1, <2>1, <2>2, <2>3, <2>4, <2>5, <2>6, NoFailure DEF LookupStep
<1>2. CASE \E n \in Nodes : Start(n)
  BY <1>2 DEF CInv, Start
<1>3. CASE \/ \E n \in Nodes, i \in Slots, a \in Addrs : Change(n, i, a)
           \/ \E n \in Nodes : Crash(n)
           \/ UNCHANGED vars
  <2>1. UNCHANGED <<key, path, phase, reply>>
    BY <1>3 DEF Change, Crash, vars
  <2> QED BY <2>1 DEF CInv, IsOwner, Here
<1> QED BY <1>1, <1>2, <1>3 DEF Next

(* On a ring whose nodes stay up and whose successors stay right, find     *)
(* returns the node the key belongs to, whatever the fingers are.          *)
THEOREM LookupIsCorrect == Spec => LookupCorrect
<1>1. Init => CInv
  BY DEF Init, CInv
<1>2. CInv => AnswerIsOwner
  BY DEF CInv, AnswerIsOwner
<1> QED BY <1>1, <1>2, NextCInv, Invariance, PTL DEF Spec, LookupCorrect
=============================================================================
