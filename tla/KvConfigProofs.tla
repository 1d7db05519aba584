--------------------------- MODULE KvConfigProofs ---------------------------
(***************************************************************************)
(* Proofs about the network and the k/v tester, for every number of        *)
(* servers, clerks, Calls and restarts.                                    *)
(***************************************************************************)
EXTENDS KvConfig, TLAPS

(* The names in use were made. *)
EndsMade ==
  /\ \A i, j \in Servers : <<i, gen[i], j>> \in ends
  /\ \A k \in Clerks, j \in Servers : <<k, 0, j>> \in ends

(* Only ends of the present incarnation of a running server are enabled. *)
EndInv ==
  \A e \in enabled :
    \/ Owner(e) \in Clerks
    \/ Owner(e) \in running /\ e[2] = gen[Owner(e)]

(* How far a shutdown has got. *)
LockInv ==
  /\ \/ lock = Free
     \/ lock[1] \in {"delete", "copy"} /\ lock[2] \in Servers \ running
  /\ lock[1] = "copy" => servers[lock[2]] = 0
  /\ \A i \in Servers \ running : servers[i] = 0 \/ lock = <<"delete", i>>

(* A server in the network saves where the next incarnation will look. *)
ServerInv == \A i \in Servers : servers[i] # 0 => servers[i] = saved[i]

(* What the place of a Call says about its handler and its effect. *)
CallInv ==
  \A c \in Calls :
    /\ pc[c] \in {"idle", "sending", "request", "deliver", "timeout"} => handler[c] = "none"
    /\ pc[c] = "deliver" \/ handler[c] # "none" => inst[c] \in DOMAIN persisters
    /\ handler[c] \in {"ran", "returned"} => c \in persisters[inst[c]]
    /\ pc[c] = "got" => handler[c] = "returned"
    /\ pc[c] \in {"delayed", "true"} => c \in persisters[saved[Connection(from[c])]]

IInv == TypeOK /\ EndsMade /\ EndInv /\ LockInv /\ ServerInv /\ CallInv

----------------------------------------------------------------------------
(* Names *)

LEMMA EndParts ==
  \A i \in Servers \cup Clerks, g \in Nat, j \in Servers :
    /\ <<i, g, j>> \in Ends
    /\ Owner(<<i, g, j>>) = i
    /\ <<i, g, j>>[2] = g
    /\ Connection(<<i, g, j>>) = j
BY DEF Ends, Owner, Connection

LEMMA EndShape ==
  \A e \in Ends : /\ Owner(e) \in Servers \cup Clerks
                  /\ e[2] \in Nat
                  /\ Connection(e) \in Servers
                  /\ e = <<Owner(e), e[2], Connection(e)>>
BY DEF Ends, Owner, Connection

LEMMA ServersPositive == \A i \in Servers : i \in Nat /\ i # 0
BY ServerAssumption DEF Servers

LEMMA NamesMade ==
  ASSUME TypeOK, EndsMade, NEW I \in SUBSET Servers, NEW J \in SUBSET Servers
  PROVE  Pairs(I, J) \subseteq ends
BY DEF Pairs, Name, EndsMade

LEMMA AppendCopy ==
  ASSUME NEW i \in Servers, TypeOK
  PROVE  /\ Copy(i) \in Seq(SUBSET Calls)
         /\ Len(Copy(i)) = Len(persisters) + 1
         /\ DOMAIN Copy(i) = 1 .. Len(persisters) + 1
         /\ DOMAIN persisters = 1 .. Len(persisters)
         /\ \A p \in DOMAIN persisters : p \in DOMAIN Copy(i) /\ Copy(i)[p] = persisters[p]
         /\ Copy(i)[Len(persisters) + 1] = persisters[saved[i]]
         /\ Len(Copy(i)) \in DOMAIN Copy(i)
BY DEF Copy, TypeOK

----------------------------------------------------------------------------
(* The steps, grouped by what they change *)

(* A step of the network that moves a Call and leaves the rest alone. *)
Moves(c) ==
  \/ Receive(c) \/ NetworkGone(c) \/ TimeOut(c) \/ DropRequest(c)
  \/ Poll(c) \/ NoReply(c) \/ Reply(c) \/ LateReply(c)

(* A change of the ends that are enabled. *)
Rewires ==
  \/ ConnectAll
  \/ \E p1 \in SUBSET Servers : partition(p1, Servers \ p1)
  \/ \E k \in Clerks, i \in Servers : ConnectClient(k, {i}) \/ DisconnectClient(k, {i})

LEMMA Steps ==
  ASSUME [Next]_vars
  PROVE  \/ \E c \in Calls : \/ \E e \in ends : Call(c, e) /\ UNCHANGED config
                             \/ Moves(c) /\ UNCHANGED config
                             \/ readEndnameInfo(c) /\ UNCHANGED config
                             \/ Deliver(c) /\ UNCHANGED config
                             \/ Return(c) /\ UNCHANGED config
                             \/ Handle(c)
         \/ \E yes \in BOOLEAN : (Reliable(yes) \/ LongReordering(yes)) /\ UNCHANGED config
         \/ Cleanup /\ UNCHANGED config
         \/ Rewires
         \/ DeleteServer
         \/ CopyPersister
         \/ \E i \in Servers : ShutdownServer(i)
         \/ \E i \in Servers : StartServer(i)
         \/ \E i \in Servers : AddServer(i)
         \/ UNCHANGED vars
BY ZenonT(60) DEF Next, NetStep, Moves, Rewires

LEMMA MoveFacts ==
  ASSUME NEW c \in Calls, Moves(c)
  PROVE  /\ UNCHANGED <<settings, from, inst, opts, handler>>
         /\ pc[c] # "idle"
         /\ \E q \in Places \ {"idle"} : Go(c, q)
<1>1. UNCHANGED <<settings, from, inst, opts, handler>>
  BY ZenonT(60) DEF Moves, Receive, NetworkGone, TimeOut, DropRequest, Poll, NoReply, Reply, LateReply
<1>2. \/ Go(c, "request") \/ Go(c, "false") \/ Go(c, "dead") \/ Go(c, "true") \/ Go(c, "delayed")
  BY ZenonT(60) DEF Moves, Receive, NetworkGone, TimeOut, DropRequest, Poll, NoReply, Reply, LateReply
<1>3. pc[c] \in Places \ {"idle"}
  <2>1. pc[c] \in {"sending", "timeout", "deliver", "wait", "dead", "got", "delayed"}
    BY ZenonT(60) DEF Moves, Receive, NetworkGone, TimeOut, DropRequest, Poll, NoReply, Reply, LateReply
  <2> QED
    BY <2>1 DEF Places, Waiting
<1> QED
  BY <1>1, <1>2, <1>3 DEF Places, Waiting

(* What Rewires leaves alone, and what it may enable. *)
LEMMA RewireFacts ==
  ASSUME TypeOK, EndsMade, Rewires
  PROVE  /\ UNCHANGED <<reliable, longReordering, ends, servers, done, call, config>>
         /\ enabled' \subseteq ends
         /\ \A e \in enabled' :
              \/ e \in enabled
              \/ \E k \in Clerks, j \in Servers : e = <<k, 0, j>>
              \/ running = Servers /\ \E i, j \in Servers : e = <<i, gen[i], j>>
<1>1. enabled \subseteq ends
  BY DEF TypeOK, NetTypeOK
<1>2. CASE ConnectAll
  BY <1>1, <1>2, NamesMade DEF ConnectAll, SetEnabled, AllUp, Pairs, Name
<1>3. ASSUME NEW p1 \in SUBSET Servers, partition(p1, Servers \ p1)
      PROVE  /\ UNCHANGED <<reliable, longReordering, ends, servers, done, call, config>>
             /\ enabled' \subseteq ends
             /\ \A e \in enabled' :
                  \/ e \in enabled
                  \/ running = Servers /\ \E i, j \in Servers : e = <<i, gen[i], j>>
  <2>1. /\ Pairs(p1, p1) \subseteq ends
        /\ Pairs(Servers \ p1, Servers \ p1) \subseteq ends
    BY NamesMade
  <2> QED
    BY <1>1, <1>3, <2>1 DEF partition, SetEnabled, AllUp, Pairs, Name
<1>4. ASSUME NEW k \in Clerks, NEW i \in Servers,
             ConnectClient(k, {i}) \/ DisconnectClient(k, {i})
      PROVE  /\ UNCHANGED <<reliable, longReordering, ends, servers, done, call, config>>
             /\ enabled' \subseteq ends
             /\ \A e \in enabled' :
                  \/ e \in enabled
                  \/ \E j \in Servers : e = <<k, 0, j>>
  BY <1>1, <1>4 DEF ConnectClient, DisconnectClient, SetEnabled, EndsMade
<1> QED
  BY <1>2, <1>3, <1>4, ZenonT(60) DEF Rewires

----------------------------------------------------------------------------
(* Each conjunct of the inductive invariant is preserved. *)

LEMMA TypeStep ==
  ASSUME IInv, [Next]_vars
  PROVE  TypeOK' /\ EndsMade'
<1> USE DEF IInv
<1>1. ASSUME NEW c \in Calls,
             \/ \E e \in ends : Call(c, e)
             \/ Moves(c) \/ readEndnameInfo(c) \/ Deliver(c) \/ Return(c),
             UNCHANGED config
      PROVE  TypeOK' /\ EndsMade'
  <2>1. UNCHANGED settings /\ EndsMade'
    BY <1>1, MoveFacts DEF Call, readEndnameInfo, Deliver, Return, settings, config, EndsMade
  <2>2. /\ pc' \in [Calls -> Places]
        /\ handler' \in [Calls -> {"none", "runs", "ran", "returned"}]
        /\ \A d \in Calls : pc'[d] # "idle" => from'[d] \in ends
        /\ from' \in [Calls -> Ends \cup {NoEnd}]
    <3>1. CASE Moves(c)
      <4>1. PICK q \in Places \ {"idle"} : Go(c, q)
        BY <3>1, MoveFacts
      <4> QED
        BY <3>1, <4>1, MoveFacts DEF Go, TypeOK, NetTypeOK
    <3>2. CASE \E e \in ends : Call(c, e)
      BY <3>2 DEF Call, Go, TypeOK, NetTypeOK, Places, Waiting
    <3>3. CASE readEndnameInfo(c)
      BY <3>3 DEF readEndnameInfo, Go, TypeOK, NetTypeOK, Places, Waiting
    <3>4. CASE Deliver(c)
      BY <3>4 DEF Deliver, Go, TypeOK, NetTypeOK, Places, Waiting
    <3>5. CASE Return(c)
      BY <3>5 DEF Return, TypeOK, NetTypeOK, Places, Waiting
    <3> QED
      BY <1>1, <3>1, <3>2, <3>3, <3>4, <3>5
  <2>3. inst' \in [Calls -> Nat]
    <3>1. CASE readEndnameInfo(c)
      <4>1. servers[Connection(from[c])] \in Nat
        BY <3>1, EndShape DEF readEndnameInfo, TypeOK, NetTypeOK
      <4> QED
        BY <3>1, <4>1 DEF readEndnameInfo, TypeOK, NetTypeOK
    <3> QED
      BY <1>1, <3>1, MoveFacts DEF Call, Deliver, Return, TypeOK, NetTypeOK
  <2>4. opts' \in [Calls -> [reliable : BOOLEAN, longReordering : BOOLEAN]]
    <3>1. CASE readEndnameInfo(c)
      BY <3>1, ZenonT(60) DEF readEndnameInfo, TypeOK, NetTypeOK
    <3> QED
      BY <1>1, <3>1, MoveFacts DEF Call, Deliver, Return, TypeOK, NetTypeOK
  <2> QED
    BY <1>1, <2>1, <2>2, <2>3, <2>4 DEF TypeOK, NetTypeOK, settings, config
<1>2. ASSUME NEW c \in Calls, Handle(c)
      PROVE  TypeOK' /\ EndsMade'
  <2>1. inst[c] \in DOMAIN persisters
    BY <1>2 DEF Handle, CallInv
  <2>2. persisters' \in Seq(SUBSET Calls) /\ DOMAIN persisters' = DOMAIN persisters
    BY <1>2, <2>1 DEF Handle, TypeOK
  <2>3. handler' \in [Calls -> {"none", "runs", "ran", "returned"}]
    BY <1>2 DEF Handle, TypeOK, NetTypeOK
  <2> QED
    BY <1>2, <2>2, <2>3 DEF Handle, TypeOK, NetTypeOK, EndsMade, settings
<1>3. ASSUME \/ \E yes \in BOOLEAN : Reliable(yes) \/ LongReordering(yes)
             \/ Cleanup,
             UNCHANGED config
      PROVE  TypeOK' /\ EndsMade'
  <2>1. /\ UNCHANGED <<ends, enabled, servers, call>> /\ EndsMade'
        /\ reliable' \in BOOLEAN /\ longReordering' \in BOOLEAN /\ done' \in BOOLEAN
    BY <1>3, ZenonT(60) DEF Reliable, LongReordering, Cleanup, config, EndsMade, TypeOK, NetTypeOK
  <2> QED
    BY <1>3, <2>1 DEF TypeOK, NetTypeOK, config, call
<1>4. CASE Rewires
  <2>1. /\ UNCHANGED <<reliable, longReordering, ends, servers, done, call, config>>
        /\ enabled' \subseteq ends
    BY <1>4, RewireFacts
  <2> QED
    BY <2>1 DEF TypeOK, NetTypeOK, EndsMade, call, config
<1>5. CASE DeleteServer
  <2>1. lock[2] \in Servers
    BY <1>5 DEF DeleteServer, LockInv, Free
  <2>2. /\ servers' \in [Servers -> Nat]
        /\ lock' \in {"free", "delete", "copy"} \X (Servers \cup {0})
    BY <1>5, <2>1 DEF DeleteServer, TypeOK, NetTypeOK
  <2> QED
    BY <1>5, <2>2 DEF DeleteServer, TypeOK, NetTypeOK, EndsMade, call
<1>6. CASE CopyPersister
  <2>1. lock[2] \in Servers
    BY <1>6 DEF CopyPersister, LockInv, Free
  <2>2. persisters' \in Seq(SUBSET Calls) /\ saved' \in [Servers -> DOMAIN persisters']
    BY <1>6, <2>1, AppendCopy DEF CopyPersister, TypeOK
  <2>3. lock' \in {"free", "delete", "copy"} \X (Servers \cup {0})
    BY <1>6 DEF CopyPersister, Free
  <2> QED
    BY <1>6, <2>2, <2>3 DEF CopyPersister, TypeOK, NetTypeOK, EndsMade, netvars, settings, call
<1>7. ASSUME NEW i \in Servers, ShutdownServer(i)
      PROVE  TypeOK' /\ EndsMade'
  <2>1. enabled' \subseteq ends' /\ starting' \subseteq running' /\ running' \subseteq Servers
    BY <1>7 DEF ShutdownServer, disconnectUnlocked, TypeOK, NetTypeOK
  <2>2. lock' \in {"free", "delete", "copy"} \X (Servers \cup {0})
    BY <1>7 DEF ShutdownServer
  <2> QED
    BY <1>7, <2>1, <2>2 DEF ShutdownServer, TypeOK, NetTypeOK, EndsMade, call
<1>8. ASSUME NEW i \in Servers, StartServer(i)
      PROVE  TypeOK' /\ EndsMade'
  <2>1. gen' \in [Servers -> Nat] /\ gen'[i] \in Nat
    BY <1>8 DEF StartServer, TypeOK
  <2>2. /\ ends' \subseteq Ends /\ ends \subseteq ends'
        /\ EndsMade'
    BY <1>8, <2>1, EndParts DEF StartServer, MakeEnds, TypeOK, NetTypeOK, EndsMade
  <2>3. persisters' \in Seq(SUBSET Calls) /\ saved' \in [Servers -> DOMAIN persisters']
    BY <1>8, AppendCopy DEF StartServer, TypeOK
  <2>4. starting' \subseteq running' /\ running' \subseteq Servers
    BY <1>8 DEF StartServer, TypeOK
  <2> QED
    BY ZenonT(60), <1>8, <2>1, <2>2, <2>3, <2>4 DEF StartServer, TypeOK, NetTypeOK, call
<1>9. ASSUME NEW i \in Servers, AddServer(i)
      PROVE  TypeOK' /\ EndsMade'
  <2>1. servers' \in [Servers -> Nat]
    BY <1>9 DEF AddServer, TypeOK, NetTypeOK
  <2> QED
    BY <1>9, <2>1 DEF AddServer, TypeOK, NetTypeOK, EndsMade, call
<1>10. CASE UNCHANGED vars
  BY <1>10 DEF vars, netvars, settings, call, config, TypeOK, NetTypeOK, EndsMade
<1> QED
  BY <1>1, <1>2, <1>3, <1>4, <1>5, <1>6, <1>7, <1>8, <1>9, <1>10, Steps

(* The steps of a Call leave the servers, the ends and the tester alone. *)
LEMMA CallFrame ==
  ASSUME NEW c \in Calls,
         \/ \E e \in ends : Call(c, e)
         \/ Moves(c) \/ readEndnameInfo(c) \/ Deliver(c) \/ Return(c)
  PROVE  UNCHANGED settings
BY MoveFacts DEF Call, readEndnameInfo, Deliver, Return

LEMMA EndStep ==
  ASSUME IInv, [Next]_vars
  PROVE  EndInv'
<1> USE DEF IInv
<1>1. CASE UNCHANGED <<enabled, running, gen>>
  BY <1>1 DEF EndInv
<1>2. CASE Rewires
  <2>1. /\ UNCHANGED config
        /\ \A e \in enabled' :
             \/ e \in enabled
             \/ \E k \in Clerks, j \in Servers : e = <<k, 0, j>>
             \/ running = Servers /\ \E i, j \in Servers : e = <<i, gen[i], j>>
    BY <1>2, RewireFacts
  <2> QED
    BY <2>1 DEF EndInv, config, Owner
<1>3. ASSUME NEW i \in Servers, ShutdownServer(i)
      PROVE  EndInv'
  <2> SUFFICES ASSUME NEW e \in enabled'
               PROVE  \/ Owner(e) \in Clerks
                      \/ Owner(e) \in running' /\ e[2] = gen'[Owner(e)]
    BY DEF EndInv
  <2>1. e \in enabled /\ e \in Ends /\ e \notin Pairs({i}, Servers)
    BY <1>3 DEF ShutdownServer, disconnectUnlocked, TypeOK, NetTypeOK
  <2>2. CASE Owner(e) = i
    <3>1. Owner(e) \in Clerks \/ e = <<i, gen[i], Connection(e)>>
      BY <2>1, <2>2, EndShape DEF EndInv
    <3>2. e # <<i, gen[i], Connection(e)>>
      <4>1. Connection(e) \in Servers
        BY <2>1, EndShape, ZenonT(60)
      <4>2. <<i, gen[i], Connection(e)>> \in Pairs({i}, Servers)
        BY <4>1 DEF Pairs, Name
      <4> QED
        BY <2>1, <4>2, ZenonT(60)
    <3> QED
      BY <3>1, <3>2
  <2>3. CASE Owner(e) # i
    BY <1>3, <2>1, <2>3 DEF ShutdownServer, EndInv
  <2> QED
    BY <2>2, <2>3
<1>4. ASSUME NEW i \in Servers, StartServer(i)
      PROVE  EndInv'
  <2>1. \A e \in enabled : Owner(e) \in Clerks \/ Owner(e) # i
    BY <1>4 DEF StartServer, EndInv
  <2>2. \A m \in Servers : m # i => gen'[m] = gen[m]
    BY ZenonT(60), <1>4 DEF StartServer, TypeOK
  <2> QED
    BY <1>4, <2>1, <2>2 DEF StartServer, EndInv, TypeOK
<1>5. \/ UNCHANGED <<enabled, running, gen>>
      \/ Rewires
      \/ \E i \in Servers : ShutdownServer(i) \/ StartServer(i)
  BY Steps, CallFrame DEF Handle, Reliable, LongReordering, Cleanup, DeleteServer, CopyPersister,
     AddServer, vars, netvars, settings, config
<1> QED
  BY <1>1, <1>2, <1>3, <1>4, <1>5

LEMMA LockStep ==
  ASSUME IInv, [Next]_vars
  PROVE  LockInv' /\ ServerInv'
<1> USE DEF IInv
<1>1. CASE UNCHANGED <<servers, saved, lock, running>>
  BY <1>1 DEF LockInv, ServerInv
<1>2. CASE DeleteServer
  <2>1. lock[2] \in Servers \ running
    BY <1>2 DEF DeleteServer, LockInv, Free
  <2>2. servers'[lock[2]] = 0 /\ \A i \in Servers : i # lock[2] => servers'[i] = servers[i]
    BY <1>2, <2>1 DEF DeleteServer, TypeOK, NetTypeOK
  <2> QED
    BY <1>2, <2>1, <2>2 DEF DeleteServer, LockInv, ServerInv, Free
<1>3. CASE CopyPersister
  <2>1. lock[2] \in Servers \ running /\ servers[lock[2]] = 0
    BY <1>3 DEF CopyPersister, LockInv, Free
  <2>2. /\ \A i \in Servers : i # lock[2] => saved'[i] = saved[i]
        /\ servers' = servers /\ running' = running /\ lock' = Free
    BY <1>3, <2>1 DEF CopyPersister, TypeOK, netvars, settings
  <2>3. \A i \in Servers \ running : servers[i] = 0
    BY <1>3, <2>1 DEF CopyPersister, LockInv
  <2> QED
    BY <2>1, <2>2, <2>3 DEF LockInv, ServerInv, Free
<1>4. ASSUME NEW i \in Servers, ShutdownServer(i)
      PROVE  LockInv' /\ ServerInv'
  BY <1>4 DEF ShutdownServer, LockInv, ServerInv, Free
<1>5. ASSUME NEW i \in Servers, StartServer(i)
      PROVE  LockInv' /\ ServerInv'
  <2>1. servers[i] = 0 /\ \A j \in Servers : j # i => saved'[j] = saved[j]
    BY <1>5 DEF StartServer, LockInv, Free, TypeOK
  <2> QED
    BY <1>5, <2>1 DEF StartServer, LockInv, ServerInv, Free
<1>6. ASSUME NEW i \in Servers, AddServer(i)
      PROVE  LockInv' /\ ServerInv'
  <2>1. /\ i \in running
        /\ servers'[i] = saved[i] /\ \A j \in Servers : j # i => servers'[j] = servers[j]
    BY ZenonT(60), <1>6 DEF AddServer, TypeOK, NetTypeOK
  <2> QED
    BY <1>6, <2>1 DEF AddServer, LockInv, ServerInv, Free
<1>7. \/ UNCHANGED <<servers, saved, lock, running>>
      \/ DeleteServer \/ CopyPersister
      \/ \E i \in Servers : ShutdownServer(i) \/ StartServer(i) \/ AddServer(i)
  BY ZenonT(60), Steps, CallFrame, RewireFacts DEF Handle, Reliable, LongReordering, Cleanup,
     vars, netvars, settings, config
<1> QED
  BY <1>1, <1>2, <1>3, <1>4, <1>5, <1>6, <1>7

(* Superseding a Persister loses nothing that was saved in it. *)
LEMMA CopyKeeps ==
  ASSUME IInv, NEW i \in Servers, persisters' = Copy(i),
         saved' = [saved EXCEPT ![i] = Len(persisters')], UNCHANGED call
  PROVE  CallInv'
<1> USE DEF IInv
<1> SUFFICES ASSUME NEW c \in Calls
             PROVE  /\ pc[c] = "deliver" \/ handler[c] # "none" => inst[c] \in DOMAIN persisters'
                    /\ handler[c] \in {"ran", "returned"} => c \in persisters'[inst[c]]
                    /\ pc[c] \in {"delayed", "true"}
                         => c \in persisters'[saved'[Connection(from[c])]]
  BY DEF CallInv, call
<1>1. \A p \in DOMAIN persisters : p \in DOMAIN persisters' /\ persisters'[p] = persisters[p]
  BY AppendCopy
<1>2. /\ pc[c] = "deliver" \/ handler[c] # "none" => inst[c] \in DOMAIN persisters'
      /\ handler[c] \in {"ran", "returned"} => c \in persisters'[inst[c]]
  BY <1>1 DEF CallInv
<1>3. ASSUME pc[c] \in {"delayed", "true"}
      PROVE  c \in persisters'[saved'[Connection(from[c])]]
  <2>1. PICK s \in Servers : s = Connection(from[c])
    BY <1>3, EndShape DEF TypeOK, NetTypeOK
  <2>2. c \in persisters[saved[s]] /\ saved[s] \in DOMAIN persisters
    BY <1>3, <2>1 DEF CallInv, TypeOK
  <2>3. persisters'[saved'[s]] = persisters[saved[s]]
    <3>1. CASE s = i
      BY <3>1, AppendCopy DEF TypeOK
    <3>2. CASE s # i
      BY <2>2, <3>2, <1>1 DEF TypeOK
    <3> QED
      BY <3>1, <3>2
  <2> QED
    BY <2>1, <2>2, <2>3
<1> QED
  BY <1>2, <1>3

(* A Call succeeds only at the server object the network still knows. *)
LEMMA ReplyFacts ==
  ASSUME IInv, NEW c \in Calls, pc[c] = "got", ~isServerDead(c)
  PROVE  from[c] \in enabled /\ c \in persisters[saved[Connection(from[c])]]
<1> USE DEF IInv
<1>1. PICK s \in Servers : s = Connection(from[c])
  BY EndShape DEF TypeOK, NetTypeOK
<1>2. inst[c] \in DOMAIN persisters /\ c \in persisters[inst[c]]
  BY DEF CallInv
<1>3. servers[s] = inst[c] /\ from[c] \in enabled
  BY <1>1 DEF isServerDead
<1>4. inst[c] # 0
  BY <1>2 DEF TypeOK
<1> QED
  BY <1>1, <1>2, <1>3, <1>4 DEF ServerInv

LEMMA CallStep ==
  ASSUME IInv, [Next]_vars
  PROVE  CallInv'
<1> USE DEF IInv
<1>1. CASE UNCHANGED <<call, persisters, saved>>
  BY <1>1 DEF CallInv, call
<1>2. ASSUME NEW c \in Calls, Moves(c), UNCHANGED config
      PROVE  CallInv'
  <2>1. UNCHANGED <<from, inst, opts, handler, persisters, saved>>
    BY <1>2, MoveFacts DEF config
  <2>2. PICK q \in Places : Go(c, q)
    BY <1>2, MoveFacts
  <2>3. \A d \in Calls : d # c => pc'[d] = pc[d]
    BY ZenonT(60), <2>2 DEF Go, TypeOK, NetTypeOK
  <2>4. /\ pc'[c] \in {"idle", "sending", "request", "deliver", "timeout"} => handler[c] = "none"
        /\ pc'[c] = "deliver" => inst[c] \in DOMAIN persisters
        /\ pc'[c] = "got" => handler[c] = "returned"
    BY ZenonT(60), <1>2 DEF Moves, Receive, NetworkGone, TimeOut, DropRequest, Poll, NoReply, Reply, LateReply,
       Go, CallInv, TypeOK, NetTypeOK
  <2>5. pc'[c] \in {"delayed", "true"} => c \in persisters[saved[Connection(from[c])]]
    <3>1. CASE Reply(c)
      BY <3>1, ReplyFacts DEF Reply
    <3>2. CASE LateReply(c)
      BY ZenonT(60), <3>2 DEF LateReply, CallInv
    <3>3. CASE ~Reply(c) /\ ~LateReply(c)
      BY <1>2, <3>3 DEF Moves, Receive, NetworkGone, TimeOut, DropRequest, Poll, NoReply,
         Go, TypeOK, NetTypeOK
    <3> QED
      BY <3>1, <3>2, <3>3
  <2> QED
    BY <2>1, <2>3, <2>4, <2>5 DEF CallInv
<1>3. ASSUME NEW c \in Calls, NEW e \in ends, Call(c, e), UNCHANGED config
      PROVE  CallInv'
  BY ZenonT(60), <1>3 DEF Call, Go, config, CallInv, TypeOK, NetTypeOK
<1>4. ASSUME NEW c \in Calls, readEndnameInfo(c), UNCHANGED config
      PROVE  CallInv'
  <2>1. PICK s \in Servers : s = Connection(from[c])
    BY <1>4, EndShape DEF readEndnameInfo, TypeOK, NetTypeOK
  <2>2. servers[s] # 0 => servers[s] \in DOMAIN persisters
    BY ZenonT(60), <2>1 DEF ServerInv, TypeOK
  <2>3. /\ UNCHANGED <<from, handler, persisters, saved>>
        /\ pc'[c] = "deliver" => inst'[c] \in DOMAIN persisters
        /\ pc'[c] \in {"deliver", "timeout"} /\ handler[c] = "none"
        /\ \A d \in Calls : d # c => pc'[d] = pc[d] /\ inst'[d] = inst[d]
    BY ZenonT(60), <1>4, <2>1, <2>2 DEF readEndnameInfo, Go, config, CallInv, TypeOK, NetTypeOK
  <2> QED
    BY <2>3 DEF CallInv
<1>5. ASSUME NEW c \in Calls, Deliver(c), UNCHANGED config
      PROVE  CallInv'
  BY <1>5 DEF Deliver, Go, config, CallInv, TypeOK, NetTypeOK
<1>6. ASSUME NEW c \in Calls, Return(c), UNCHANGED config
      PROVE  CallInv'
  BY ZenonT(60), <1>6 DEF Return, config, CallInv, TypeOK, NetTypeOK
<1>7. ASSUME NEW c \in Calls, Handle(c)
      PROVE  CallInv'
  <2>1. inst[c] \in DOMAIN persisters
    BY <1>7 DEF Handle, CallInv
  <2>2. /\ DOMAIN persisters' = DOMAIN persisters
        /\ c \in persisters'[inst[c]]
        /\ \A p \in DOMAIN persisters : persisters[p] \subseteq persisters'[p]
    BY <1>7, <2>1 DEF Handle, TypeOK
  <2>3. /\ handler'[c] = "ran" /\ handler[c] = "runs"
        /\ \A d \in Calls : d # c => handler'[d] = handler[d]
        /\ UNCHANGED <<pc, from, inst, saved>>
    BY <1>7 DEF Handle, TypeOK, NetTypeOK
  <2>4. \A d \in Calls : pc[d] \in {"delayed", "true"}
                           => saved[Connection(from[d])] \in DOMAIN persisters
    BY EndShape DEF TypeOK, NetTypeOK
  <2> QED
    BY <2>1, <2>2, <2>3, <2>4 DEF CallInv
<1>8. CASE CopyPersister
  <2>1. lock[2] \in Servers
    BY <1>8 DEF CopyPersister, LockInv, Free
  <2> QED
    BY ZenonT(60), <1>8, <2>1, CopyKeeps DEF CopyPersister, netvars
<1>9. ASSUME NEW i \in Servers, StartServer(i)
      PROVE  CallInv'
  BY <1>9, CopyKeeps DEF StartServer
<1>10. CASE \/ Rewires \/ DeleteServer
            \/ \E i \in Servers : ShutdownServer(i) \/ AddServer(i)
            \/ Cleanup /\ UNCHANGED config
            \/ \E yes \in BOOLEAN : (Reliable(yes) \/ LongReordering(yes)) /\ UNCHANGED config
            \/ UNCHANGED vars
  BY <1>1, <1>10, RewireFacts DEF DeleteServer, ShutdownServer, AddServer, Cleanup, Reliable,
     LongReordering, vars, netvars, config
<1> QED
  BY ZenonT(60), <1>2, <1>3, <1>4, <1>5, <1>6, <1>7, <1>8, <1>9, <1>10, Steps

LEMMA InitInv == Init => IInv
<1> SUFFICES ASSUME Init
             PROVE  IInv
  OBVIOUS
<1>1. Servers \subseteq Nat /\ 0 \notin Servers
  BY ServersPositive
<1>2. /\ persisters \in Seq(SUBSET Calls) /\ DOMAIN persisters = Servers
      /\ lock \in {"free", "delete", "copy"} \X (Servers \cup {0})
  BY ServerAssumption DEF Init, Servers, Free
<1>3. ends \subseteq Ends
  BY EndParts DEF Init
<1>4. NetTypeOK
  <2>1. opts \in [Calls -> [reliable : BOOLEAN, longReordering : BOOLEAN]]
    BY ZenonT(60) DEF Init, NetInit, NoOpts
  <2> QED
    BY <1>1, <1>3, <2>1 DEF Init, NetInit, NetTypeOK, Places
<1>5. TypeOK
  BY <1>1, <1>2, <1>4 DEF Init, TypeOK
<1>6. EndsMade /\ EndInv
  BY DEF Init, EndsMade, EndInv, Owner
<1>7. LockInv /\ ServerInv /\ CallInv
  BY DEF Init, NetInit, LockInv, ServerInv, CallInv, Free
<1> QED
  BY <1>5, <1>6, <1>7 DEF IInv

LEMMA Inductive == Spec => []IInv
<1>1. IInv /\ [Next]_vars => IInv'
  BY TypeStep, EndStep, LockStep, CallStep DEF IInv
<1> QED
  BY <1>1, InitInv, PTL DEF Spec

(* Only Reply turns a Call into one that succeeds, and only through an     *)
(* enabled end.                                                            *)
LEMMA SupersededFails ==
  ASSUME IInv, [Next]_vars
  PROVE  \A c \in Calls :
           pc[c] # "idle" /\ Superseded(from[c]) /\ pc[c] \notin {"true", "delayed"}
             => pc'[c] \notin {"true", "delayed"}
<1> SUFFICES ASSUME NEW c \in Calls, pc[c] # "idle", Superseded(from[c]),
                    pc[c] \notin {"true", "delayed"}, pc'[c] \in {"true", "delayed"}
             PROVE  FALSE
  OBVIOUS
<1>1. Reply(c)
  <2>1. pc \in [Calls -> Places]
    BY DEF IInv, TypeOK, NetTypeOK
  <2>2. pc'[c] # pc[c]
    OBVIOUS
  <2>3. \E d \in Calls : Moves(d) \/ (\E e \in ends : Call(d, e)) \/ readEndnameInfo(d)
                          \/ Deliver(d) \/ Return(d)
    BY ZenonT(60), <2>2, Steps, RewireFacts DEF IInv, Handle, DeleteServer, CopyPersister, ShutdownServer,
       StartServer, AddServer, Cleanup, Reliable, LongReordering, vars, netvars, call
  <2>4. PICK d \in Calls : Moves(d) \/ (\E e \in ends : Call(d, e)) \/ readEndnameInfo(d)
                            \/ Deliver(d) \/ Return(d)
    BY <2>3
  <2>5. ~readEndnameInfo(d) /\ ~Deliver(d) /\ ~Return(d)
    BY <2>1 DEF readEndnameInfo, Deliver, Return, Go
  <2>6. ~ \E e \in ends : Call(d, e)
    BY ZenonT(60), <2>1 DEF Call, Go
  <2>7. Reply(d) /\ d = c
    BY ZenonT(60), <2>1, <2>4, <2>5, <2>6 DEF Moves, Receive, NetworkGone, TimeOut, DropRequest, Poll,
       NoReply, Reply, LateReply, Go
  <2> QED
    BY <2>7
<1>2. from[c] \in enabled
  BY <1>1, ReplyFacts DEF Reply
<1>3. from[c] \in Ends /\ Owner(from[c]) \in Servers
  BY <1>2 DEF IInv, TypeOK, NetTypeOK, Superseded
<1> QED
  BY <1>2, <1>3, ClerkAssumption DEF IInv, EndInv, TypeOK, Superseded

----------------------------------------------------------------------------
(* Every reachable state of network and tester is well typed; in           *)
(* particular connecting never enables an end that was not made.           *)
THEOREM TypeCorrect == Spec => []TypeOK
<1>1. IInv => TypeOK
  BY DEF IInv
<1> QED
  BY <1>1, Inductive, PTL

(* What processReq's second isServerDead is there for: a request answered  *)
(* positively is in the Persister of the next incarnation, whatever is     *)
(* restarted, cut off, delayed or still running.                           *)
THEOREM SavedCorrect == Spec => []PositiveIsSaved
<1>1. IInv => PositiveIsSaved
  BY DEF IInv, CallInv, PositiveIsSaved
<1> QED
  BY <1>1, Inductive, PTL

(* ShutdownServer isolates an instance it cannot kill: afterwards none of  *)
(* its Calls gets a reply, but for a reply that processReq had let pass    *)
(* before and that longReordering still holds back.                        *)
THEOREM IsolationCorrect == Spec => OldInstanceIsolated
<1>1. IInv /\ [Next]_vars
        => [\A c \in Calls :
              pc[c] # "idle" /\ Superseded(from[c]) /\ pc[c] \notin {"true", "delayed"}
                => pc'[c] \notin {"true", "delayed"}]_vars
  BY SupersededFails
<1> QED
  BY <1>1, Inductive, PTL DEF Spec, OldInstanceIsolated
=============================================================================
