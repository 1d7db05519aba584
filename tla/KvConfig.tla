------------------------------ MODULE KvConfig ------------------------------
(***************************************************************************)
(* The k/v tester (Lab3/src/kvraft/config.go) with its network and the     *)
(* Persisters (Lab3/src/raft/persister.go): servers are shut down and      *)
(* started again, and parts of the network are cut, while Calls are under  *)
(* way.  A server that was shut down is not killed: its handlers run on    *)
(* and save into the Persister it was given.                               *)
(*                                                                         *)
(* A server object and its Persister are made together and share their     *)
(* number.  The service is external: its handler saves the request and     *)
(* then returns.  The methods of config hold cfg.mu; lock tells how far    *)
(* the one that holds it has got.  Loops that enable or disable ends are   *)
(* one step: a Call looks at one end only.  As in test_test.go, servers    *)
(* are connected and partitioned when all are up.                          *)
(***************************************************************************)
EXTENDS LabRpc

CONSTANT MaxStarts       \* bound: how many times a server is started again

VARIABLES
  saved,          \* the Persister of each server name
  persisters,     \* what was saved in each
  gen,            \* which of its incarnations endnames[i] belongs to
  lock,           \* ShutdownServer: what is left to do, and for whom
  running,        \* servers that are not shut down
  starting        \* servers started but not yet added to the network

ASSUME ServerAssumption == NServers \in Nat \ {0}
ASSUME ClerkAssumption == Clerks \cap Servers = {}

config == <<saved, persisters, gen, lock, running, starting>>
vars == <<netvars, config>>

Free == <<"free", 0>>
Name(i, j) == <<i, gen[i], j>>                 \* cfg.endnames[i][j]
Pairs(I, J) == {Name(i, j) : i \in I, j \in J}

TypeOK ==
  /\ NetTypeOK
  /\ persisters \in Seq(SUBSET Calls)
  /\ saved \in [Servers -> DOMAIN persisters]
  /\ gen \in [Servers -> Nat]
  /\ lock \in {"free", "delete", "copy"} \X (Servers \cup {0})
  /\ running \subseteq Servers
  /\ starting \subseteq running

(* make_config with one clerk or more from makeClient. *)
Init ==
  /\ persisters = [i \in Servers |-> {}]
  /\ saved = [i \in Servers |-> i]
  /\ servers = [i \in Servers |-> i]
  /\ gen = [i \in Servers |-> 0]
  /\ ends = {<<i, 0, j>> : i \in Servers \cup Clerks, j \in Servers}
  /\ enabled = ends
  /\ lock = Free
  /\ running = Servers
  /\ starting = {}
  /\ NetInit

----------------------------------------------------------------------------
(* The service: it saves in the Persister of its own server object. *)
Handle(c) ==
  /\ handler[c] = "runs"
  /\ handler' = [handler EXCEPT ![c] = "ran"]
  /\ persisters' = [persisters EXCEPT ![inst[c]] = @ \cup {c}]
  /\ UNCHANGED <<settings, pc, from, inst, opts, saved, gen, lock, running, starting>>

SetEnabled(E) ==
  /\ lock = Free
  /\ enabled' = E
  /\ UNCHANGED <<reliable, longReordering, ends, servers, done, call, config>>

disconnectUnlocked(E, i, cut) == E \ (Pairs({i}, cut) \cup Pairs(cut, {i}))

AllUp == running = Servers /\ starting = {}
ConnectAll == AllUp /\ SetEnabled(enabled \cup Pairs(Servers, Servers))
partition(p1, p2) ==
  /\ AllUp
  /\ SetEnabled((enabled \ (Pairs(p1, p2) \cup Pairs(p2, p1))) \cup Pairs(p1, p1) \cup Pairs(p2, p2))

ConnectClient(k, to) == SetEnabled(enabled \cup {<<k, 0, j>> : j \in to})
DisconnectClient(k, cut) == SetEnabled(enabled \ {<<k, 0, j>> : j \in cut})

----------------------------------------------------------------------------
(* ShutdownServer: cut the server off from the others, delete it, supersede *)
(* its Persister.                                                          *)
ShutdownServer(i) ==
  /\ lock = Free
  /\ i \in running \ starting
  /\ running' = running \ {i}
  /\ enabled' = disconnectUnlocked(enabled, i, Servers)
  /\ lock' = <<"delete", i>>
  /\ UNCHANGED <<reliable, longReordering, ends, servers, done, call, saved, persisters, gen, starting>>

DeleteServer ==
  /\ lock[1] = "delete"
  /\ servers' = [servers EXCEPT ![lock[2]] = 0]
  /\ lock' = <<"copy", lock[2]>>
  /\ UNCHANGED <<reliable, longReordering, ends, enabled, done, call, saved, persisters, gen, running, starting>>

Copy(i) == Append(persisters, persisters[saved[i]])

CopyPersister ==
  /\ lock[1] = "copy"
  /\ persisters' = Copy(lock[2])
  /\ saved' = [saved EXCEPT ![lock[2]] = Len(persisters')]
  /\ lock' = Free
  /\ UNCHANGED <<netvars, gen, running, starting>>

MakeEnds(i, g) == ends \cup {<<i, g, j>> : j \in Servers}

(* StartServer: fresh ends, a fresh Persister; the network hears of it     *)
(* after the lock is released and the server is up.                        *)
StartServer(i) ==
  /\ lock = Free
  /\ i \notin running
  /\ Len(persisters) < NServers + 2 * MaxStarts
  /\ gen' = [gen EXCEPT ![i] = @ + 1]
  /\ ends' = MakeEnds(i, gen'[i])
  /\ persisters' = Copy(i)
  /\ saved' = [saved EXCEPT ![i] = Len(persisters')]
  /\ running' = running \cup {i}
  /\ starting' = starting \cup {i}
  /\ UNCHANGED <<reliable, longReordering, enabled, servers, done, call, lock>>

AddServer(i) ==
  /\ i \in starting
  /\ servers' = [servers EXCEPT ![i] = saved[i]]
  /\ starting' = starting \ {i}
  /\ UNCHANGED <<reliable, longReordering, ends, enabled, done, call, saved, persisters, gen, lock, running>>

----------------------------------------------------------------------------
Next ==
  \/ \E c \in Calls : \/ \E e \in ends : Call(c, e) /\ UNCHANGED config
                      \/ (NetStep(c) \/ Return(c)) /\ UNCHANGED config
                      \/ Handle(c)
  \/ \E yes \in BOOLEAN : (Reliable(yes) \/ LongReordering(yes)) /\ UNCHANGED config
  \/ Cleanup /\ UNCHANGED config
  \/ ConnectAll
  \/ \E p1 \in SUBSET Servers : partition(p1, Servers \ p1)
  \/ \E k \in Clerks, i \in Servers : ConnectClient(k, {i}) \/ DisconnectClient(k, {i})
  \/ DeleteServer \/ CopyPersister
  \/ \E i \in Servers : ShutdownServer(i) \/ StartServer(i) \/ AddServer(i)

Spec == Init /\ [][Next]_vars

(* Goroutines and timers of the network run; nothing is assumed of the     *)
(* handlers, the tests or ConnectAll.                                      *)
FairSpec == Spec /\ \A c \in Calls : WF_vars(NetStep(c) /\ UNCHANGED config)
                                     /\ WF_vars(Return(c) /\ UNCHANGED config)

----------------------------------------------------------------------------
(* Comment in processReq: no reply after DeleteServer, "to avoid situation *)
(* in which a client gets a positive reply to an Append, but the server    *)
(* persisted the update into the old Persister".  A Call that returned     *)
(* true is in the Persister that the next incarnation will be given.       *)
PositiveIsSaved ==
  \A c \in Calls : pc[c] = "true" => c \in persisters[saved[Connection(from[c])]]

(* "Shutdown a server by isolating it": an incarnation that was shut down  *)
(* still runs and calls.  From then on the network lets no reply to it     *)
(* pass: of its Calls only those return true whose reply processReq had    *)
(* let pass before, and longReordering holds back ("delayed").             *)
Superseded(e) == Owner(e) \in Servers /\ (e[2] < gen[Owner(e)] \/ Owner(e) \notin running)
OldInstanceIsolated ==
  [][\A c \in Calls : pc[c] # "idle" /\ Superseded(from[c]) /\ pc[c] \notin {"true", "delayed"}
                        => pc'[c] \notin {"true", "delayed"}]_vars

(* Doc of labrpc: "Call() is guaranteed to return (perhaps after a delay)  *)
(* *except* if the handler function on the server side does not return".   *)
(* It returns even then, once the server is deleted or the end disabled.   *)
CallReturns ==
  \A c \in Calls :
    \/ pc[c] = "sending" ~> pc[c] \in {"true", "false"}
    \/ <>[](handler[c] = "runs") /\ []<>~isServerDead(c)
=============================================================================
