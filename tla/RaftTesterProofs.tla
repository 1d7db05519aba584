-------------------------- MODULE RaftTesterProofs --------------------------
(***************************************************************************)
(* Proofs about the Raft tester, for every number of servers, commands,    *)
(* indices and restarts, every snapshot interval, every setup and every    *)
(* set of forged snapshots.                                                *)
(***************************************************************************)
EXTENDS RaftTester, FiniteSetTheorems, TLAPS

Values == Cmds \cup {None, Null}
Snaps == [kind : {"none", "good", "bad"}, index : 0 .. MaxIndex, xlog : Seq(Cmds \cup {Null})]
Msgs == [index : 0 .. MaxIndex, cmd : Cmds \cup {None}, snap : Snaps]
Apps == [pc : {"none", "idle", "offer", "check", "mark", "fail"},
         next : 1 .. MaxIndex + 1, m : Msgs, err : BOOLEAN]
Tests == [pc : {"idle", "count", "returned", "gaveup"}, cmd : Cmds \cup {None},
          index : 0 .. MaxIndex, at : 1 .. N + 1, count : Nat, cmd1 : Values]

RaftTypeOK ==
  /\ setup \in Setups /\ failed \in BOOLEAN
  /\ raftlog \in Seq(Cmds) /\ Len(raftlog) <= setup.indices /\ submitted \subseteq Cmds
  /\ logs \in [Servers -> [Index -> Values]]
  /\ lastApplied \in [Servers -> Nat]
  /\ saved \in [Servers -> Snaps]
  /\ gen \in [Servers -> Gens] /\ alive \subseteq Servers
  /\ app \in [Servers -> [Gens -> Apps]]
  /\ test \in Tests

(* Only a server that is down may be started once more. *)
GenInv == \A i \in Servers : gen[i] <= setup.starts[i] /\ (i \notin alive => gen[i] < setup.starts[i])

(* The test looks at an index of the log. *)
TestInv == test.pc \in {"count", "returned"} => test.index \in Index /\ test.cmd \in Cmds

(* A snapshot as the tester takes them. *)
Genuine(s) == s.kind = "good" /\ s.index = Len(s.xlog)

(* An applier and the message it holds. *)
Holds(a, pcs) == a.pc \in pcs /\ a.m.snap = NoSnap
HoldsSnap(a) == a.pc = "offer" /\ a.m.snap # NoSnap
AppOK(i, g) ==
  LET a == app[i][g] IN
  /\ g > gen[i] => a.pc = "none"
  /\ a.pc = "fail" => a.err
  /\ a.err => a.pc \in {"mark", "fail"}
  /\ a.pc \in {"check", "mark"} => a.m.snap = NoSnap
  /\ Holds(a, {"offer", "check", "mark"}) => a.m.index \in Index /\ a.m.cmd \in Cmds
  /\ HoldsSnap(a) => IF setup.correct THEN setup.snapshot /\ Genuine(a.m.snap) /\ a.m.index = a.m.snap.index
                                     ELSE setup.forges
AppInv == \A i \in Servers, g \in Gens : AppOK(i, g)

SavedInv ==
  ~setup.forges => \A i \in Servers : saved[i] = NoSnap \/ (setup.snapshot /\ Genuine(saved[i]))

(* A correct Raft: whatever is in a log, a snapshot or a message is the    *)
(* agreed log's.                                                           *)
Agreed(k, c) == k \in DOMAIN raftlog /\ c = raftlog[k]
SnapAgreed(s) == \A k \in 1 .. s.index : s.xlog[k] = Null \/ Agreed(k, s.xlog[k])
AppAgreed(a) ==
  /\ HoldsSnap(a) => SnapAgreed(a.m.snap)
  /\ Holds(a, {"offer", "check", "mark"}) => Agreed(a.m.index, a.m.cmd)
AgreedInv ==
  setup.correct =>
    /\ \A i \in Servers, k \in Index : logs[i][k] \in {None, Null} \/ Agreed(k, logs[i][k])
    /\ \A i \in Servers : SnapAgreed(saved[i])
    /\ \A i \in Servers, g \in Gens : AppAgreed(app[i][g])

(* A faulty one: a server's snapshot is the start of its own log. *)
OwnInv ==
  ~setup.correct /\ ~setup.forges /\ ~Alarm =>
    \A i \in Servers : \A k \in 1 .. saved[i].index : saved[i].xlog[k] \in {Null, logs[i][k]}

(* A correct Raft without snapshots: what an applier has had is in the log,*)
(* however many instances of the server there were.                        *)
Had(i, a) ==
  /\ a.pc \in {"idle", "offer", "check"} => a.next = 1 \/ logs[i][a.next - 1] # None
  /\ Holds(a, {"offer", "check"}) => a.m.index = a.next
  /\ a.pc = "mark" => logs[i][a.m.index] # None

(* A correct Raft with snapshots and no restarts: the log holds exactly    *)
(* what the only applier has had.                                          *)
Exact(i, a) ==
  /\ i \in alive /\ gen[i] = 0
  /\ a.pc \in {"idle", "offer", "check", "mark"}
  /\ a.pc # "mark" => /\ lastApplied[i] = a.next - 1
                      /\ \A k \in Index : logs[i][k] # None <=> k < a.next
  /\ a.pc = "mark" => \A k \in Index : logs[i][k] # None <=> k <= a.m.index
  /\ Holds(a, {"offer", "check"}) => a.m.index = a.next
  /\ HoldsSnap(a) => /\ a.m.snap.index >= a.next
                     /\ \A k \in 1 .. a.m.snap.index : a.m.snap.xlog[k] # Null
  /\ \A k \in 1 .. saved[i].index : saved[i].xlog[k] # Null

Silence == \A i \in Servers, g \in Gens : ~app[i][g].err
CleanInv ==
  setup.correct /\ ~RestartsFromSnapshot =>
    /\ Silence /\ (failed => test.pc = "gaveup")
    /\ \A i \in Servers, k \in Index : logs[i][k] # Null
    /\ ~setup.snapshot => \A i \in Servers, g \in Gens : Had(i, app[i][g])
    /\ setup.snapshot => \A i \in Servers : Exact(i, app[i][0])

(* What nCommitted has counted is still there. *)
Having(n, k, c) == {i \in 1 .. n : logs[i][k] = c}
CountInv ==
  /\ test.pc = "count" /\ test.count > 0 /\ ~RestartsFromSnapshot /\ ~setup.forges /\ ~Alarm =>
       /\ test.cmd1 # None
       /\ \E i \in 1 .. test.at - 1 : logs[i][test.index] = test.cmd1
       /\ Cardinality(Having(test.at - 1, test.index, test.cmd1)) >= test.count
  /\ test.pc = "returned" /\ ~RestartsFromSnapshot /\ ~setup.forges /\ ~Alarm =>
       Cardinality(Having(N, test.index, test.cmd)) >= expectedServers

Basic == RaftTypeOK /\ GenInv /\ TestInv /\ AppInv /\ SavedInv
IInv ==
  /\ Basic
  /\ AgreedInv /\ OwnInv /\ DisagreementReported
  /\ CleanInv /\ CountInv

----------------------------------------------------------------------------
(* Types, and what a step does to the appliers. *)

LEMMA SetupParts ==
  ASSUME setup \in Setups
  PROVE  /\ setup.snapshot \in BOOLEAN /\ setup.correct \in BOOLEAN
         /\ setup.forges \in BOOLEAN /\ (setup.forges => ~setup.correct)
         /\ setup.starts \in [Servers -> Gens] /\ setup.indices \in 0 .. MaxIndex
BY SetupAssumption

LEMMA ForgedParts ==
  ASSUME NEW s \in Forged
  PROVE  s \in Snaps /\ s # NoSnap /\ s.index \in 0 .. MaxIndex
<1>1. s \in [kind : {"good", "bad"}, index : 0 .. MaxIndex, xlog : Seq(Cmds \cup {Null})]
  BY ForgedAssumption
<1>2. s.kind # "none" /\ NoSnap.kind = "none"
  BY <1>1 DEF NoSnap
<1>3. s \in Snaps
  BY <1>1 DEF Snaps
<1> QED BY <1>1, <1>2, <1>3

LEMMA Constructed ==
  /\ NoSnap \in Snaps /\ NoMsg \in Msgs /\ NoMsg.snap = NoSnap /\ NoSnap.index = 0 /\ Len(NoSnap.xlog) = 0
  /\ NoSnap.kind = "none"
  /\ \A n \in 1 .. MaxIndex + 1 :
       /\ Running(n) \in Apps
       /\ Running(n).pc = "idle" /\ Running(n).next = n /\ Running(n).m.snap = NoSnap /\ ~Running(n).err
  /\ NoTest \in Tests
BY BoundAssumption DEF NoSnap, Snaps, NoMsg, Msgs, Running, Apps, NoTest, Tests, Values

LEMMA NextIndex == \A k \in Index : k + 1 \in 1 .. MaxIndex + 1
BY BoundAssumption DEF Index

Others(i, g) == \A j \in Servers, h \in Gens : j # i \/ h # g => app'[j][h] = app[j][h]

LEMMA AppSet ==
  ASSUME RaftTypeOK, NEW i \in Servers, NEW g \in Gens, NEW b \in Apps,
         app' = [app EXCEPT ![i][g] = b]
  PROVE  /\ app' \in [Servers -> [Gens -> Apps]]
         /\ app'[i][g] = b
         /\ Others(i, g)
BY DEF RaftTypeOK, Others

(* The messages of an instance. *)
LEMMA OfferMsg ==
  ASSUME Basic, NEW n \in 1 .. MaxIndex + 1, NEW m \in Offers(n)
  PROVE  /\ m \in Msgs
         /\ m.snap = NoSnap => /\ m.index \in Index /\ m.cmd \in Cmds
                               /\ setup.correct => m.index = n /\ Agreed(m.index, m.cmd)
         /\ m.snap # NoSnap /\ ~setup.correct => setup.forges
         /\ m.snap # NoSnap /\ setup.correct => /\ setup.snapshot /\ Genuine(m.snap) /\ m.index = m.snap.index
                                                /\ \E j \in Servers : m.snap = saved[j]
                                                /\ m.snap.index >= n
<1> USE DEF Basic
<1> DEFINE OfForged == \E s \in Forgeries : \E k \in {0, s.index} : m = [index |-> k, cmd |-> None, snap |-> s]
           OfAny == m \in [index : 1 .. setup.indices, cmd : Cmds, snap : {NoSnap}]
           OfLog == \E k \in {n} \cap DOMAIN raftlog : m = [NoMsg EXCEPT !.index = k, !.cmd = raftlog[k]]
           OfSaved == \E j \in Servers : /\ setup.snapshot /\ saved[j].index >= n
                                         /\ m = [NoMsg EXCEPT !.index = saved[j].index, !.snap = saved[j]]
<1>a. setup.correct => OfLog \/ OfSaved
  BY ZenonT(60) DEF Offers
<1>b. ~setup.correct => OfAny \/ OfForged
  BY ZenonT(60) DEF Offers, NoMsg
<1>0. CASE ~setup.correct /\ OfForged
  <2>0. PICK s \in Forged : setup.forges /\ \E k \in {0, s.index} : m = [index |-> k, cmd |-> None, snap |-> s]
    BY ZenonT(60), <1>0 DEF Forgeries
  <2>1. PICK k \in {0, s.index} : m = [index |-> k, cmd |-> None, snap |-> s]
    BY ZenonT(60), <2>0
  <2>2. s \in Snaps /\ s # NoSnap /\ k \in 0 .. MaxIndex
    BY <2>1, ForgedParts, BoundAssumption
  <2>4. m \in Msgs /\ m.snap = s
    BY <2>1, <2>2 DEF Msgs
  <2> QED BY ZenonT(60), <1>0, <2>0, <2>2, <2>4
<1>1. CASE ~setup.correct /\ OfAny
  <2>1. m \in [index : 1 .. setup.indices, cmd : Cmds, snap : {NoSnap}]
    BY ZenonT(60), <1>1
  <2>2. setup.indices \in 0 .. MaxIndex
    BY ZenonT(60), SetupParts DEF RaftTypeOK
  <2>3. m.index \in Index /\ m.cmd \in Cmds /\ m.snap = NoSnap
    BY <2>1, <2>2, BoundAssumption DEF Index
  <2>4. m \in Msgs
    <3>1. m = [index |-> m.index, cmd |-> m.cmd, snap |-> m.snap]
      BY <2>1
    <3>2. m.index \in 0 .. MaxIndex /\ NoSnap \in Snaps
      BY <2>3, BoundAssumption, Constructed DEF Index
    <3> QED BY <2>3, <3>1, <3>2 DEF Msgs
  <2> QED BY ZenonT(60), <1>1, <2>3, <2>4
<1>2. CASE setup.correct /\ OfLog
  <2>1. PICK k \in {n} \cap DOMAIN raftlog : m = [NoMsg EXCEPT !.index = k, !.cmd = raftlog[k]]
    BY ZenonT(60), <1>2
  <2>2. k = n /\ k \in DOMAIN raftlog /\ raftlog[k] \in Cmds /\ k \in Index
    BY <2>1, SetupParts, BoundAssumption DEF RaftTypeOK, Index
  <2>a. m = [index |-> k, cmd |-> raftlog[k], snap |-> NoSnap]
    BY ZenonT(60), <2>1 DEF NoMsg
  <2>3. m.index = k /\ m.cmd = raftlog[k] /\ m.snap = NoSnap /\ m \in Msgs
    BY <2>a, <2>2, Constructed DEF Msgs, Index
  <2> QED BY <2>2, <2>3 DEF Agreed
<1>3. CASE setup.correct /\ OfSaved
  <2>1. PICK j \in Servers, s \in Snaps : s = saved[j] /\ s.index >= n /\ m = [NoMsg EXCEPT !.index = s.index, !.snap = s]
    BY ZenonT(60), <1>3 DEF RaftTypeOK
  <2>2. m = [index |-> s.index, cmd |-> None, snap |-> s] /\ s.index \in 0 .. MaxIndex
    BY ZenonT(60), <2>1 DEF NoMsg, Snaps
  <2>3. m.snap = s /\ m.index = s.index /\ m \in Msgs
    BY <2>2 DEF Msgs
  <2>4. s # NoSnap
    BY <2>1, Constructed
  <2>5. Genuine(s)
    BY ZenonT(60), <1>3, <2>1, <2>4, SetupParts DEF SavedInv, RaftTypeOK
  <2> QED BY ZenonT(60), <1>3, <2>1, <2>3, <2>4, <2>5
<1> QED BY ZenonT(60), <1>a, <1>b, <1>0, <1>1, <1>2, <1>3

LEMMA GotoStep ==
  ASSUME RaftTypeOK, NEW i \in Servers, NEW g \in Gens, NEW err \in BOOLEAN,
         NEW to \in {"check", "mark", "fail"}, Goto(i, g, to, err)
  PROVE  /\ app' \in [Servers -> [Gens -> Apps]] /\ Others(i, g)
         /\ app'[i][g].pc = to /\ app'[i][g].err = err
         /\ app'[i][g].m = app[i][g].m /\ app'[i][g].next = app[i][g].next
<1> DEFINE b == [app[i][g] EXCEPT !.pc = to, !.err = err]
<1>1. app[i][g] \in Apps
  BY DEF RaftTypeOK
<1>2. b \in Apps /\ b.pc = to /\ b.err = err /\ b.m = app[i][g].m /\ b.next = app[i][g].next
  BY ZenonT(60), <1>1 DEF Apps
<1>3. app' = [app EXCEPT ![i][g] = b]
  BY ZenonT(60) DEF Goto, RaftTypeOK
<1> HIDE DEF b
<1> QED BY ZenonT(60), <1>2, <1>3, AppSet

(* What Offer does to the applier it hands a message to. *)
LEMMA OfferStep ==
  ASSUME Basic, NEW i \in Servers, Offer(i)
  PROVE  /\ app' \in [Servers -> [Gens -> Apps]] /\ Others(i, gen[i])
         /\ LET a == app[i][gen[i]]
                b == app'[i][gen[i]] IN
            /\ a.pc = "idle" /\ b.pc = "offer" /\ b.err = a.err /\ b.next = a.next
            /\ b.m \in Offers(a.next)
<1> DEFINE a == app[i][gen[i]]
<1>1. a \in Apps /\ gen[i] \in Gens /\ a.next \in 1 .. MaxIndex + 1
  BY DEF Basic, RaftTypeOK, Apps
<1>2. PICK m \in Offers(a.next) : app' = [app EXCEPT ![i][gen[i]] = [a EXCEPT !.pc = "offer", !.m = m]]
  BY ZenonT(60) DEF Offer
<1>3. m \in Msgs
  BY <1>1, OfferMsg
<1> DEFINE b == [a EXCEPT !.pc = "offer", !.m = m]
<1>4. b \in Apps /\ b.pc = "offer" /\ b.m = m /\ b.err = a.err /\ b.next = a.next
  BY ZenonT(60), <1>1, <1>3 DEF Apps
<1>5. a.pc = "idle" /\ app' = [app EXCEPT ![i][gen[i]] = b]
  BY ZenonT(60), <1>2 DEF Offer
<1> HIDE DEF a, b
<1>6. app' \in [Servers -> [Gens -> Apps]] /\ Others(i, gen[i]) /\ app'[i][gen[i]] = b
  BY ZenonT(60), <1>1, <1>4, <1>5, AppSet DEF Basic
<1> QED BY <1>4, <1>5, <1>6 DEF a

(* What Receive does: the applier goes on to check, or has an error. *)
LEMMA ReceiveStep ==
  ASSUME Basic, NEW i \in Servers, NEW g \in Gens, Receive(i, g)
  PROVE  /\ app' \in [Servers -> [Gens -> Apps]] /\ Others(i, g)
         /\ Holds(app[i][g], {"offer"})
         /\ app'[i][g].m = app[i][g].m /\ app'[i][g].next = app[i][g].next
         /\ IF OutOfOrder(i, app[i][g].m.index) THEN app'[i][g].pc = "mark" /\ app'[i][g].err
                                                ELSE app'[i][g].pc = "check" /\ ~app'[i][g].err
BY ZenonT(60), GotoStep DEF Receive, Basic, Holds

(* What checkLogs does to the server's log and to its applier. *)
LEMMA CheckStep ==
  ASSUME Basic, NEW i \in Servers, NEW g \in Gens, checkLogs(i, g)
  PROVE  LET m == app[i][g].m IN
         /\ app' \in [Servers -> [Gens -> Apps]] /\ Others(i, g)
         /\ Holds(app[i][g], {"check"}) /\ m.index \in Index /\ m.cmd \in Cmds
         /\ app'[i][g].m = m /\ app'[i][g].next = app[i][g].next
         /\ app'[i][g].pc = "mark"
         /\ app'[i][g].err <=> Differs(i, m) \/ ~prevok(i, m)
         /\ logs' = [logs EXCEPT ![i][m.index] = m.cmd] /\ logs' \in [Servers -> [Index -> Values]]
<1> DEFINE m == app[i][g].m
<1>1. Holds(app[i][g], {"check"}) /\ m.index \in Index /\ m.cmd \in Cmds
  BY ZenonT(60) DEF checkLogs, Holds, Basic, AppInv, AppOK
<1>2. logs' = [logs EXCEPT ![i][m.index] = m.cmd]
  BY DEF checkLogs
<1>3. logs' \in [Servers -> [Index -> Values]]
  BY ZenonT(60), <1>1, <1>2 DEF Basic, RaftTypeOK, Values
<1>4. Goto(i, g, "mark", Differs(i, m) \/ ~prevok(i, m)) /\ (Differs(i, m) \/ ~prevok(i, m)) \in BOOLEAN
  BY ZenonT(60) DEF checkLogs, Differs, prevok
<1>5. /\ app' \in [Servers -> [Gens -> Apps]] /\ Others(i, g)
      /\ app'[i][g].pc = "mark" /\ app'[i][g].err = (Differs(i, m) \/ ~prevok(i, m))
      /\ app'[i][g].m = m /\ app'[i][g].next = app[i][g].next
  BY ZenonT(60), <1>4, GotoStep DEF Basic
<1> QED BY ZenonT(60), <1>1, <1>2, <1>3, <1>5

LEMMA IndexFacts == \A k \in Index : k \in Nat /\ k + 1 \in 1 .. MaxIndex + 1 /\ ~(k < 1)
BY BoundAssumption DEF Index

LEMMA Listed ==
  ASSUME NEW S, NEW n \in Nat, NEW q \in [1 .. n -> S]
  PROVE  q \in Seq(S) /\ Len(q) = n
OBVIOUS

LEMMA XlogType ==
  ASSUME Basic, NEW i \in Servers, NEW k \in Index
  PROVE  /\ Xlog(i, k) \in Seq(Cmds \cup {Null}) /\ Len(Xlog(i, k)) = k
         /\ [kind |-> "good", index |-> k, xlog |-> Xlog(i, k)] \in Snaps
         /\ Genuine([kind |-> "good", index |-> k, xlog |-> Xlog(i, k)])
<1>1. \A j \in 1 .. k : (IF logs[i][j] = None THEN Null ELSE logs[i][j]) \in Cmds \cup {Null}
  BY BoundAssumption DEF Basic, RaftTypeOK, Index, Values
<1>2. k \in Nat /\ k \in 0 .. MaxIndex
  BY BoundAssumption DEF Index
<1>3. Xlog(i, k) \in [1 .. k -> Cmds \cup {Null}]
  BY <1>1 DEF Xlog
<1>4. Xlog(i, k) \in Seq(Cmds \cup {Null}) /\ Len(Xlog(i, k)) = k
  BY ZenonT(60), <1>2, <1>3, Listed
<1> QED BY <1>2, <1>4 DEF Snaps, Genuine

(* What the applier does after checkLogs: lastApplied, and a snapshot. *)
LEMMA MarkStep ==
  ASSUME Basic, NEW i \in Servers, NEW g \in Gens, Mark(i, g)
  PROVE  LET a == app[i][g]
             k == a.m.index IN
         /\ app' \in [Servers -> [Gens -> Apps]] /\ Others(i, g)
         /\ Holds(a, {"mark"}) /\ k \in Index
         /\ a.err => app'[i][g].pc = "fail" /\ app'[i][g].err
         /\ ~a.err => app'[i][g] = Running(k + 1)
         /\ saved' \in [Servers -> Snaps]
         /\ \/ saved' = saved
            \/ /\ setup.snapshot
               /\ saved' = [saved EXCEPT ![i] = [kind |-> "good", index |-> k, xlog |-> Xlog(i, k)]]
         /\ lastApplied' \in [Servers -> Nat]
         /\ setup.snapshot => lastApplied' = [lastApplied EXCEPT ![i] = k]
<1> DEFINE a == app[i][g]
           k == a.m.index
           b == IF a.err THEN [a EXCEPT !.pc = "fail"] ELSE Running(k + 1)
<1>1. a \in Apps /\ Holds(a, {"mark"}) /\ k \in Index
  BY ZenonT(60) DEF Mark, Holds, Basic, AppInv, AppOK, RaftTypeOK
<1>2. k \in Nat /\ k + 1 \in 1 .. MaxIndex + 1
  BY ZenonT(60), <1>1, IndexFacts
<1>3. b \in Apps /\ (a.err => b.pc = "fail" /\ b.err) /\ (~a.err => b = Running(k + 1))
  <2>1. CASE a.err
    BY ZenonT(60), <1>1, <2>1 DEF Apps
  <2>2. CASE ~a.err
    BY ZenonT(60), <1>2, <2>2, Constructed
  <2> QED BY <2>1, <2>2
<1>4. app' = [app EXCEPT ![i][g] = b]
  BY ZenonT(60) DEF Mark
<1>a. \/ saved' = saved
      \/ setup.snapshot /\ saved' = [saved EXCEPT ![i] = [kind |-> "good", index |-> k, xlog |-> Xlog(i, k)]]
  BY ZenonT(60) DEF Mark
<1>5. saved' \in [Servers -> Snaps]
  <2>1. [kind |-> "good", index |-> k, xlog |-> Xlog(i, k)] \in Snaps
    BY <1>1, XlogType
  <2> QED BY ZenonT(60), <1>a, <2>1 DEF Basic, RaftTypeOK
<1>6. /\ lastApplied' \in [Servers -> Nat]
      /\ setup.snapshot => lastApplied' = [lastApplied EXCEPT ![i] = k]
  BY ZenonT(60), <1>2 DEF Mark, Basic, RaftTypeOK
<1> HIDE DEF b
<1>7. app' \in [Servers -> [Gens -> Apps]] /\ Others(i, g) /\ app'[i][g] = b
  BY ZenonT(60), <1>3, <1>4, AppSet DEF Basic
<1> QED BY ZenonT(60), <1>1, <1>3, <1>a, <1>5, <1>6, <1>7

(* What a snapshot leaves. *)
LEMMA Replaced ==
  ASSUME Basic, NEW i \in Servers, NEW s \in Snaps, ingestSnap(i, s)
  PROVE  /\ logs' \in [Servers -> [Index -> Values]] /\ lastApplied' \in [Servers -> Nat]
         /\ lastApplied'[i] = s.index
         /\ \A j \in Servers : j # i => logs'[j] = logs[j] /\ lastApplied'[j] = lastApplied[j]
         /\ \A k \in Index : logs'[i][k] = IF k <= Len(s.xlog) THEN s.xlog[k] ELSE None
         /\ \A k \in 1 .. Len(s.xlog) : s.xlog[k] \in Cmds \cup {Null}
<1> DEFINE l == [k \in Index |-> IF k <= Len(s.xlog) THEN s.xlog[k] ELSE None]
<1>1. Len(s.xlog) \in Nat /\ \A k \in 1 .. Len(s.xlog) : s.xlog[k] \in Cmds \cup {Null}
  <2>1. s.xlog \in Seq(Cmds \cup {Null})
    BY DEF Snaps
  <2> QED BY <2>1
<1>2. s.index \in Nat
  BY BoundAssumption DEF Snaps
<1>3. l \in [Index -> Values]
  BY <1>1, BoundAssumption DEF Index, Values
<1>4. logs' = [logs EXCEPT ![i] = l] /\ lastApplied' = [lastApplied EXCEPT ![i] = s.index]
  BY DEF ingestSnap
<1>5. \A k \in Index : l[k] = IF k <= Len(s.xlog) THEN s.xlog[k] ELSE None
  OBVIOUS
<1> HIDE DEF l
<1> QED BY <1>1, <1>2, <1>3, <1>4, <1>5 DEF Basic, RaftTypeOK

(* What a snapshot that the tester took leaves. *)
LEMMA Ingested ==
  ASSUME Basic, NEW i \in Servers, NEW s \in Snaps, s.index = Len(s.xlog), ingestSnap(i, s)
  PROVE  /\ lastApplied'[i] = s.index
         /\ \A j \in Servers : j # i => logs'[j] = logs[j] /\ lastApplied'[j] = lastApplied[j]
         /\ \A k \in Index : logs'[i][k] = IF k <= s.index THEN s.xlog[k] ELSE None
         /\ \A k \in 1 .. s.index : k \in Index /\ s.xlog[k] \in Cmds \cup {Null}
<1>1. s.index \in 0 .. MaxIndex
  BY DEF Snaps
<1>2. \A k \in 1 .. s.index : k \in Index
  BY <1>1, BoundAssumption DEF Index
<1> QED BY <1>2, Replaced

(* What a snapshot in the channel does to the log of its server. *)
LEMMA InstallStep ==
  ASSUME Basic, NEW i \in Servers, NEW g \in Gens, InstallSnap(i, g)
  PROVE  LET a == app[i][g]
             s == a.m.snap IN
         /\ app' \in [Servers -> [Gens -> Apps]] /\ Others(i, g)
         /\ HoldsSnap(a) /\ s \in Snaps /\ setup.snapshot
         /\ ingestSnap(i, s) /\ app'[i][g] = Running(s.index + 1) /\ s.index + 1 \in 1 .. MaxIndex + 1
         /\ setup.correct => s.index = Len(s.xlog)
         /\ setup.correct \/ setup.forges
<1> DEFINE a == app[i][g]
           s == a.m.snap
<1>1. a \in Apps /\ HoldsSnap(a)
  BY ZenonT(60), Constructed DEF InstallSnap, HoldsSnap, Basic, RaftTypeOK
<1>2. s \in Snaps /\ setup.snapshot /\ (setup.correct => s.index = Len(s.xlog)) /\ (setup.correct \/ setup.forges)
  BY <1>1 DEF InstallSnap, Basic, AppInv, AppOK, Apps, Msgs, Genuine
<1>3. s.index + 1 \in 1 .. MaxIndex + 1
  <2>1. s.index \in 0 .. MaxIndex
    BY <1>2 DEF Snaps
  <2> HIDE DEF s
  <2> QED BY <2>1, BoundAssumption
<1>4. ingestSnap(i, s) /\ app' = [app EXCEPT ![i][g] = Running(s.index + 1)]
  BY ZenonT(60) DEF InstallSnap
<1> QED BY ZenonT(60), <1>1, <1>2, <1>3, <1>4, Constructed, AppSet DEF Basic

LEMMA SkipStep ==
  ASSUME Basic, NEW i \in Servers, NEW g \in Gens, SkipSnap(i, g)
  PROVE  LET a == app[i][g] IN
         /\ app' \in [Servers -> [Gens -> Apps]] /\ Others(i, g)
         /\ HoldsSnap(a) /\ app'[i][g] = Running(a.next) /\ a.next \in 1 .. MaxIndex + 1
<1> DEFINE a == app[i][g]
<1>1. a \in Apps /\ HoldsSnap(a) /\ app' = [app EXCEPT ![i][g] = Running(a.next)]
  BY ZenonT(60) DEF SkipSnap, HoldsSnap, Basic, RaftTypeOK
<1>2. a.next \in 1 .. MaxIndex + 1
  BY ZenonT(60), <1>1 DEF Apps
<1> QED BY ZenonT(60), <1>1, <1>2, Constructed, AppSet DEF Basic

(* The errors of ingestSnap are about a forged snapshot. *)
LEMMA ForgedStep ==
  ASSUME Basic, NEW i \in Servers, NEW g \in Gens, MismatchedSnap(i, g) \/ BadSnap(i, g)
  PROVE  HoldsSnap(app[i][g]) /\ ~setup.correct /\ setup.forges
<1>1. /\ app[i][g].pc = "offer" /\ app[i][g].m.snap.kind # "none"
      /\ ~(app[i][g].m.snap.kind = "good" /\ app[i][g].m.index = app[i][g].m.snap.index)
  BY ZenonT(60) DEF MismatchedSnap, BadSnap
<1>2. HoldsSnap(app[i][g])
  BY ZenonT(60), <1>1, Constructed DEF HoldsSnap
<1>3. ~setup.correct /\ setup.forges
  BY ZenonT(60), <1>1, <1>2 DEF Basic, AppInv, AppOK, Genuine
<1> QED BY ZenonT(60), <1>2, <1>3

LEMMA MismatchedStep ==
  ASSUME Basic, NEW i \in Servers, NEW g \in Gens, MismatchedSnap(i, g)
  PROVE  /\ app' \in [Servers -> [Gens -> Apps]] /\ Others(i, g)
         /\ app'[i][g].pc = "fail" /\ app'[i][g].err
BY ZenonT(60), GotoStep DEF MismatchedSnap, Basic

(* What start1 does: a new applier, after the saved snapshot. *)
LEMMA StartStep ==
  ASSUME Basic, NEW i \in Servers, start1(i)
  PROVE  LET g == gen[i] + 1 IN
         /\ g \in Gens /\ g <= setup.starts[i]
         /\ gen' \in [Servers -> Gens] /\ gen' = [gen EXCEPT ![i] = g] /\ alive' = alive \cup {i}
         /\ app' \in [Servers -> [Gens -> Apps]] /\ Others(i, g)
         /\ app'[i][g] = Running(saved[i].index + 1)
         /\ saved[i].index + 1 \in 1 .. MaxIndex + 1
         /\ app[i][g].pc = "none"
         /\ saved[i] \in Snaps /\ (~setup.forges => saved[i].index = Len(saved[i].xlog))
         /\ \/ saved[i] # NoSnap /\ (~setup.forges => setup.snapshot) /\ ingestSnap(i, saved[i])
            \/ /\ saved[i] = NoSnap /\ UNCHANGED logs
               /\ lastApplied' = [lastApplied EXCEPT ![i] = 0] /\ lastApplied' \in [Servers -> Nat]
<1> DEFINE g == gen[i] + 1
<1>1. g \in Gens /\ g <= setup.starts[i] /\ g > gen[i]
  BY SetupParts, BoundAssumption DEF start1, Basic, GenInv, RaftTypeOK, Gens
<1>2. gen' \in [Servers -> Gens] /\ gen' = [gen EXCEPT ![i] = g] /\ gen'[i] = g /\ alive' = alive \cup {i}
  BY <1>1 DEF start1, Basic, RaftTypeOK
<1>3. saved[i] \in Snaps /\ saved[i].index + 1 \in 1 .. MaxIndex + 1
  BY BoundAssumption DEF Basic, RaftTypeOK, Snaps
<1>a. ~setup.forges => saved[i].index = Len(saved[i].xlog)
  BY Constructed DEF Basic, SavedInv, Genuine
<1>4. app' = [app EXCEPT ![i][g] = Running(saved[i].index + 1)]
  BY <1>2 DEF start1
<1>5. app' \in [Servers -> [Gens -> Apps]] /\ Others(i, g) /\ app'[i][g] = Running(saved[i].index + 1)
  BY ZenonT(60), <1>1, <1>3, <1>4, Constructed, AppSet DEF Basic
<1>6. app[i][g].pc = "none"
  BY <1>1 DEF Basic, AppInv, AppOK
<1>7. \/ saved[i] # NoSnap /\ (~setup.forges => setup.snapshot) /\ ingestSnap(i, saved[i])
      \/ /\ saved[i] = NoSnap /\ UNCHANGED logs
         /\ lastApplied' = [lastApplied EXCEPT ![i] = 0] /\ lastApplied' \in [Servers -> Nat]
  <2>1. saved[i] # NoSnap /\ ~setup.forges => setup.snapshot
    BY DEF Basic, SavedInv
  <2>2. lastApplied \in [Servers -> Nat]
    BY DEF Basic, RaftTypeOK
  <2> QED BY <2>1, <2>2 DEF start1
<1> QED BY ZenonT(60), <1>1, <1>2, <1>3, <1>a, <1>5, <1>6, <1>7

LEMMA AppsOK ==
  ASSUME AppInv, NEW i \in Servers, NEW g \in Gens, Others(i, g), AppOK(i, g)', UNCHANGED <<gen, setup>>
  PROVE  AppInv'
<1> SUFFICES ASSUME NEW j \in Servers, NEW h \in Gens PROVE AppOK(j, h)'
  BY DEF AppInv
<1>1. CASE j = i /\ h = g
  BY ZenonT(60), <1>1
<1>2. CASE j # i \/ h # g
  <2>1. app'[j][h] = app[j][h] /\ AppOK(j, h)
    BY ZenonT(60), <1>2 DEF Others, AppInv
  <2> QED BY <2>1 DEF AppOK, Holds, HoldsSnap
<1> QED BY <1>1, <1>2

(* Steps that leave the appliers alone. *)
TestStep == Commit \/ nCommitted \/ Decide \/ GiveUp \/ \E c \in Cmds : one(c)

LEMMA TestParts ==
  ASSUME Basic, TestStep
  PROVE  /\ UNCHANGED <<logs, lastApplied, saved, gen, alive, app, setup>>
         /\ raftlog' \in Seq(Cmds) /\ Len(raftlog') <= setup.indices
         /\ Len(raftlog) <= Len(raftlog') /\ \A k \in DOMAIN raftlog : raftlog'[k] = raftlog[k]
         /\ submitted' \subseteq Cmds /\ failed' \in BOOLEAN /\ test' \in Tests /\ TestInv'
<1> USE DEF Basic
<1>1. CASE Commit
  <2>1. PICK c \in Cmds : raftlog' = Append(raftlog, c)
    BY <1>1 DEF Commit, RaftTypeOK
  <2>2. setup.indices \in Nat /\ Len(raftlog) < setup.indices
    BY <1>1, SetupParts, BoundAssumption DEF RaftTypeOK, Commit
  <2>3. raftlog \in Seq(Cmds)
    BY DEF RaftTypeOK
  <2>4. /\ raftlog' \in Seq(Cmds) /\ Len(raftlog') <= setup.indices
        /\ Len(raftlog) <= Len(raftlog') /\ \A k \in DOMAIN raftlog : raftlog'[k] = raftlog[k]
    BY <2>1, <2>2, <2>3
  <2> QED BY <1>1, <2>4 DEF Commit, RaftTypeOK, TestInv
<1>2. CASE nCommitted
  <2>1. test.at \in Servers /\ test \in Tests /\ test.at + 1 \in 1 .. N + 1 /\ test.count + 1 \in Nat
    <3>1. test.at <= N /\ test \in Tests
      BY ZenonT(60), <1>2 DEF nCommitted, RaftTypeOK
    <3>2. test.count \in Nat /\ test.at \in 1 .. N + 1
      BY <3>1 DEF Tests
    <3> QED
      BY <3>1, <3>2, BoundAssumption DEF Servers
  <2>2. test.pc = "count" /\ test.index \in Index /\ test.cmd \in Cmds
    BY <1>2 DEF nCommitted, TestInv
  <2> DEFINE v == logs[test.at][test.index]
  <2>3. v \in Values
    BY <2>1, <2>2 DEF RaftTypeOK
  <2>4. test' \in Tests /\ TestInv'
    <3>1. CASE UNCHANGED test
      BY <2>1, <2>2, <3>1 DEF TestInv
    <3>2. CASE test' = [test EXCEPT !.at = @ + 1, !.count = IF v # None THEN @ + 1 ELSE @,
                                    !.cmd1 = IF v # None THEN v ELSE @]
      <4> HIDE DEF v
      <4> QED BY ZenonT(60), <2>1, <2>2, <2>3, <3>2 DEF Tests, TestInv
    <3> QED BY ZenonT(60), <1>2, <3>1, <3>2 DEF nCommitted
  <2>5. UNCHANGED <<raftlog, submitted, logs, lastApplied, saved, gen, alive, app, setup>> /\ failed' \in BOOLEAN
    BY ZenonT(60), <1>2 DEF nCommitted, RaftTypeOK
  <2> QED BY <2>4, <2>5 DEF RaftTypeOK
<1>3. CASE Decide
  <2>0. test \in Tests /\ test.pc = "count" /\ TestInv /\ 1 \in 1 .. N + 1
    BY <1>3, BoundAssumption DEF Decide, RaftTypeOK
  <2>1. test' = [test EXCEPT !.pc = "returned"] => test' \in Tests /\ TestInv'
    BY <2>0 DEF Tests, TestInv
  <2>2. test' = [test EXCEPT !.at = 1, !.count = 0, !.cmd1 = None] => test' \in Tests /\ TestInv'
    <3> SUFFICES ASSUME test' = [test EXCEPT !.at = 1, !.count = 0, !.cmd1 = None] PROVE test' \in Tests /\ TestInv'
      OBVIOUS
    <3>1. test' \in Tests
      BY ZenonT(60), <2>0 DEF Tests, Values
    <3>2. test'.pc = test.pc /\ test'.index = test.index /\ test'.cmd = test.cmd
      BY <2>0 DEF Tests
    <3> QED BY <3>1, <3>2, <2>0 DEF TestInv
  <2> QED BY <1>3, <2>1, <2>2 DEF Decide, RaftTypeOK
<1>4. CASE GiveUp
  <2>1. test' \in Tests /\ TestInv'
    BY <1>4, BoundAssumption DEF GiveUp, NoTest, Tests, Values, TestInv
  <2> QED BY <1>4, <2>1 DEF GiveUp, RaftTypeOK
<1>5. ASSUME NEW c \in Cmds, one(c)
      PROVE  /\ UNCHANGED <<raftlog, logs, lastApplied, saved, gen, alive, app, setup, failed>>
             /\ submitted' \subseteq Cmds /\ test' \in Tests /\ TestInv'
  <2>0. Len(raftlog) + 1 \in Index /\ 1 .. setup.indices \subseteq Index
    BY <1>5, SetupParts, BoundAssumption DEF one, RaftTypeOK, Index
  <2>2. PICK k \in Index : test' = [NoTest EXCEPT !.pc = "count", !.cmd = c, !.index = k]
    BY ZenonT(60), <1>5, <2>0 DEF one
  <2>1. k \in 0 .. MaxIndex
    BY BoundAssumption DEF Index
  <2>3. test' = [pc |-> "count", cmd |-> c, index |-> k, at |-> 1, count |-> 0, cmd1 |-> None]
    BY ZenonT(60), <2>2 DEF NoTest
  <2>4. test' \in Tests /\ TestInv'
    BY <2>1, <2>3, BoundAssumption DEF Tests, Values, TestInv
  <2> QED BY <1>5, <2>4 DEF one, RaftTypeOK
<1> QED BY <1>1, <1>2, <1>3, <1>4, <1>5 DEF TestStep, RaftTypeOK

(* Every step keeps the types and what places of the loops imply. *)
LEMMA BasicKept ==
  ASSUME Basic, [Next]_vars
  PROVE  Basic'
<1> USE DEF Basic
<1>1. CASE TestStep
  <2>1. /\ UNCHANGED <<logs, lastApplied, saved, gen, alive, app, setup>>
        /\ raftlog' \in Seq(Cmds) /\ Len(raftlog') <= setup.indices
        /\ submitted' \subseteq Cmds /\ failed' \in BOOLEAN /\ test' \in Tests /\ TestInv'
    BY ZenonT(60), <1>1, TestParts
  <2>2. RaftTypeOK'
    BY ZenonT(60), <2>1 DEF RaftTypeOK
  <2>3. (GenInv /\ SavedInv /\ AppInv)'
    BY ZenonT(60), <2>1 DEF GenInv, SavedInv, AppInv, AppOK
  <2> QED BY ZenonT(60), <2>1, <2>2, <2>3
<1>2. ASSUME NEW i \in Servers, Offer(i) PROVE Basic'
  <2>0. PICK g \in Gens : g = gen[i]
    BY DEF RaftTypeOK
  <2>1. app[i][g] \in Apps /\ ~(g > gen[i])
    BY <2>0, BoundAssumption DEF RaftTypeOK, Gens
  <2>2. AppOK(i, g)'
    <3>1. app'[i][g].m \in Offers(app[i][g].next) /\ app[i][g].next \in 1 .. MaxIndex + 1
      BY <1>2, <2>0, <2>1, OfferStep DEF Apps
    <3>2. app'[i][g].pc = "offer" /\ ~app'[i][g].err /\ UNCHANGED <<gen, setup>>
      BY ZenonT(60), <1>2, <2>0, OfferStep DEF AppInv, AppOK, Offer
    <3> DEFINE m == app'[i][g].m
    <3>3. m.snap = NoSnap => m.index \in Index /\ m.cmd \in Cmds
      BY ZenonT(60), <3>1, OfferMsg
    <3>4. m.snap # NoSnap => IF setup.correct THEN setup.snapshot /\ Genuine(m.snap) /\ m.index = m.snap.index
                                              ELSE setup.forges
      BY ZenonT(60), <3>1, OfferMsg
    <3> QED BY ZenonT(60), <2>1, <3>2, <3>3, <3>4 DEF AppOK, Holds, HoldsSnap
  <2>3. AppInv'
    BY ZenonT(60), <1>2, <2>0, <2>2, OfferStep, AppsOK DEF Offer
  <2> QED BY ZenonT(60), <1>2, <2>3, OfferStep DEF Offer, RaftTypeOK, GenInv, TestInv, SavedInv
<1>3. ASSUME NEW i \in Servers, crash1(i) PROVE Basic'
  <2>1. /\ UNCHANGED <<raftlog, submitted, logs, lastApplied, saved, gen, app, test, failed, setup>>
        /\ alive' = alive \ {i} /\ gen[i] < setup.starts[i]
    BY ZenonT(60), <1>3 DEF crash1
  <2>2. RaftTypeOK'
    BY ZenonT(60), <2>1 DEF RaftTypeOK
  <2>3. GenInv'
    BY ZenonT(60), <2>1 DEF GenInv
  <2> QED BY ZenonT(60), <2>1, <2>2, <2>3 DEF TestInv, SavedInv, AppInv, AppOK
<1>4. ASSUME NEW i \in Servers, start1(i) PROVE Basic'
  <2>0. PICK g \in Gens : g = gen[i] + 1
    BY <1>4, StartStep
  <2>1. AppOK(i, g)'
    <3>1. ~(g > gen'[i])
      BY <1>4, <2>0, StartStep, BoundAssumption DEF RaftTypeOK, Gens
    <3>2. PICK n \in 1 .. MaxIndex + 1 : app'[i][g] = Running(n)
      BY ZenonT(60), <1>4, <2>0, StartStep
    <3> QED BY ZenonT(60), <3>1, <3>2, Constructed DEF AppOK, Holds, HoldsSnap
  <2>2. ASSUME NEW j \in Servers, NEW h \in Gens, j # i \/ h # g PROVE AppOK(j, h)'
    <3>a. Others(i, g)
      BY ZenonT(60), <1>4, <2>0, StartStep
    <3>1. app'[j][h] = app[j][h] /\ AppOK(j, h) /\ setup' = setup
      BY ZenonT(60), <1>4, <2>2, <3>a DEF Others, AppInv, start1
    <3>2. gen[j] \in Nat /\ gen'[j] \in Nat /\ h \in Nat /\ (gen'[j] = gen[j] \/ gen'[j] = gen[j] + 1)
      BY <1>4, <2>0, StartStep, BoundAssumption DEF RaftTypeOK, Gens
    <3>3. h > gen'[j] => h > gen[j]
      BY <3>2
    <3> QED BY ZenonT(60), <3>1, <3>3 DEF AppOK, Holds, HoldsSnap
  <2>a. AppInv'
    <3> SUFFICES ASSUME NEW j \in Servers, NEW h \in Gens PROVE AppOK(j, h)'
      BY DEF AppInv
    <3> QED BY <2>1, <2>2
  <2>3. RaftTypeOK'
    <3>1. logs' \in [Servers -> [Index -> Values]] /\ lastApplied' \in [Servers -> Nat]
      BY <1>4, StartStep, Replaced DEF RaftTypeOK
    <3> QED BY ZenonT(60), <1>4, <3>1, StartStep DEF start1, RaftTypeOK
  <2>4. GenInv'
    BY ZenonT(60), <1>4, StartStep DEF start1, GenInv, RaftTypeOK
  <2> QED BY ZenonT(60), <1>4, <2>a, <2>2, <2>3, <2>4 DEF start1, TestInv, SavedInv
<1>5. ASSUME NEW i \in Servers, NEW g \in Gens, Receive(i, g) PROVE Basic'
  <2>1. AppOK(i, g)'
    BY ZenonT(60), <1>5, ReceiveStep DEF AppInv, AppOK, Holds, HoldsSnap, Receive
  <2>2. AppInv'
    BY ZenonT(60), <1>5, <2>1, ReceiveStep, AppsOK DEF Receive
  <2> QED BY ZenonT(60), <1>5, <2>2, ReceiveStep DEF Receive, RaftTypeOK, GenInv, TestInv, SavedInv
<1>6. ASSUME NEW i \in Servers, NEW g \in Gens, checkLogs(i, g) PROVE Basic'
  <2>1. AppOK(i, g)'
    <3>1. AppOK(i, g) /\ app[i][g].pc = "check" /\ UNCHANGED <<gen, setup>>
      BY ZenonT(60), <1>6 DEF AppInv, checkLogs
    <3>2. app'[i][g].pc = "mark" /\ app'[i][g].m = app[i][g].m
      BY <1>6, CheckStep
    <3> QED BY ZenonT(60), <3>1, <3>2 DEF AppOK, Holds, HoldsSnap
  <2>2. AppInv'
    BY ZenonT(60), <1>6, <2>1, CheckStep, AppsOK DEF checkLogs
  <2> QED BY ZenonT(60), <1>6, <2>2, CheckStep DEF checkLogs, RaftTypeOK, GenInv, TestInv, SavedInv
<1>7. ASSUME NEW i \in Servers, NEW g \in Gens, Mark(i, g) PROVE Basic'
  <2>a. AppOK(i, g) /\ app[i][g].pc = "mark" /\ ~(g > gen[i]) /\ UNCHANGED <<gen, setup>>
    BY <1>7 DEF Mark, AppInv, AppOK
  <2>b. app[i][g].m.index + 1 \in 1 .. MaxIndex + 1
    BY ZenonT(60), <1>7, MarkStep, NextIndex
  <2>1. AppOK(i, g)'
    <3>1. CASE app[i][g].err
      BY ZenonT(60), <1>7, <2>a, <3>1, MarkStep DEF AppOK, Holds, HoldsSnap
    <3>2. CASE ~app[i][g].err
      <4>1. app'[i][g] = Running(app[i][g].m.index + 1)
        BY ZenonT(60), <1>7, <3>2, MarkStep
      <4>2. app'[i][g].pc = "idle" /\ ~app'[i][g].err
        BY ZenonT(60), <2>b, <4>1, Constructed
      <4> QED BY ZenonT(60), <2>a, <4>2 DEF AppOK, Holds, HoldsSnap
    <3> QED BY ZenonT(60), <3>1, <3>2
  <2>2. AppInv'
    BY ZenonT(60), <1>7, <2>1, MarkStep, AppsOK DEF Mark
  <2>3. SavedInv'
    <3>1. CASE saved' = saved
      BY <2>a, <3>1 DEF SavedInv
    <3>2. CASE saved' # saved
      <4> DEFINE k == app[i][g].m.index
                 s == [kind |-> "good", index |-> k, xlog |-> Xlog(i, k)]
      <4>1. setup.snapshot /\ saved' = [saved EXCEPT ![i] = s] /\ k \in Index
        BY ZenonT(60), <1>7, <3>2, MarkStep
      <4>2. Genuine(s)
        BY ZenonT(60), <4>1, XlogType
      <4> HIDE DEF s
      <4> QED BY ZenonT(60), <2>a, <4>1, <4>2 DEF SavedInv, RaftTypeOK
    <3> QED BY <3>1, <3>2
  <2> QED BY ZenonT(60), <1>7, <2>2, <2>3, MarkStep DEF Mark, RaftTypeOK, GenInv, TestInv
<1>8. ASSUME NEW i \in Servers, NEW g \in Gens, Fatal(i, g) PROVE Basic'
  BY ZenonT(60), <1>8 DEF Fatal, RaftTypeOK, GenInv, TestInv, SavedInv, AppInv, AppOK
<1>9. ASSUME NEW i \in Servers, NEW g \in Gens, InstallSnap(i, g) PROVE Basic'
  <2>a. ~(g > gen[i]) /\ UNCHANGED <<gen, setup>>
    BY ZenonT(60), <1>9 DEF InstallSnap, AppInv, AppOK
  <2>1. AppOK(i, g)'
    <3>1. PICK n \in 1 .. MaxIndex + 1 : app'[i][g] = Running(n)
      BY ZenonT(60), <1>9, InstallStep
    <3> QED BY ZenonT(60), <2>a, <3>1, Constructed DEF AppOK, Holds, HoldsSnap
  <2>2. AppInv'
    BY ZenonT(60), <1>9, <2>1, <2>a, InstallStep, AppsOK
  <2>3. RaftTypeOK'
    <3>1. logs' \in [Servers -> [Index -> Values]] /\ lastApplied' \in [Servers -> Nat]
      BY ZenonT(60), <1>9, InstallStep, Replaced DEF RaftTypeOK
    <3> QED BY ZenonT(60), <1>9, <3>1, InstallStep DEF InstallSnap, RaftTypeOK
  <2> QED BY ZenonT(60), <1>9, <2>2, <2>3 DEF InstallSnap, GenInv, TestInv, SavedInv
<1>10. CASE UNCHANGED vars
  BY ZenonT(60), <1>10 DEF vars, RaftTypeOK, GenInv, TestInv, SavedInv, AppInv, AppOK
<1>11. ASSUME NEW i \in Servers, NEW g \in Gens, SkipSnap(i, g) PROVE Basic'
  <2>a. ~(g > gen[i]) /\ UNCHANGED <<gen, setup>>
    BY ZenonT(60), <1>11 DEF SkipSnap, AppInv, AppOK
  <2>1. AppOK(i, g)'
    <3>1. PICK n \in 1 .. MaxIndex + 1 : app'[i][g] = Running(n)
      BY ZenonT(60), <1>11, SkipStep
    <3> QED BY ZenonT(60), <2>a, <3>1, Constructed DEF AppOK, Holds, HoldsSnap
  <2>2. AppInv'
    BY ZenonT(60), <1>11, <2>1, SkipStep, AppsOK DEF SkipSnap
  <2> QED BY ZenonT(60), <1>11, <2>2, SkipStep DEF SkipSnap, RaftTypeOK, GenInv, TestInv, SavedInv
<1>12. ASSUME NEW i \in Servers, NEW g \in Gens, MismatchedSnap(i, g) PROVE Basic'
  <2>a. ~(g > gen[i]) /\ UNCHANGED <<gen, setup>>
    BY ZenonT(60), <1>12 DEF MismatchedSnap, AppInv, AppOK
  <2>1. AppOK(i, g)'
    BY ZenonT(60), <1>12, <2>a, MismatchedStep DEF AppOK, Holds, HoldsSnap
  <2>2. AppInv'
    BY ZenonT(60), <1>12, <2>1, MismatchedStep, AppsOK DEF MismatchedSnap
  <2> QED BY ZenonT(60), <1>12, <2>2, MismatchedStep DEF MismatchedSnap, RaftTypeOK, GenInv, TestInv, SavedInv
<1>13. ASSUME NEW i \in Servers, NEW g \in Gens, BadSnap(i, g) PROVE Basic'
  BY ZenonT(60), <1>13 DEF BadSnap, RaftTypeOK, GenInv, TestInv, SavedInv, AppInv, AppOK
<1>14. ASSUME NEW i \in Servers, StartFails(i) PROVE Basic'
  BY ZenonT(60), <1>14 DEF StartFails, RaftTypeOK, GenInv, TestInv, SavedInv, AppInv, AppOK
<1>15. ASSUME NEW i \in Servers, Persist(i) PROVE Basic'
  <2>1. /\ UNCHANGED <<raftlog, submitted, logs, lastApplied, gen, alive, app, test, failed, setup>> /\ setup.forges
        /\ \E s \in Forged : saved' = [saved EXCEPT ![i] = s]
    BY ZenonT(60), <1>15 DEF Persist, Forgeries
  <2>2. saved' \in [Servers -> Snaps]
    BY ZenonT(60), <2>1, ForgedParts DEF RaftTypeOK
  <2> QED BY ZenonT(60), <2>1, <2>2 DEF RaftTypeOK, GenInv, TestInv, SavedInv, AppInv, AppOK
<1> QED
  BY ZenonT(60), <1>1, <1>2, <1>3, <1>4, <1>5, <1>6, <1>7, <1>8, <1>9, <1>10, <1>11, <1>12, <1>13, <1>14, <1>15
     DEF Next, TestStep

----------------------------------------------------------------------------
(* An alarm stays, and so does the setup. *)

LEMMA ServerStep ==
  ASSUME [Next]_vars, ~TestStep
  PROVE  UNCHANGED <<raftlog, test, setup>>
<1>1. ASSUME NEW i \in Servers, Offer(i) \/ Persist(i) \/ crash1(i) \/ start1(i) \/ StartFails(i)
      PROVE  UNCHANGED <<raftlog, test, setup>>
  BY ZenonT(60), <1>1 DEF Offer, Persist, crash1, start1, StartFails
<1>2. ASSUME NEW i \in Servers, NEW g \in Gens, Receive(i, g) \/ checkLogs(i, g)
      PROVE  UNCHANGED <<raftlog, test, setup>>
  BY ZenonT(60), <1>2 DEF Receive, checkLogs
<1>3. ASSUME NEW i \in Servers, NEW g \in Gens, Mark(i, g) \/ Fatal(i, g) \/ InstallSnap(i, g)
      PROVE  UNCHANGED <<raftlog, test, setup>>
  BY ZenonT(60), <1>3 DEF Mark, Fatal, InstallSnap
<1>4. ASSUME NEW i \in Servers, NEW g \in Gens, SkipSnap(i, g) \/ MismatchedSnap(i, g) \/ BadSnap(i, g)
      PROVE  UNCHANGED <<raftlog, test, setup>>
  BY ZenonT(60), <1>4 DEF SkipSnap, MismatchedSnap, BadSnap
<1> QED BY ZenonT(60), <1>1, <1>2, <1>3, <1>4 DEF Next, TestStep, vars

LEMMA SetupKept ==
  ASSUME Basic, [Next]_vars
  PROVE  setup' = setup /\ (RestartsFromSnapshot' <=> RestartsFromSnapshot)
<1>1. setup' = setup
  BY TestParts, ServerStep
<1> QED BY <1>1 DEF RestartsFromSnapshot

LEMMA ErrKept ==
  ASSUME NEW i \in Servers, NEW g \in Gens, app[i][g].err,
         NEW j \in Servers, NEW h \in Gens, Others(j, h), j = i /\ h = g => app'[j][h].err
  PROVE  Alarm'
<1>1. app'[i][g].err
  BY DEF Others
<1> QED BY <1>1 DEF Alarm

(* Nothing happens once the test has failed. *)
LEMMA OverWhenFailed ==
  ASSUME [Next]_vars, failed
  PROVE  UNCHANGED vars
<1>1. ~Commit /\ ~nCommitted /\ ~Decide /\ ~GiveUp /\ \A c \in Cmds : ~one(c)
  BY ZenonT(60) DEF Commit, nCommitted, Decide, GiveUp, one
<1>2. \A i \in Servers : ~Offer(i) /\ ~Persist(i) /\ ~crash1(i) /\ ~start1(i) /\ ~StartFails(i)
  BY ZenonT(60) DEF Offer, Persist, crash1, start1, StartFails
<1>3. \A i \in Servers, g \in Gens : ~Receive(i, g) /\ ~checkLogs(i, g) /\ ~Mark(i, g) /\ ~Fatal(i, g)
  BY ZenonT(60) DEF Receive, checkLogs, Mark, Fatal
<1>4. \A i \in Servers, g \in Gens : ~SkipSnap(i, g) /\ ~InstallSnap(i, g) /\ ~MismatchedSnap(i, g) /\ ~BadSnap(i, g)
  BY ZenonT(60) DEF SkipSnap, InstallSnap, MismatchedSnap, BadSnap
<1> QED BY ZenonT(60), <1>1, <1>2, <1>3, <1>4 DEF Next

(* A failed test stays failed, and so does an applier with an error. *)
LEMMA AlarmKept ==
  ASSUME Basic, [Next]_vars, Alarm
  PROVE  Alarm'
<1>1. CASE failed
  BY ZenonT(60), <1>1, OverWhenFailed DEF Alarm, vars
<1>2. ASSUME NEW i \in Servers, NEW g \in Gens, app[i][g].err PROVE Alarm'
  <2>0. app[i][g].pc \in {"mark", "fail"}
    BY <1>2 DEF Basic, AppInv, AppOK
  <2>1. CASE TestStep \/ UNCHANGED vars \/ \E j \in Servers : crash1(j) \/ Persist(j)
    <3>1. app' = app
      BY ZenonT(60), <2>1, TestParts DEF vars, crash1, Persist
    <3> QED BY <1>2, <3>1 DEF Alarm
  <2>2. ASSUME NEW j \in Servers, Offer(j) PROVE Alarm'
    <3>1. PICK h \in Gens : h = gen[j]
      BY DEF Basic, RaftTypeOK
    <3> QED BY <1>2, <2>0, <2>2, <3>1, OfferStep, ErrKept
  <2>3. ASSUME NEW j \in Servers, start1(j) PROVE Alarm'
    <3>1. PICK h \in Gens : h = gen[j] + 1
      BY ZenonT(60), <2>3, StartStep
    <3>2. Others(j, h) /\ app[j][h].pc = "none"
      BY ZenonT(60), <2>3, <3>1, StartStep
    <3> QED BY ZenonT(60), <1>2, <2>0, <3>2, ErrKept
  <2>4. ASSUME NEW j \in Servers, NEW h \in Gens, Receive(j, h) PROVE Alarm'
    <3>1. Others(j, h) /\ Holds(app[j][h], {"offer"})
      BY ZenonT(60), <2>4, ReceiveStep
    <3>2. ~(j = i /\ h = g)
      BY ZenonT(60), <2>0, <3>1 DEF Holds
    <3> QED BY ZenonT(60), <1>2, <3>1, <3>2, ErrKept
  <2>5. ASSUME NEW j \in Servers, NEW h \in Gens, checkLogs(j, h) PROVE Alarm'
    <3>1. Others(j, h) /\ Holds(app[j][h], {"check"})
      BY ZenonT(60), <2>5, CheckStep
    <3>2. ~(j = i /\ h = g)
      BY ZenonT(60), <2>0, <3>1 DEF Holds
    <3> QED BY ZenonT(60), <1>2, <3>1, <3>2, ErrKept
  <2>6. ASSUME NEW j \in Servers, NEW h \in Gens, Mark(j, h) PROVE Alarm'
    <3>1. Others(j, h) /\ (app[j][h].err => app'[j][h].err)
      BY ZenonT(60), <2>6, MarkStep
    <3> QED BY ZenonT(60), <1>2, <3>1, ErrKept
  <2>7. ASSUME NEW j \in Servers, NEW h \in Gens, Fatal(j, h) PROVE Alarm'
    BY ZenonT(60), <2>7 DEF Fatal, Alarm
  <2>8. ASSUME NEW j \in Servers, NEW h \in Gens, InstallSnap(j, h) \/ SkipSnap(j, h) PROVE Alarm'
    <3>1. Others(j, h) /\ HoldsSnap(app[j][h])
      BY ZenonT(60), <2>8, InstallStep, SkipStep
    <3>2. ~(j = i /\ h = g)
      BY ZenonT(60), <2>0, <3>1 DEF HoldsSnap
    <3> QED BY ZenonT(60), <1>2, <3>1, <3>2, ErrKept
  <2>9. ASSUME NEW j \in Servers, NEW h \in Gens, MismatchedSnap(j, h) PROVE Alarm'
    BY ZenonT(60), <2>9, MismatchedStep DEF Alarm
  <2>10. ASSUME NEW j \in Servers, NEW h \in Gens, BadSnap(j, h) PROVE Alarm'
    BY ZenonT(60), <2>10 DEF BadSnap, Alarm
  <2>11. ASSUME NEW j \in Servers, StartFails(j) PROVE Alarm'
    BY ZenonT(60), <2>11 DEF StartFails, Alarm
  <2> QED
    BY ZenonT(60), <2>1, <2>2, <2>3, <2>4, <2>5, <2>6, <2>7, <2>8, <2>9, <2>10, <2>11 DEF Next, TestStep
<1> QED BY ZenonT(60), <1>1, <1>2 DEF Alarm

----------------------------------------------------------------------------
(* A correct Raft. *)

(* The agreed log only grows. *)
LEMMA AgreedGrows ==
  ASSUME Basic, [Next]_vars, NEW k, NEW c, Agreed(k, c)
  PROVE  Agreed(k, c)'
<1>1. CASE TestStep
  <2>1. raftlog \in Seq(Cmds) /\ raftlog' \in Seq(Cmds) /\ Len(raftlog) <= Len(raftlog')
        /\ raftlog'[k] = raftlog[k]
    BY <1>1, TestParts DEF Agreed, Basic, RaftTypeOK
  <2> QED BY <2>1 DEF Agreed
<1>2. CASE ~TestStep
  <2>1. raftlog' = raftlog
    BY <1>2, ServerStep
  <2> QED BY <2>1 DEF Agreed
<1> QED BY <1>1, <1>2

LEMMA SnapAgreedGrows ==
  ASSUME Basic, [Next]_vars, NEW s, SnapAgreed(s)
  PROVE  SnapAgreed(s)'
BY AgreedGrows DEF SnapAgreed

LEMMA AppAgreedGrows ==
  ASSUME Basic, [Next]_vars, NEW a, AppAgreed(a)
  PROVE  AppAgreed(a)'
BY AgreedGrows, SnapAgreedGrows DEF AppAgreed

(* What a correct Raft hands out is the agreed log's. *)
LEMMA AgreedKept ==
  ASSUME Basic, AgreedInv, [Next]_vars
  PROVE  AgreedInv'
<1> DEFINE LogsAgreed == \A i \in Servers, k \in Index : logs[i][k] \in {None, Null} \/ Agreed(k, logs[i][k])
           SavedAgreed == \A i \in Servers : SnapAgreed(saved[i])
           AppsAgreed == \A i \in Servers, g \in Gens : AppAgreed(app[i][g])
<1>0. SUFFICES ASSUME setup.correct PROVE (LogsAgreed /\ SavedAgreed /\ AppsAgreed)'
  BY SetupKept DEF AgreedInv
<1>a. ~setup.forges
  BY ZenonT(60), <1>0, SetupParts DEF Basic, RaftTypeOK
<1>1. LogsAgreed /\ SavedAgreed /\ AppsAgreed
  BY <1>0 DEF AgreedInv
<1>2. UNCHANGED logs => LogsAgreed'
  BY <1>1, AgreedGrows
<1>3. UNCHANGED saved => SavedAgreed'
  BY <1>1, SnapAgreedGrows
<1>4. UNCHANGED app => AppsAgreed'
  BY <1>1, AppAgreedGrows
<1>5. ASSUME NEW i \in Servers, NEW g \in Gens, Others(i, g), AppAgreed(app[i][g])' PROVE AppsAgreed'
  <2> SUFFICES ASSUME NEW j \in Servers, NEW h \in Gens PROVE AppAgreed(app[j][h])'
    OBVIOUS
  <2>1. CASE j = i /\ h = g
    BY <1>5, <2>1
  <2>2. CASE j # i \/ h # g
    <3>1. app'[j][h] = app[j][h] /\ AppAgreed(app[j][h])
      BY <1>1, <1>5, <2>2 DEF Others
    <3> QED BY <3>1, AppAgreedGrows
  <2> QED BY <2>1, <2>2
<1>6. ASSUME NEW i \in Servers, NEW s \in Snaps, s.index = Len(s.xlog), ingestSnap(i, s), SnapAgreed(s)
      PROVE  LogsAgreed'
  <2> SUFFICES ASSUME NEW j \in Servers, NEW k \in Index
               PROVE  (logs[j][k] \in {None, Null} \/ Agreed(k, logs[j][k]))'
    OBVIOUS
  <2>1. CASE j = i
    <3>1. logs'[i][k] = IF k <= s.index THEN s.xlog[k] ELSE None
      BY <1>6, Ingested
    <3>2. k <= s.index => k \in 1 .. s.index
      BY BoundAssumption DEF Index, Snaps
    <3>3. logs'[i][k] \in {None, Null} \/ Agreed(k, logs'[i][k])
      BY <1>6, <3>1, <3>2 DEF SnapAgreed
    <3> QED BY <2>1, <3>3, AgreedGrows
  <2>2. CASE j # i
    <3>1. logs'[j] = logs[j]
      BY ZenonT(60), <1>6, <2>2, Ingested
    <3> QED BY ZenonT(60), <1>1, <3>1, AgreedGrows
  <2> QED BY <2>1, <2>2
<1>7. ASSUME NEW i \in Servers, NEW g \in Gens, NEW n \in 1 .. MaxIndex + 1, app'[i][g] = Running(n)
      PROVE  AppAgreed(app[i][g])'
  BY <1>7, Constructed DEF AppAgreed, Holds, HoldsSnap
<1> HIDE DEF LogsAgreed, SavedAgreed, AppsAgreed
<1>8. CASE TestStep \/ UNCHANGED vars \/ (\E i \in Servers : crash1(i) \/ StartFails(i))
           \/ \E i \in Servers, g \in Gens : Fatal(i, g) \/ BadSnap(i, g)
  <2>1. UNCHANGED <<logs, saved, app>>
    BY ZenonT(60), <1>8, TestParts DEF vars, crash1, StartFails, Fatal, BadSnap
  <2> QED BY ZenonT(60), <1>2, <1>3, <1>4, <2>1
<1>9. ASSUME NEW i \in Servers, Offer(i) PROVE (LogsAgreed /\ SavedAgreed /\ AppsAgreed)'
  <2>0. PICK g \in Gens : g = gen[i]
    BY ZenonT(60) DEF Basic, RaftTypeOK
  <2>1. PICK m : app'[i][g].m = m /\ m \in Offers(app[i][g].next) /\ app'[i][g].pc = "offer"
    BY <1>9, <2>0, OfferStep
  <2>2. app[i][g].next \in 1 .. MaxIndex + 1
    BY ZenonT(60) DEF Basic, RaftTypeOK, Apps
  <2>3. (m.snap = NoSnap => Agreed(m.index, m.cmd)) /\ (m.snap # NoSnap => SnapAgreed(m.snap))
    BY <1>0, <1>1, <2>1, <2>2, OfferMsg DEF SavedAgreed
  <2>4. (m.snap = NoSnap => Agreed(m.index, m.cmd)') /\ (m.snap # NoSnap => SnapAgreed(m.snap)')
    BY ZenonT(60), <2>3, AgreedGrows, SnapAgreedGrows
  <2>5. AppAgreed(app[i][g])'
    BY <2>1, <2>4 DEF AppAgreed, Holds, HoldsSnap
  <2> QED BY ZenonT(60), <1>2, <1>3, <1>5, <1>9, <2>0, <2>5, OfferStep DEF Offer
<1>10. ASSUME NEW i \in Servers, start1(i) PROVE (LogsAgreed /\ SavedAgreed /\ AppsAgreed)'
  <2>0. PICK g \in Gens : g = gen[i] + 1
    BY ZenonT(60), <1>10, StartStep
  <2>1. AppsAgreed'
    BY ZenonT(60), <1>5, <1>7, <1>10, <2>0, StartStep
  <2>2. LogsAgreed'
    BY ZenonT(60), <1>1, <1>2, <1>6, <1>10, <1>a, StartStep DEF SavedAgreed
  <2> QED BY <1>3, <1>10, <2>1, <2>2 DEF start1
<1>11. ASSUME NEW i \in Servers, NEW g \in Gens, Receive(i, g)
       PROVE  (LogsAgreed /\ SavedAgreed /\ AppsAgreed)'
  <2>1. Agreed(app[i][g].m.index, app[i][g].m.cmd) /\ app[i][g].m.snap = NoSnap
    BY <1>1, <1>11, ReceiveStep DEF AppsAgreed, AppAgreed, Holds
  <2>2. AppAgreed(app[i][g])'
    BY ZenonT(60), <1>11, <2>1, ReceiveStep, AgreedGrows DEF AppAgreed, Holds, HoldsSnap
  <2> QED BY ZenonT(60), <1>2, <1>3, <1>5, <1>11, <2>2, ReceiveStep DEF Receive
<1>12. ASSUME NEW i \in Servers, NEW g \in Gens, checkLogs(i, g)
       PROVE  (LogsAgreed /\ SavedAgreed /\ AppsAgreed)'
  <2> DEFINE m == app[i][g].m
  <2>1. Agreed(m.index, m.cmd) /\ m.snap = NoSnap
    BY ZenonT(60), <1>1, <1>12, CheckStep DEF AppsAgreed, AppAgreed, Holds
  <2>2. AppAgreed(app[i][g])'
    BY ZenonT(60), <1>12, <2>1, CheckStep, AgreedGrows DEF AppAgreed, Holds, HoldsSnap
  <2>3. LogsAgreed'
    <3> SUFFICES ASSUME NEW j \in Servers, NEW k \in Index
                 PROVE  (logs[j][k] \in {None, Null} \/ Agreed(k, logs[j][k]))'
      BY ZenonT(60) DEF LogsAgreed
    <3>0. logs \in [Servers -> [Index -> Values]] /\ logs' = [logs EXCEPT ![i][m.index] = m.cmd]
      BY ZenonT(60), <1>12, CheckStep DEF Basic, RaftTypeOK
    <3>1. logs'[j][k] = logs[j][k] \/ (k = m.index /\ logs'[j][k] = m.cmd)
      BY <3>0
    <3> QED BY <1>1, <2>1, <3>1, AgreedGrows DEF LogsAgreed
  <2> QED BY ZenonT(60), <1>3, <1>5, <1>12, <2>2, <2>3, CheckStep DEF checkLogs
<1>13. ASSUME NEW i \in Servers, NEW g \in Gens, Mark(i, g)
       PROVE  (LogsAgreed /\ SavedAgreed /\ AppsAgreed)'
  <2> DEFINE k == app[i][g].m.index
  <2>1. k + 1 \in 1 .. MaxIndex + 1 /\ k \in Index
    BY ZenonT(60), <1>13, MarkStep, NextIndex
  <2>2. AppAgreed(app[i][g])'
    <3>1. CASE app[i][g].err
      BY ZenonT(60), <1>13, <3>1, MarkStep DEF AppAgreed, Holds, HoldsSnap
    <3>2. CASE ~app[i][g].err
      BY ZenonT(60), <1>7, <1>13, <2>1, <3>2, MarkStep
    <3> QED BY ZenonT(60), <3>1, <3>2
  <2>3. SavedAgreed'
    <3>1. CASE saved' = saved
      BY <1>3, <3>1
    <3>2. CASE saved' # saved
      <4> DEFINE s == [kind |-> "good", index |-> k, xlog |-> Xlog(i, k)]
      <4>1. saved' = [saved EXCEPT ![i] = s]
        BY <1>13, <3>2, MarkStep
      <4>2. \A j \in 1 .. k : j \in Index
        BY <2>1, BoundAssumption DEF Index
      <4>3. SnapAgreed(s)
        BY ZenonT(60), <1>1, <4>2 DEF SnapAgreed, Xlog, LogsAgreed
      <4> HIDE DEF s
      <4>4. \A j \in Servers : \E t : saved'[j] = t /\ SnapAgreed(t)
        BY <1>1, <4>1, <4>3 DEF SavedAgreed, Basic, RaftTypeOK
      <4> QED BY ZenonT(60), <4>4, SnapAgreedGrows DEF SavedAgreed
    <3> QED BY <3>1, <3>2
  <2> QED BY ZenonT(60), <1>2, <1>5, <1>13, <2>2, <2>3, MarkStep DEF Mark
<1>14. ASSUME NEW i \in Servers, NEW g \in Gens, InstallSnap(i, g)
       PROVE  (LogsAgreed /\ SavedAgreed /\ AppsAgreed)'
  <2>1. AppsAgreed'
    <3>1. PICK n \in 1 .. MaxIndex + 1 : app'[i][g] = Running(n)
      BY ZenonT(60), <1>14, InstallStep
    <3>2. AppAgreed(app[i][g])'
      BY ZenonT(60), <1>7, <3>1
    <3> QED BY ZenonT(60), <1>5, <1>14, <3>2, InstallStep
  <2>2. SnapAgreed(app[i][g].m.snap)
    BY ZenonT(60), <1>1, <1>14, InstallStep DEF AppsAgreed, AppAgreed
  <2>3. LogsAgreed'
    BY ZenonT(60), <1>0, <1>6, <1>14, <2>2, InstallStep
  <2> QED BY ZenonT(60), <1>3, <1>14, <2>1, <2>3 DEF InstallSnap
<1>15. ASSUME NEW i \in Servers, NEW g \in Gens, SkipSnap(i, g)
       PROVE  (LogsAgreed /\ SavedAgreed /\ AppsAgreed)'
  <2>1. PICK n \in 1 .. MaxIndex + 1 : app'[i][g] = Running(n)
    BY ZenonT(60), <1>15, SkipStep
  <2>2. AppAgreed(app[i][g])'
    BY ZenonT(60), <1>7, <2>1
  <2>3. AppsAgreed'
    BY ZenonT(60), <1>5, <1>15, <2>2, SkipStep
  <2> QED BY ZenonT(60), <1>2, <1>3, <1>15, <2>3 DEF SkipSnap
<1>16. ASSUME NEW i \in Servers, NEW g \in Gens, MismatchedSnap(i, g) PROVE FALSE
  BY ZenonT(60), <1>a, <1>16, ForgedStep
<1>17. ASSUME NEW i \in Servers, Persist(i) PROVE FALSE
  BY ZenonT(60), <1>a, <1>17 DEF Persist, Forgeries
<1> QED
  BY ZenonT(60), <1>8, <1>9, <1>10, <1>11, <1>12, <1>13, <1>14, <1>15, <1>16, <1>17 DEF Next, TestStep

----------------------------------------------------------------------------
(* What checkLogs lets pass. *)

(* A command that passes checkLogs agrees with every log and leaves no gap. *)
LEMMA CheckPasses ==
  ASSUME Basic, NEW i \in Servers, NEW g \in Gens, checkLogs(i, g), Silence'
  PROVE  LET m == app[i][g].m IN
         /\ m.index \in Index /\ m.cmd \in Cmds
         /\ \A j \in Servers : logs[j][m.index] \in {None, m.cmd}
         /\ m.index = 1 \/ logs[i][m.index - 1] # None
         /\ \A j \in Servers, k \in Index :
              logs'[j][k] = IF j = i /\ k = m.index THEN m.cmd ELSE logs[j][k]
<1> DEFINE m == app[i][g].m
<1>1. ~app'[i][g].err
  BY ZenonT(60) DEF Silence
<1>2. ~Differs(i, m) /\ prevok(i, m)
  BY ZenonT(60), <1>1, CheckStep
<1>3. logs \in [Servers -> [Index -> Values]] /\ logs' = [logs EXCEPT ![i][m.index] = m.cmd] /\ m.index \in Index
      /\ m.cmd \in Cmds
  BY ZenonT(60), CheckStep DEF Basic, RaftTypeOK
<1>4. \A j \in Servers, k \in Index : logs'[j][k] = IF j = i /\ k = m.index THEN m.cmd ELSE logs[j][k]
  BY <1>3
<1> QED BY ZenonT(60), <1>2, <1>3, <1>4 DEF Differs, prevok

LEMMA SavedValues ==
  ASSUME Basic, ~setup.forges, NEW i \in Servers, NEW k \in 1 .. saved[i].index
  PROVE  saved[i].xlog[k] \in Cmds \cup {Null} /\ k \in Index
<1>1. saved[i] \in Snaps /\ saved[i].index = Len(saved[i].xlog)
  BY Constructed DEF Basic, RaftTypeOK, SavedInv, Genuine
<1> QED BY <1>1, BoundAssumption DEF Snaps, Index

(* The steps that touch logs or snapshots. *)
LEMMA QuietStep ==
  ASSUME Basic, [Next]_vars,
         \A i \in Servers : ~start1(i) /\ ~Persist(i),
         \A i \in Servers, g \in Gens : ~checkLogs(i, g) /\ ~Mark(i, g) /\ ~InstallSnap(i, g)
  PROVE  UNCHANGED <<logs, saved, lastApplied, gen>>
<1>1. CASE TestStep
  BY <1>1, TestParts
<1>2. ASSUME NEW i \in Servers, Offer(i) \/ crash1(i) \/ StartFails(i)
      PROVE  UNCHANGED <<logs, saved, lastApplied, gen>>
  BY ZenonT(60), <1>2 DEF Offer, crash1, StartFails
<1>3. ASSUME NEW i \in Servers, NEW g \in Gens, Receive(i, g) \/ Fatal(i, g)
      PROVE  UNCHANGED <<logs, saved, lastApplied, gen>>
  BY ZenonT(60), <1>3 DEF Receive, Fatal
<1>4. ASSUME NEW i \in Servers, NEW g \in Gens, SkipSnap(i, g) \/ MismatchedSnap(i, g) \/ BadSnap(i, g)
      PROVE  UNCHANGED <<logs, saved, lastApplied, gen>>
  BY ZenonT(60), <1>4 DEF SkipSnap, MismatchedSnap, BadSnap
<1> QED BY ZenonT(60), <1>1, <1>2, <1>3, <1>4 DEF Next, TestStep, vars

(* A snapshot is the start of its server's own log. *)
LEMMA OwnKept ==
  ASSUME Basic, OwnInv, [Next]_vars
  PROVE  OwnInv'
<1>0. SUFFICES ASSUME ~setup.correct, ~setup.forges, ~Alarm', NEW i \in Servers, NEW k \in 1 .. saved'[i].index
               PROVE  saved'[i].xlog[k] \in {Null, logs'[i][k]}
  BY SetupKept DEF OwnInv
<1>a. Silence'
  BY ZenonT(60), <1>0 DEF Alarm, Silence
<1>1. \A j \in Servers : \A h \in 1 .. saved[j].index : saved[j].xlog[h] \in {Null, logs[j][h]}
  BY <1>0, AlarmKept DEF OwnInv
<1>2. CASE UNCHANGED <<logs, saved>>
  BY <1>0, <1>1, <1>2
<1>3. ASSUME NEW j \in Servers, NEW g \in Gens, checkLogs(j, g)
      PROVE  saved'[i].xlog[k] \in {Null, logs'[i][k]}
  <2>1. saved' = saved
    BY <1>3 DEF checkLogs
  <2>2. saved[i].xlog[k] \in Cmds \cup {Null} /\ k \in Index
    BY <1>0, <2>1, SavedValues
  <2>3. saved[i].xlog[k] \in {Null, logs[i][k]}
    BY ZenonT(60), <1>0, <1>1, <2>1
  <2>4. logs'[i][k] = logs[i][k] \/ logs[i][k] = None
    BY ZenonT(60), <1>0, <1>a, <1>3, <2>2, CheckPasses
  <2> QED BY ZenonT(60), <2>1, <2>2, <2>3, <2>4, ValueAssumption
<1>4. ASSUME NEW j \in Servers, NEW g \in Gens, Mark(j, g)
      PROVE  saved'[i].xlog[k] \in {Null, logs'[i][k]}
  <2>1. logs' = logs
    BY ZenonT(60), <1>4 DEF Mark
  <2>2. CASE saved' = saved \/ i # j
    <3>1. saved'[i] = saved[i]
      <4>1. CASE saved' = saved
        BY <4>1
      <4>2. CASE saved' # saved /\ i # j
        <5>1. PICK r \in Snaps : saved' = [saved EXCEPT ![j] = r]
          BY ZenonT(60), <1>4, <4>2, MarkStep, XlogType
        <5>2. saved \in [Servers -> Snaps]
          BY ZenonT(60) DEF Basic, RaftTypeOK
        <5> QED BY <4>2, <5>1, <5>2
      <4> QED BY ZenonT(60), <2>2, <4>1, <4>2
    <3> QED BY ZenonT(60), <1>0, <1>1, <2>1, <3>1
  <2>3. CASE saved' # saved /\ i = j
    <3> DEFINE n == app[j][g].m.index
               s == [kind |-> "good", index |-> n, xlog |-> Xlog(j, n)]
    <3>1. saved' = [saved EXCEPT ![j] = s]
      BY ZenonT(60), <1>4, <2>3, MarkStep
    <3>2. saved'[i] = s
      BY ZenonT(60), <2>3, <3>1 DEF Basic, RaftTypeOK
    <3>a. s.index = n /\ s.xlog = Xlog(j, n)
      BY ZenonT(60)
    <3> HIDE DEF s
    <3>3. k \in 1 .. n /\ saved'[i].xlog[k] = Xlog(i, n)[k]
      BY ZenonT(60), <1>0, <2>3, <3>2, <3>a
    <3> QED BY <2>1, <3>3 DEF Xlog
  <2> QED BY <2>2, <2>3
<1>5. ASSUME NEW j \in Servers, start1(j) PROVE saved'[i].xlog[k] \in {Null, logs'[i][k]}
  <2>1. saved' = saved
    BY <1>5 DEF start1
  <2>2. CASE logs'[i] = logs[i]
    BY ZenonT(60), <1>0, <1>1, <2>1, <2>2
  <2>3. CASE i = j /\ ingestSnap(j, saved[j])
    <3>1. saved[j] \in Snaps /\ saved[j].index = Len(saved[j].xlog)
      BY ZenonT(60), <1>0, <1>5, StartStep
    <3>2. k \in Index /\ k <= saved[j].index
      BY <1>0, <2>1, <2>3, SavedValues
    <3> QED BY ZenonT(60), <2>1, <2>3, <3>1, <3>2, Ingested
  <2>4. CASE i # j /\ ingestSnap(j, saved[j])
    <3>1. saved[j] \in Snaps
      BY ZenonT(60), <1>5, StartStep
    <3>2. logs'[i] = logs[i]
      BY ZenonT(60), <2>4, <3>1, Replaced
    <3> QED BY ZenonT(60), <2>2, <3>2
  <2> QED BY ZenonT(60), <1>5, <2>2, <2>3, <2>4, StartStep
<1>6. ASSUME NEW j \in Servers, NEW g \in Gens, InstallSnap(j, g) PROVE FALSE
  BY ZenonT(60), <1>0, <1>6, InstallStep
<1>7. ASSUME NEW j \in Servers, Persist(j) PROVE FALSE
  BY ZenonT(60), <1>0, <1>7 DEF Persist, Forgeries
<1> QED BY ZenonT(60), <1>2, <1>3, <1>4, <1>5, <1>6, <1>7, QuietStep

(* The log that a snapshot replaces has no gap, as a snapshot has none. *)
LEMMA NoGapIngested ==
  ASSUME Basic, NoGap, NEW i \in Servers, NEW s \in Snaps, ingestSnap(i, s)
  PROVE  NoGap'
<1> SUFFICES ASSUME NEW j \in Servers, NEW k \in Index, k > 1, logs'[j][k] # None
             PROVE  logs'[j][k - 1] # None
  BY ZenonT(60) DEF NoGap
<1>1. CASE j # i
  BY <1>1, Replaced DEF NoGap
<1>2. CASE j = i
  <2>1. k <= Len(s.xlog)
    BY <1>2, Replaced
  <2>a. Len(s.xlog) \in Nat
    <3>1. s.xlog \in Seq(Cmds \cup {Null})
      BY DEF Snaps
    <3> QED BY <3>1
  <2>2. k - 1 \in 1 .. Len(s.xlog) /\ k - 1 <= Len(s.xlog) /\ k - 1 \in Index
    BY <2>1, <2>a, BoundAssumption DEF Index
  <2>3. s.xlog[k - 1] # None
    BY <2>2, Replaced, ValueAssumption
  <2> QED BY ZenonT(60), <1>2, <2>2, <2>3, Replaced
<1> QED BY <1>1, <1>2

(* No step hides a disagreement or a gap: it is reported in the same step. *)
LEMMA ReportKept ==
  ASSUME Basic, AgreedInv, OwnInv, DisagreementReported, [Next]_vars
  PROVE  DisagreementReported'
<1> DEFINE Fine == NoGap /\ (~setup.forges => Agree)
<1>0. SUFFICES ASSUME ~Alarm' PROVE Fine'
  BY DEF DisagreementReported
<1>1. ~Alarm /\ NoGap /\ (~setup.forges => Agree) /\ setup' = setup
  BY ZenonT(60), <1>0, AlarmKept, SetupKept DEF DisagreementReported
<1>a. Silence'
  BY ZenonT(60), <1>0 DEF Alarm, Silence
<1>2. setup.correct => Agree'
  <2>1. AgreedInv' /\ setup' = setup
    BY AgreedKept, SetupKept
  <2> QED BY <2>1, ValueAssumption DEF AgreedInv, Agree, Agreed
<1>3. UNCHANGED logs => Fine'
  BY <1>1 DEF Agree, NoGap
<1>4. ASSUME NEW i \in Servers, NEW g \in Gens, checkLogs(i, g) PROVE Fine'
  <2> DEFINE m == app[i][g].m
  <2>1. /\ m.index \in Index /\ m.cmd \in Cmds
        /\ \A j \in Servers : logs[j][m.index] \in {None, m.cmd}
        /\ m.index = 1 \/ logs[i][m.index - 1] # None
        /\ \A j \in Servers, k \in Index : logs'[j][k] = IF j = i /\ k = m.index THEN m.cmd ELSE logs[j][k]
    BY ZenonT(60), <1>a, <1>4, CheckPasses
  <2> HIDE DEF m
  <2>2. Agree => Agree'
    BY <2>1, ValueAssumption DEF Agree
  <2>3. NoGap'
    <3> SUFFICES ASSUME NEW j \in Servers, NEW k \in Index, k > 1, logs'[j][k] # None
                 PROVE  logs'[j][k - 1] # None
      BY DEF NoGap
    <3>1. k - 1 \in Index /\ k - 1 # k
      BY BoundAssumption DEF Index
    <3>2. logs[j][k - 1] # None
      BY <1>1, <2>1 DEF NoGap
    <3> QED BY <2>1, <3>1, <3>2, ValueAssumption
  <2> QED BY ZenonT(60), <1>1, <2>2, <2>3
<1>5. ASSUME NEW i \in Servers, NEW g \in Gens, InstallSnap(i, g) PROVE Fine'
  <2>1. NoGap'
    BY ZenonT(60), <1>1, <1>5, InstallStep, NoGapIngested
  <2> QED BY ZenonT(60), <1>1, <1>2, <1>5, <2>1, InstallStep
<1>6. ASSUME NEW i \in Servers, start1(i) PROVE Fine'
  <2>2. CASE ingestSnap(i, saved[i])
    <3>1. saved[i] \in Snaps /\ (~setup.forges => saved[i].index = Len(saved[i].xlog))
      BY ZenonT(60), <1>6, StartStep
    <3>2. NoGap'
      BY ZenonT(60), <1>1, <2>2, <3>1, NoGapIngested
    <3>3. ASSUME ~setup.correct, ~setup.forges, NEW j \in Servers, NEW k \in Index, logs'[j][k] \in Cmds
          PROVE  logs'[j][k] = logs[j][k]
      <4>1. CASE j # i
        BY ZenonT(60), <2>2, <3>1, <4>1, Replaced
      <4>2. CASE j = i
        <5>1. k <= saved[i].index /\ logs'[i][k] = saved[i].xlog[k]
          BY <2>2, <3>1, <3>3, <4>2, Ingested, ValueAssumption
        <5>2. k \in 1 .. saved[i].index
          BY <3>1, <5>1, BoundAssumption DEF Index, Snaps
        <5>3. saved[i].xlog[k] \in {Null, logs[i][k]}
          BY ZenonT(60), <1>1, <3>3, <5>2 DEF OwnInv
        <5> QED BY ZenonT(60), <3>3, <4>2, <5>1, <5>3, ValueAssumption
      <4> QED BY <4>1, <4>2
    <3>4. ~setup.correct /\ ~setup.forges => Agree'
      BY <1>1, <3>3 DEF Agree
    <3> QED BY ZenonT(60), <1>1, <1>2, <3>2, <3>4
  <2> QED BY ZenonT(60), <1>3, <1>6, <2>2, StartStep
<1>7. ASSUME NEW i \in Servers, NEW g \in Gens, Mark(i, g) PROVE Fine'
  BY ZenonT(60), <1>3, <1>7 DEF Mark
<1>8. ASSUME NEW i \in Servers, Persist(i) PROVE Fine'
  BY ZenonT(60), <1>3, <1>8 DEF Persist
<1> HIDE DEF Fine
<1> QED BY ZenonT(60), <1>3, <1>4, <1>5, <1>6, <1>7, <1>8, QuietStep

----------------------------------------------------------------------------
(* Logs keep what they have, unless a server restarts from a snapshot. *)

(* With snapshots and no restarts a server has one applier. *)
LEMMA OneApplier ==
  ASSUME Basic, CleanInv, setup.correct, setup.snapshot, ~RestartsFromSnapshot,
         NEW i \in Servers, NEW g \in Gens, app[i][g].pc # "none"
  PROVE  g = 0
<1>1. gen[i] = 0
  BY ZenonT(60) DEF CleanInv, Exact
<1>2. ~(g > gen[i])
  BY ZenonT(60) DEF Basic, AppInv, AppOK
<1> QED BY <1>1, <1>2, BoundAssumption DEF Gens

LEMMA NoRestart ==
  ASSUME Basic, ~RestartsFromSnapshot, ~setup.forges, NEW i \in Servers, start1(i)
  PROVE  ~setup.snapshot /\ saved[i] = NoSnap /\ UNCHANGED logs
<1>1. setup.starts[i] > 0
  <2>1. gen[i] \in Nat /\ gen[i] + 1 <= setup.starts[i] /\ setup.starts[i] \in Nat
    BY StartStep, SetupParts, BoundAssumption DEF Basic, RaftTypeOK, Gens
  <2> QED BY <2>1
<1>2. ~setup.snapshot
  BY ZenonT(60), <1>1 DEF RestartsFromSnapshot
<1> QED BY ZenonT(60), <1>2, StartStep

LEMMA InstallKeeps ==
  ASSUME Basic, AgreedInv, CleanInv, ~RestartsFromSnapshot, setup.correct, NEW i \in Servers, NEW g \in Gens,
         InstallSnap(i, g), NEW k \in Index
  PROVE  /\ logs[i][k] # None => logs'[i][k] = logs[i][k]
         /\ logs'[i][k] # Null
         /\ logs'[i][k] # None <=> k <= app[i][g].m.snap.index
<1> DEFINE a == app[i][g]
           s == a.m.snap
<1>1. HoldsSnap(a) /\ s \in Snaps /\ s.index = Len(s.xlog) /\ setup.snapshot /\ a \in Apps /\ ingestSnap(i, s)
  BY ZenonT(60), InstallStep DEF Basic, RaftTypeOK
<1>2. g = 0
  BY ZenonT(60), <1>1, OneApplier DEF HoldsSnap
<1>3. Exact(i, a) /\ logs[i][k] # Null
  BY <1>1, <1>2 DEF CleanInv
<1>4. s.index >= a.next /\ (\A n \in 1 .. s.index : s.xlog[n] # Null) /\ (logs[i][k] # None <=> k < a.next)
  BY ZenonT(60), <1>1, <1>3 DEF Exact, HoldsSnap
<1>5. SnapAgreed(s) /\ (logs[i][k] \in {None, Null} \/ Agreed(k, logs[i][k]))
  BY ZenonT(60), <1>1 DEF AgreedInv, AppAgreed
<1>6. logs'[i][k] = IF k <= s.index THEN s.xlog[k] ELSE None
  BY ZenonT(60), <1>1, Ingested
<1>7. s.index \in Nat /\ a.next \in Nat /\ k \in Nat /\ k >= 1
  <2>1. s.index \in 0 .. MaxIndex
    BY <1>1 DEF Snaps
  <2>2. a.next \in 1 .. MaxIndex + 1
    BY ZenonT(60), <1>1 DEF Apps
  <2> HIDE DEF a, s
  <2> QED BY <2>1, <2>2, BoundAssumption DEF Index
<1>8. k <= s.index => s.xlog[k] \in Cmds \cup {Null} /\ s.xlog[k] # Null /\ Agreed(k, s.xlog[k])
  <2> HAVE k <= s.index
  <2>1. k \in 1 .. s.index
    BY <1>7
  <2>2. s.xlog[k] \in Cmds \cup {Null}
    <3>1. PICK q \in Seq(Cmds \cup {Null}) : q = s.xlog
      BY ZenonT(60), <1>1 DEF Snaps
    <3>2. k \in 1 .. Len(q)
      BY ZenonT(60), <1>1, <2>1, <3>1
    <3>3. q[k] \in Cmds \cup {Null}
      BY <3>2
    <3> QED BY ZenonT(60), <3>1, <3>3
  <2> QED BY ZenonT(60), <1>4, <1>5, <2>1, <2>2 DEF SnapAgreed
<1> HIDE DEF a, s
<1>9. logs[i][k] # None => k <= s.index
  BY <1>4, <1>7
<1> QED BY ZenonT(60), <1>3, <1>5, <1>6, <1>8, <1>9, ValueAssumption DEF Agreed, a, s

(* Without restarts from a snapshot nothing leaves a log, unless an *)
(* error is reported.                                               *)
LEMMA LogsKept ==
  ASSUME Basic, AgreedInv, CleanInv, [Next]_vars, ~RestartsFromSnapshot, ~setup.forges, Silence',
         NEW i \in Servers, NEW k \in Index, logs[i][k] # None
  PROVE  logs'[i][k] = logs[i][k]
<1>1. CASE UNCHANGED logs
  BY ZenonT(60), <1>1
<1>2. ASSUME NEW j \in Servers, NEW g \in Gens, checkLogs(j, g) PROVE logs'[i][k] = logs[i][k]
  <2>1. logs[i][app[j][g].m.index] \in {None, app[j][g].m.cmd}
    BY ZenonT(60), <1>2, CheckPasses
  <2>2. logs'[i][k] = IF i = j /\ k = app[j][g].m.index THEN app[j][g].m.cmd ELSE logs[i][k]
    <3> HIDE DEF Basic
    <3>1. \A h \in Servers, n \in Index :
            logs'[h][n] = IF h = j /\ n = app[j][g].m.index THEN app[j][g].m.cmd ELSE logs[h][n]
      BY ZenonT(60), <1>2, CheckPasses
    <3> QED BY ZenonT(60), <3>1
  <2> QED BY ZenonT(60), <2>1, <2>2
<1>3. ASSUME NEW j \in Servers, NEW g \in Gens, InstallSnap(j, g) PROVE logs'[i][k] = logs[i][k]
  <2>0. app[j][g].m.snap \in Snaps /\ ingestSnap(j, app[j][g].m.snap) /\ setup.correct
    BY ZenonT(60), <1>3, InstallStep
  <2>1. CASE i # j
    BY ZenonT(60), <2>0, <2>1, Replaced
  <2>2. CASE i = j
    BY ZenonT(60), <1>3, <2>0, <2>2, InstallKeeps
  <2> QED BY ZenonT(60), <2>1, <2>2
<1>4. ASSUME NEW j \in Servers, start1(j) PROVE logs'[i][k] = logs[i][k]
  BY <1>4, NoRestart
<1>5. ASSUME NEW j \in Servers, NEW g \in Gens, Mark(j, g) PROVE logs'[i][k] = logs[i][k]
  BY <1>1, <1>5 DEF Mark
<1>6. ASSUME NEW j \in Servers, Persist(j) PROVE logs'[i][k] = logs[i][k]
  BY ZenonT(60), <1>6 DEF Persist
<1> QED BY ZenonT(60), <1>1, <1>2, <1>3, <1>4, <1>5, <1>6, QuietStep

----------------------------------------------------------------------------
(* Counting. *)

LEMMA HavingFinite ==
  ASSUME NEW n \in Nat, NEW k, NEW c
  PROVE  IsFiniteSet(Having(n, k, c)) /\ Cardinality(Having(n, k, c)) \in Nat
<1>1. IsFiniteSet(1 .. n)
  BY FS_Interval
<1>2. IsFiniteSet(Having(n, k, c))
  BY <1>1, FS_Subset DEF Having
<1> QED BY <1>2, FS_CardinalityType

(* So what nCommitted has counted stays. *)
LEMMA HavingKept ==
  ASSUME Basic, AgreedInv, CleanInv, [Next]_vars, ~RestartsFromSnapshot, ~setup.forges, Silence',
         NEW n \in 0 .. N, NEW k \in Index, NEW c, c # None
  PROVE  /\ Having(n, k, c) \subseteq Having(n, k, c)'
         /\ Cardinality(Having(n, k, c)) \in Nat /\ Cardinality(Having(n, k, c)') \in Nat
         /\ Cardinality(Having(n, k, c)') >= Cardinality(Having(n, k, c))
<1>1. Having(n, k, c) \subseteq Having(n, k, c)'
  BY LogsKept, BoundAssumption DEF Having, Servers
<1>2. IsFiniteSet(1 .. n) /\ Having(n, k, c)' \subseteq 1 .. n
  BY FS_Interval, BoundAssumption DEF Having
<1>3. IsFiniteSet(Having(n, k, c)')
  BY <1>2, FS_Subset
<1>4. Cardinality(Having(n, k, c)) <= Cardinality(Having(n, k, c)')
  BY <1>1, <1>3, FS_Subset
<1>5. Cardinality(Having(n, k, c)') \in Nat /\ Cardinality(Having(n, k, c)) \in Nat
  BY <1>1, <1>3, FS_Subset, FS_CardinalityType
<1> QED BY ZenonT(60), <1>1, <1>4, <1>5

(* one and nCommitted count what is there, whatever appliers do meanwhile. *)
LEMMA CountKept ==
  ASSUME Basic, AgreedInv, CleanInv, CountInv, [Next]_vars
  PROVE  CountInv'
<1>0. SUFFICES ASSUME ~RestartsFromSnapshot, ~setup.forges, ~Alarm' PROVE CountInv'
  BY SetupKept DEF CountInv
<1>a. Silence'
  BY ZenonT(60), <1>0 DEF Alarm, Silence
<1>1. ~Alarm /\ test \in Tests /\ N \in Nat
  BY ZenonT(60), <1>0, AlarmKept, BoundAssumption DEF Basic, RaftTypeOK
<1>2. CASE UNCHANGED test
  <2>1. test.pc \in {"count", "returned"} => test.index \in Index /\ test.cmd \in Cmds /\ test.cmd # None
    BY ValueAssumption DEF Basic, TestInv
  <2>2. test.at - 1 \in 0 .. N /\ N \in 0 .. N /\ test.count \in Nat
    BY <1>1 DEF Tests
  <2>3. ASSUME test.pc = "count", test.count > 0
        PROVE  /\ test.cmd1 # None
               /\ \E i \in 1 .. test.at - 1 : logs'[i][test.index] = test.cmd1
               /\ Cardinality(Having(test.at - 1, test.index, test.cmd1)') >= test.count
    <3>1. PICK n \in 0 .. N, k \in Index, c \in Values : n = test.at - 1 /\ k = test.index /\ c = test.cmd1
      BY ZenonT(60), <1>1, <2>1, <2>2, <2>3 DEF Tests
    <3>2. c # None /\ (\E i \in 1 .. n : logs[i][k] = c) /\ Cardinality(Having(n, k, c)) >= test.count
      BY <1>0, <1>1, <2>3, <3>1 DEF CountInv
    <3>3. /\ Having(n, k, c) \subseteq Having(n, k, c)'
          /\ Cardinality(Having(n, k, c)) \in Nat /\ Cardinality(Having(n, k, c)') \in Nat
          /\ Cardinality(Having(n, k, c)') >= Cardinality(Having(n, k, c))
      BY ZenonT(60), <1>0, <1>a, <3>2, HavingKept
    <3>5. \E i \in 1 .. n : logs'[i][k] = c
      BY <3>2, <3>3 DEF Having
    <3>6. Cardinality(Having(n, k, c)') >= test.count
      BY <2>2, <3>2, <3>3
    <3> QED BY <1>2, <3>1, <3>2, <3>5, <3>6
  <2>4. ASSUME test.pc = "returned"
        PROVE  Cardinality(Having(N, test.index, test.cmd)') >= expectedServers
    <3>1. PICK k \in Index, c \in Cmds : k = test.index /\ c = test.cmd /\ c # None
      BY ZenonT(60), <2>1, <2>4
    <3>2. Cardinality(Having(N, k, c)) >= expectedServers
      BY ZenonT(60), <1>0, <1>1, <2>4, <3>1 DEF CountInv
    <3>3. /\ Cardinality(Having(N, k, c)) \in Nat /\ Cardinality(Having(N, k, c)') \in Nat
          /\ Cardinality(Having(N, k, c)') >= Cardinality(Having(N, k, c))
      BY ZenonT(60), <1>0, <1>a, <2>2, <3>1, HavingKept
    <3>4. Cardinality(Having(N, k, c)') >= expectedServers
      BY <3>2, <3>3, BoundAssumption
    <3> QED BY <1>2, <3>1, <3>4
  <2> QED BY <1>2, <2>3, <2>4 DEF CountInv
<1>3. CASE nCommitted /\ ~UNCHANGED test
  <2>1. PICK n \in 0 .. N, k \in Index : n = test.at - 1 /\ k = test.index /\ n + 1 \in Servers
    BY <1>1, <1>3 DEF nCommitted, Tests, Basic, TestInv, Servers
  <2>2. PICK v \in Values : v = logs[n + 1][k]
    BY <2>1 DEF Basic, RaftTypeOK
  <2>3. /\ test.pc = "count" /\ ~(v # None /\ test.count > 0 /\ v # test.cmd1) /\ logs' = logs
        /\ test' = [test EXCEPT !.at = @ + 1, !.count = IF v # None THEN @ + 1 ELSE @,
                                !.cmd1 = IF v # None THEN v ELSE @]
    <3>1. test.at = n + 1
      BY <1>1, <2>1 DEF Tests
    <3>2. v = logs[test.at][test.index]
      BY <2>1, <2>2, <3>1
    <3> QED BY <1>3, <3>2 DEF nCommitted
  <2>4. /\ test'.pc = "count" /\ test'.at - 1 = n + 1 /\ test'.index = k /\ n \in Nat
        /\ test'.count = IF v # None THEN test.count + 1 ELSE test.count
        /\ test'.cmd1 = IF v # None THEN v ELSE test.cmd1
    BY <1>1, <2>1, <2>3 DEF Tests
  <2>5. test.count \in Nat
    BY ZenonT(60), <1>1 DEF Tests
  <2> DEFINE c == test'.cmd1
  <2>6. ASSUME test'.count > 0
        PROVE  /\ c # None
               /\ \E i \in 1 .. n + 1 : logs[i][k] = c
               /\ Cardinality(Having(n + 1, k, c)) >= test'.count
    <3>1. IsFiniteSet(Having(n, k, c)) /\ Cardinality(Having(n, k, c)) \in Nat
      BY <2>4, HavingFinite
    <3>2. test.count > 0 => /\ test.cmd1 # None /\ c = test.cmd1
                            /\ \E i \in 1 .. n : logs[i][k] = c
                            /\ Cardinality(Having(n, k, c)) >= test.count
      BY ZenonT(60), <1>0, <1>1, <2>1, <2>3, <2>4 DEF CountInv
    <3>3. CASE v # None
      <4>1. Having(n + 1, k, c) = Having(n, k, c) \cup {n + 1} /\ n + 1 \notin Having(n, k, c)
        BY <2>2, <2>4, <3>3 DEF Having
      <4>2. Cardinality(Having(n + 1, k, c)) = Cardinality(Having(n, k, c)) + 1
        BY ZenonT(60), <3>1, <4>1, FS_AddElement
      <4>3. Cardinality(Having(n, k, c)) >= test.count
        BY <2>5, <3>1, <3>2
      <4>4. logs[n + 1][k] = c /\ n + 1 \in 1 .. n + 1
        BY <2>2, <2>4, <3>3
      <4> QED BY <2>4, <2>5, <3>1, <3>3, <4>2, <4>3, <4>4
    <3>4. CASE v = None
      <4>1. Having(n, k, c) \subseteq Having(n + 1, k, c) /\ n + 1 \in Nat
        BY <2>4 DEF Having
      <4>2. IsFiniteSet(Having(n + 1, k, c)) /\ Cardinality(Having(n + 1, k, c)) \in Nat
        BY ZenonT(60), <4>1, HavingFinite
      <4>3. Cardinality(Having(n, k, c)) <= Cardinality(Having(n + 1, k, c))
        BY ZenonT(60), <4>1, <4>2, FS_Subset
      <4>4. test'.count = test.count /\ test.count > 0
        BY ZenonT(60), <2>4, <2>6, <3>4
      <4>5. \E i \in 1 .. n + 1 : logs[i][k] = c
        BY <2>4, <3>2, <4>4
      <4> QED BY <2>5, <3>1, <3>2, <4>2, <4>3, <4>4, <4>5
    <3> QED BY ZenonT(60), <3>3, <3>4
  <2>7. Having(n + 1, k, c) = {i \in 1 .. n + 1 : logs'[i][k] = c}
    BY <2>3 DEF Having
  <2> QED BY ZenonT(60), <2>3, <2>4, <2>6, <2>7 DEF CountInv, Having
<1>4. CASE Decide
  <2>1. CASE Committed
    <3>1. PICK k \in Index, c \in Cmds : k = test.index /\ c = test.cmd
      BY <1>4 DEF Decide, Basic, TestInv
    <3>2. test.pc = "count" /\ test.at - 1 = N /\ test.count > 0 /\ test.count >= expectedServers /\ test.cmd1 = c
      <4>1. test.pc = "count" /\ test.at = N + 1
        BY ZenonT(60), <1>4 DEF Decide
      <4>2. test.count > 0 /\ test.count >= expectedServers /\ test.cmd1 = c
        BY ZenonT(60), <2>1, <3>1 DEF Committed
      <4>3. test.at - 1 = N
        BY <4>1, BoundAssumption
      <4> QED BY ZenonT(60), <4>1, <4>2, <4>3
    <3>3. Cardinality(Having(N, k, c)) >= test.count
      BY <1>0, <1>1, <3>1, <3>2 DEF CountInv
    <3>4. Cardinality(Having(N, k, c)) \in Nat /\ test.count \in Nat
      BY ZenonT(60), <1>1, HavingFinite DEF Tests
    <3>5. Cardinality(Having(N, k, c)) >= expectedServers
      BY <3>2, <3>3, <3>4, BoundAssumption
    <3>6. test'.pc = "returned" /\ test'.index = k /\ test'.cmd = c /\ logs' = logs
      BY <1>1, <1>4, <2>1, <3>1 DEF Decide, Tests
    <3>7. Having(N, k, c) = {i \in 1 .. N : logs'[i][k] = c}
      BY ZenonT(60), <3>6 DEF Having
    <3> QED BY <3>5, <3>6, <3>7 DEF CountInv, Having
  <2>2. CASE ~Committed
    <3>1. test'.count = 0 /\ test'.pc = "count"
      BY <1>1, <1>4, <2>2 DEF Decide, Tests
    <3> QED BY <3>1 DEF CountInv
  <2> QED BY ZenonT(60), <2>1, <2>2
<1>5. CASE GiveUp
  BY <1>5 DEF GiveUp, NoTest, CountInv
<1>6. ASSUME NEW c \in Cmds, one(c) PROVE CountInv'
  BY <1>6 DEF one, NoTest, CountInv
<1>7. CASE Commit
  BY ZenonT(60), <1>2, <1>7 DEF Commit
<1> QED BY ZenonT(60), <1>2, <1>3, <1>4, <1>5, <1>6, <1>7, ServerStep DEF TestStep

----------------------------------------------------------------------------
(* No false alarm. *)

(* A step at one applier that raises no error. *)
LEMMA Silent ==
  ASSUME Silence, NEW i \in Servers, NEW g \in Gens, Others(i, g), ~app'[i][g].err
  PROVE  Silence'
BY ZenonT(60) DEF Silence, Others

(* No step raises an alarm about a correct Raft, but that of one giving up. *)
LEMMA NoAlarm ==
  ASSUME Basic, AgreedInv, CleanInv, CountInv, [Next]_vars, setup.correct, ~RestartsFromSnapshot
  PROVE  Silence' /\ (failed' => test'.pc = "gaveup")
<1> DEFINE Fine == Silence /\ (failed => test.pc = "gaveup")
<1>0. CASE failed
  <2>1. Fine /\ UNCHANGED <<app, failed, test>>
    BY ZenonT(60), <1>0, OverWhenFailed DEF CleanInv, vars
  <2> QED BY ZenonT(60), <2>1 DEF Silence
<1>z. SUFFICES ASSUME ~failed PROVE Fine'
  BY ZenonT(60), <1>0
<1>a. ~setup.forges
  BY ZenonT(60), SetupParts DEF Basic, RaftTypeOK
<1>1. /\ ~Alarm /\ ~failed /\ Silence /\ (\A i \in Servers, g \in Gens : ~app[i][g].err)
      /\ \A i \in Servers, k \in Index : logs[i][k] = None \/ Agreed(k, logs[i][k])
  BY ZenonT(60), <1>z DEF CleanInv, Alarm, AgreedInv, Silence
<1>2. ASSUME UNCHANGED <<app, failed>> PROVE Fine'
  <2>1. app' = app /\ ~failed'
    BY <1>1, <1>2
  <2> QED BY ZenonT(60), <1>1, <2>1 DEF Silence
<1>3. CASE nCommitted
  <2>1. test.at \in Servers /\ test.index \in Index /\ test.pc = "count" /\ test.at - 1 \in 0 .. N
    BY <1>3, BoundAssumption DEF nCommitted, Basic, RaftTypeOK, Tests, TestInv, Servers
  <2>2. ASSUME test.count > 0, logs[test.at][test.index] # None
        PROVE  logs[test.at][test.index] = test.cmd1
    <3>1. PICK i \in 1 .. test.at - 1 : logs[i][test.index] = test.cmd1 /\ test.cmd1 # None
      BY <1>1, <1>a, <2>1, <2>2 DEF CountInv
    <3>2. i \in Servers
      BY <2>1, BoundAssumption DEF Servers
    <3> QED BY ZenonT(60), <1>1, <2>1, <2>2, <3>1, <3>2 DEF Agreed
  <2> QED BY <1>1, <1>2, <1>3, <2>2 DEF nCommitted
<1>4. CASE Commit \/ Decide \/ (\E c \in Cmds : one(c)) \/ UNCHANGED vars \/ \E i \in Servers : crash1(i)
  BY ZenonT(60), <1>2, <1>4 DEF Commit, Decide, one, vars, crash1
<1>b. CASE GiveUp
  <2>1. test'.pc = "gaveup" /\ app' = app
    BY <1>b DEF GiveUp, NoTest
  <2> QED BY ZenonT(60), <1>1, <2>1 DEF Silence
<1>5. ASSUME NEW i \in Servers, Offer(i) PROVE Fine'
  <2>1. PICK g \in Gens : g = gen[i]
    BY DEF Basic, RaftTypeOK
  <2> QED BY ZenonT(60), <1>1, <1>5, <2>1, OfferStep, Silent DEF Offer
<1>6. ASSUME NEW i \in Servers, start1(i) PROVE Fine'
  <2>1. PICK g \in Gens : g = gen[i] + 1
    BY <1>6, StartStep
  <2>a. Others(i, g) /\ \E n \in 1 .. MaxIndex + 1 : app'[i][g] = Running(n)
    BY ZenonT(60), <1>6, <2>1, StartStep
  <2>2. Others(i, g) /\ ~app'[i][g].err
    BY ZenonT(60), <2>a, Constructed
  <2> QED BY ZenonT(60), <1>1, <1>6, <2>2, Silent DEF start1
<1>7. ASSUME NEW i \in Servers, NEW g \in Gens, Receive(i, g) PROVE Fine'
  <2>1. ~OutOfOrder(i, app[i][g].m.index)
    <3> SUFFICES ASSUME setup.snapshot PROVE app[i][g].m.index = lastApplied[i] + 1
      BY ZenonT(60) DEF OutOfOrder
    <3>1. Holds(app[i][g], {"offer"}) /\ app[i][g] \in Apps
      BY ZenonT(60), <1>7, ReceiveStep DEF Basic, RaftTypeOK
    <3>2. g = 0
      BY <3>1, OneApplier DEF Holds
    <3>3. app[i][g].m.index = app[i][g].next /\ lastApplied[i] = app[i][g].next - 1
      BY ZenonT(60), <3>1, <3>2 DEF CleanInv, Exact, Holds
    <3>4. app[i][g].next \in Int
      BY <3>1, BoundAssumption DEF Apps
    <3> QED BY <3>3, <3>4
  <2>2. ~failed'
    BY ZenonT(60), <1>1, <1>7 DEF Receive
  <2> QED BY ZenonT(60), <1>1, <1>7, <2>1, <2>2, ReceiveStep, Silent
<1>8. ASSUME NEW i \in Servers, NEW g \in Gens, checkLogs(i, g) PROVE Fine'
  <2> DEFINE a == app[i][g]
             m == a.m
  <2>1. Holds(a, {"check"}) /\ m.index \in Index /\ m.cmd \in Cmds /\ Agreed(m.index, m.cmd) /\ a \in Apps
    <3>1. Holds(a, {"check"}) /\ m.index \in Index /\ m.cmd \in Cmds
      BY ZenonT(60), <1>8, CheckStep
    <3>2. a \in Apps /\ AppAgreed(a)
      BY ZenonT(60) DEF AgreedInv, Basic, RaftTypeOK
    <3>3. Holds(a, {"offer", "check", "mark"})
      BY ZenonT(60), <3>1 DEF Holds
    <3> QED BY ZenonT(60), <3>1, <3>2, <3>3 DEF AppAgreed
  <2>2. ~Differs(i, m)
    BY ZenonT(60), <1>1, <2>1 DEF Differs, Agreed
  <2>3. m.index = a.next /\ (a.next = 1 \/ logs[i][a.next - 1] # None)
    <3>1. CASE ~setup.snapshot
      BY ZenonT(60), <2>1, <3>1 DEF CleanInv, Had, Holds
    <3>2. CASE setup.snapshot
      <4>1. g = 0
        BY <2>1, <3>2, OneApplier DEF Holds
      <4>2. m.index = a.next /\ \A k \in Index : logs[i][k] # None <=> k < a.next
        BY ZenonT(60), <2>1, <3>2, <4>1 DEF CleanInv, Exact, Holds
      <4>3. \A k \in Index : k # 1 => k - 1 \in Index /\ k - 1 < k
        BY BoundAssumption DEF Index
      <4> QED BY ZenonT(60), <2>1, <4>2, <4>3
    <3> QED BY ZenonT(60), <3>1, <3>2 DEF Basic, RaftTypeOK
  <2>4. ~app'[i][g].err
    <3>1. prevok(i, m)
      BY ZenonT(60), <2>3 DEF prevok
    <3> QED BY ZenonT(60), <1>8, <2>2, <3>1, CheckStep
  <2>5. ~failed'
    BY <1>1, <1>8 DEF checkLogs
  <2> QED BY <1>1, <1>8, <2>4, <2>5, CheckStep, Silent
<1>9. ASSUME NEW i \in Servers, NEW g \in Gens, Mark(i, g) PROVE Fine'
  <2>1. app[i][g].m.index + 1 \in 1 .. MaxIndex + 1
    BY ZenonT(60), <1>9, MarkStep, NextIndex
  <2>a. ~app[i][g].err
    BY ZenonT(60), <1>1 DEF Alarm
  <2>2. ~app'[i][g].err
    <3>1. app'[i][g] = Running(app[i][g].m.index + 1)
      BY ZenonT(60), <1>9, <2>a, MarkStep
    <3> QED BY ZenonT(60), <2>1, <3>1, Constructed
  <2>3. ~failed'
    BY <1>1, <1>9 DEF Mark
  <2> QED BY ZenonT(60), <1>1, <1>9, <2>2, <2>3, MarkStep, Silent
<1>10. ASSUME NEW i \in Servers, NEW g \in Gens, Fatal(i, g) PROVE FALSE
  BY ZenonT(60), <1>1, <1>10 DEF Fatal, Basic, AppInv, AppOK
<1>11. ASSUME NEW i \in Servers, NEW g \in Gens, InstallSnap(i, g) \/ SkipSnap(i, g) PROVE Fine'
  <2>1. Others(i, g) /\ \E n \in 1 .. MaxIndex + 1 : app'[i][g] = Running(n)
    BY ZenonT(60), <1>11, InstallStep, SkipStep
  <2>2. ~app'[i][g].err
    BY ZenonT(60), <2>1, Constructed
  <2>3. ~failed'
    BY ZenonT(60), <1>1, <1>11 DEF InstallSnap, SkipSnap
  <2> QED BY ZenonT(60), <1>1, <2>1, <2>2, <2>3, Silent
<1>12. ASSUME NEW i \in Servers, NEW g \in Gens, MismatchedSnap(i, g) \/ BadSnap(i, g) PROVE FALSE
  BY ZenonT(60), <1>12, ForgedStep
<1>13. ASSUME NEW i \in Servers, Persist(i) PROVE FALSE
  BY ZenonT(60), <1>a, <1>13 DEF Persist, Forgeries
<1>14. ASSUME NEW i \in Servers, StartFails(i) PROVE FALSE
  BY ZenonT(60), <1>a, <1>14, Constructed DEF StartFails, Basic, SavedInv, Genuine
<1> QED
  BY ZenonT(60), <1>3, <1>4, <1>b, <1>5, <1>6, <1>7, <1>8, <1>9, <1>10, <1>11, <1>12, <1>13, <1>14 DEF Next

(* Without snapshots. *)
LEMMA HadKept ==
  ASSUME Basic, AgreedInv, CleanInv, CountInv, [Next]_vars, setup.correct, ~setup.snapshot
  PROVE  \A i \in Servers, g \in Gens : Had(i, app[i][g])'
<1>0. ~RestartsFromSnapshot
  BY ZenonT(60) DEF RestartsFromSnapshot
<1>a. ~setup.forges
  BY ZenonT(60), SetupParts DEF Basic, RaftTypeOK
<1>1. \A i \in Servers, k \in Index : logs[i][k] # None => logs'[i][k] # None
  BY ZenonT(60), <1>0, <1>a, NoAlarm, LogsKept
<1>2. \A i \in Servers, g \in Gens : Had(i, app[i][g]) /\ app[i][g] \in Apps
  BY <1>0 DEF CleanInv, Basic, RaftTypeOK
<1>3. ASSUME NEW i \in Servers, NEW g \in Gens, app'[i][g] = app[i][g] PROVE Had(i, app[i][g])'
  <2>1. PICK a \in Apps : a = app[i][g]
    BY <1>2
  <2>a. \A n \in 1 .. MaxIndex + 1 : n # 1 => n - 1 \in Index
    BY BoundAssumption DEF Index
  <2>2. a.next # 1 => a.next - 1 \in Index
    BY ZenonT(60), <2>1, <2>a DEF Apps
  <2>3. a.pc = "mark" => a.m.index \in Index
    BY ZenonT(60), <2>1 DEF Basic, AppInv, AppOK, Holds
  <2>4. Had(i, a)
    BY ZenonT(60), <1>2, <2>1
  <2>5. Had(i, a)'
    BY ZenonT(60), <1>1, <2>2, <2>3, <2>4 DEF Had
  <2> QED BY ZenonT(60), <1>3, <2>1, <2>5
<1>4. ASSUME NEW i \in Servers, NEW g \in Gens, Others(i, g), Had(i, app[i][g])'
      PROVE  \A j \in Servers, h \in Gens : Had(j, app[j][h])'
  <2> SUFFICES ASSUME NEW j \in Servers, NEW h \in Gens PROVE Had(j, app[j][h])'
    OBVIOUS
  <2> QED BY <1>3, <1>4 DEF Others
<1>5. CASE TestStep \/ UNCHANGED vars \/ (\E i \in Servers : crash1(i) \/ Persist(i) \/ StartFails(i))
           \/ \E i \in Servers, g \in Gens : Fatal(i, g) \/ BadSnap(i, g)
  <2>1. app' = app
    BY ZenonT(60), <1>5, TestParts DEF vars, crash1, Persist, StartFails, Fatal, BadSnap
  <2> QED BY ZenonT(60), <1>3, <2>1
<1>6. ASSUME NEW i \in Servers, Offer(i) PROVE \A j \in Servers, h \in Gens : Had(j, app[j][h])'
  <2>1. PICK g \in Gens : g = gen[i]
    BY DEF Basic, RaftTypeOK
  <2>2. PICK a \in Apps, b \in Apps : a = app[i][g] /\ b = app'[i][g]
    BY ZenonT(60), <1>2, <1>6, <2>1, OfferStep
  <2>3. a.pc = "idle" /\ b.pc = "offer" /\ b.next = a.next /\ b.m \in Offers(a.next) /\ a.next \in 1 .. MaxIndex + 1
    BY ZenonT(60), <1>6, <2>1, <2>2, OfferStep DEF Apps
  <2>4. b.m.snap = NoSnap => b.m.index = b.next
    BY ZenonT(60), <2>3, OfferMsg
  <2>5. b.next = 1 \/ logs'[i][b.next - 1] # None
    BY ZenonT(60), <1>2, <1>6, <2>2, <2>3 DEF Had, Offer
  <2>6. Had(i, b)'
    BY <2>3, <2>4, <2>5 DEF Had, Holds
  <2> QED BY ZenonT(60), <1>4, <1>6, <2>1, <2>2, <2>6, OfferStep
<1>7. ASSUME NEW i \in Servers, start1(i) PROVE \A j \in Servers, h \in Gens : Had(j, app[j][h])'
  <2>1. PICK g \in Gens : g = gen[i] + 1
    BY ZenonT(60), <1>7, StartStep
  <2>2. 1 \in 1 .. MaxIndex + 1
    BY BoundAssumption
  <2>3. Others(i, g) /\ app'[i][g] = Running(1)
    <3>1. Others(i, g) /\ app'[i][g] = Running(saved[i].index + 1)
      BY ZenonT(60), <1>7, <2>1, StartStep
    <3>2. saved[i].index = 0
      BY ZenonT(60), <1>0, <1>a, <1>7, NoRestart, Constructed
    <3> QED BY <3>1, <3>2
  <2>4. Had(i, Running(1))'
    BY <2>2, Constructed DEF Had, Holds
  <2> QED BY <1>4, <2>3, <2>4
<1>8. ASSUME NEW i \in Servers, NEW g \in Gens, Receive(i, g)
      PROVE  \A j \in Servers, h \in Gens : Had(j, app[j][h])'
  <2>1. ~app'[i][g].err
    BY ZenonT(60), <1>0, NoAlarm DEF Silence
  <2>2. PICK a \in Apps, b \in Apps : a = app[i][g] /\ b = app'[i][g]
    BY ZenonT(60), <1>2, <1>8, ReceiveStep
  <2>3. Holds(a, {"offer"}) /\ b.pc = "check" /\ b.m = a.m /\ b.next = a.next /\ Had(i, a) /\ logs' = logs
    BY ZenonT(60), <1>2, <1>8, <2>1, <2>2, ReceiveStep DEF Receive
  <2>4. Had(i, b)'
    BY ZenonT(60), <2>3 DEF Had, Holds
  <2> QED BY ZenonT(60), <1>4, <1>8, <2>2, <2>4, ReceiveStep
<1>9. ASSUME NEW i \in Servers, NEW g \in Gens, checkLogs(i, g)
      PROVE  \A j \in Servers, h \in Gens : Had(j, app[j][h])'
  <2>1. PICK b \in Apps : b = app'[i][g]
    <3>1. app' \in [Servers -> [Gens -> Apps]]
      BY ZenonT(60), <1>2, <1>9, CheckStep
    <3> QED BY ZenonT(60), <3>1
  <2>2. b.pc = "mark" /\ logs'[i][b.m.index] = b.m.cmd /\ b.m.cmd \in Cmds
    <3>1. logs \in [Servers -> [Index -> Values]]
      BY ZenonT(60) DEF Basic, RaftTypeOK
    <3> QED BY <1>9, <2>1, <3>1, CheckStep
  <2>3. Had(i, b)'
    BY <2>2, ValueAssumption DEF Had, Holds
  <2> QED BY ZenonT(60), <1>4, <1>9, <2>1, <2>3, CheckStep
<1>10. ASSUME NEW i \in Servers, NEW g \in Gens, Mark(i, g)
       PROVE  \A j \in Servers, h \in Gens : Had(j, app[j][h])'
  <2>1. PICK k \in Index : k = app[i][g].m.index
    BY ZenonT(60), <1>10, MarkStep
  <2>2. k + 1 \in 1 .. MaxIndex + 1 /\ k + 1 - 1 = k
    BY BoundAssumption DEF Index
  <2>3. app'[i][g] = Running(k + 1) /\ logs'[i][k] # None
    <3>1. ~app[i][g].err /\ app[i][g].pc = "mark" /\ Had(i, app[i][g]) /\ logs' = logs
      BY ZenonT(60), <1>0, <1>2, <1>10 DEF CleanInv, Silence, Mark
    <3> QED BY ZenonT(60), <1>10, <2>1, <3>1, MarkStep DEF Had
  <2>4. PICK b \in Apps : b = Running(k + 1) /\ b.pc = "idle" /\ b.next = k + 1
    BY <2>2, Constructed
  <2>5. logs'[i][b.next - 1] # None
    <3>1. k \in Nat
      BY BoundAssumption DEF Index
    <3>2. b.next - 1 = k
      BY <2>4, <3>1
    <3> QED BY <2>3, <3>2
  <2>6. Had(i, b)'
    BY <2>4, <2>5 DEF Had, Holds
  <2> QED BY ZenonT(60), <1>4, <1>10, <2>3, <2>4, <2>6, MarkStep
<1>11. ASSUME NEW i \in Servers, NEW g \in Gens, InstallSnap(i, g) PROVE FALSE
  BY ZenonT(60), <1>11, InstallStep
<1>12. ASSUME NEW i \in Servers, NEW g \in Gens, SkipSnap(i, g) \/ MismatchedSnap(i, g) PROVE FALSE
  <2>1. HoldsSnap(app[i][g])
    BY ZenonT(60), <1>12, SkipStep, ForgedStep
  <2> QED BY ZenonT(60), <2>1 DEF Basic, AppInv, AppOK
<1> QED BY ZenonT(60), <1>5, <1>6, <1>7, <1>8, <1>9, <1>10, <1>11, <1>12 DEF Next, TestStep

(* With snapshots and without restarts. *)
LEMMA ExactKept ==
  ASSUME Basic, AgreedInv, CleanInv, CountInv, [Next]_vars, setup.correct, setup.snapshot, ~RestartsFromSnapshot
  PROVE  \A i \in Servers : Exact(i, app[i][0])'
<1>0. 0 \in Gens /\ \A i \in Servers : setup.starts[i] = 0
  BY SetupParts, BoundAssumption DEF Gens, RestartsFromSnapshot, Basic, RaftTypeOK
<1>a. ~setup.forges
  BY ZenonT(60), SetupParts DEF Basic, RaftTypeOK
<1>1. \A i \in Servers : Exact(i, app[i][0]) /\ app[i][0] \in Apps
  BY <1>0 DEF CleanInv, Basic, RaftTypeOK
<1>2. Silence'
  BY ZenonT(60), NoAlarm
<1>3. ASSUME NEW i \in Servers, UNCHANGED <<alive, gen>>, Exact(i, app[i][0])',
             \A j \in Servers \ {i} : /\ app'[j][0] = app[j][0] /\ logs'[j] = logs[j]
                                      /\ saved'[j] = saved[j] /\ lastApplied'[j] = lastApplied[j]
      PROVE  \A j \in Servers : Exact(j, app[j][0])'
  <2> SUFFICES ASSUME NEW j \in Servers \ {i} PROVE Exact(j, app[j][0])'
    BY ZenonT(60), <1>3
  <2>1. Exact(j, app[j][0]) /\ app'[j][0] = app[j][0] /\ logs'[j] = logs[j]
        /\ saved'[j] = saved[j] /\ lastApplied'[j] = lastApplied[j]
    BY ZenonT(60), <1>1, <1>3
  <2>2. PICK a \in Apps : a = app[j][0]
    BY ZenonT(60), <1>1
  <2>a. Exact(j, a) /\ alive' = alive /\ gen' = gen
    BY ZenonT(60), <1>3, <2>1, <2>2
  <2>3. Exact(j, a)'
    BY ZenonT(60), <2>1, <2>a DEF Exact, Holds, HoldsSnap
  <2> QED BY ZenonT(60), <2>1, <2>2, <2>3
<1>4. CASE TestStep \/ UNCHANGED vars \/ \E i \in Servers, g \in Gens : Fatal(i, g)
  <2>1. UNCHANGED <<app, logs, saved, lastApplied, alive, gen>>
    BY ZenonT(60), <1>4, TestParts DEF vars, Fatal
  <2> QED BY ZenonT(60), <1>1, <2>1 DEF Exact, Holds, HoldsSnap
<1>5. ASSUME NEW i \in Servers, crash1(i) \/ start1(i) \/ StartFails(i) PROVE FALSE
  <2>1. i \in alive /\ ~(gen[i] < setup.starts[i])
    BY <1>0, <1>1 DEF Exact
  <2> QED BY ZenonT(60), <1>5, <2>1 DEF crash1, start1, StartFails
<1>6. ASSUME NEW i \in Servers, Offer(i) PROVE \A j \in Servers : Exact(j, app[j][0])'
  <2>1. gen[i] = 0
    BY ZenonT(60), <1>1 DEF Exact
  <2>2. PICK a \in Apps, b \in Apps : a = app[i][0] /\ b = app'[i][0]
    BY ZenonT(60), <1>0, <1>1, <1>6, <2>1, OfferStep
  <2>3. /\ a.pc = "idle" /\ b.pc = "offer" /\ b.next = a.next /\ b.m \in Offers(a.next)
        /\ a.next \in 1 .. MaxIndex + 1 /\ Others(i, 0)
    BY ZenonT(60), <1>6, <2>1, <2>2, OfferStep DEF Apps
  <2>4. b.m.snap = NoSnap => b.m.index = b.next
    BY ZenonT(60), <2>3, OfferMsg
  <2>5. b.m.snap # NoSnap => b.m.snap.index >= b.next /\ \A k \in 1 .. b.m.snap.index : b.m.snap.xlog[k] # Null
    <3> HAVE b.m.snap # NoSnap
    <3>1. PICK j \in Servers : b.m.snap = saved[j]
      BY ZenonT(60), <2>3, OfferMsg
    <3>2. \A k \in 1 .. saved[j].index : saved[j].xlog[k] # Null
      BY ZenonT(60), <1>1 DEF Exact
    <3>3. b.m.snap.index >= b.next
      BY ZenonT(60), <2>3, OfferMsg
    <3> QED BY <3>1, <3>2, <3>3
  <2>6. Exact(i, a) /\ UNCHANGED <<logs, saved, lastApplied, alive, gen>>
    BY <1>1, <1>6, <2>2 DEF Offer
  <2>7. Exact(i, b)'
    BY ZenonT(60), <2>3, <2>4, <2>5, <2>6 DEF Exact, Holds, HoldsSnap
  <2> QED BY ZenonT(60), <1>0, <1>3, <2>2, <2>3, <2>6, <2>7 DEF Others
<1>7. ASSUME NEW i \in Servers, NEW g \in Gens, Receive(i, g) PROVE \A j \in Servers : Exact(j, app[j][0])'
  <2>1. g = 0 /\ ~app'[i][g].err
    BY ZenonT(60), <1>2, <1>7, ReceiveStep, OneApplier DEF Holds, Silence
  <2>2. PICK a \in Apps, b \in Apps : a = app[i][0] /\ b = app'[i][0]
    BY ZenonT(60), <1>1, <1>7, <2>1, ReceiveStep
  <2>3. Holds(a, {"offer"}) /\ b.pc = "check" /\ b.m = a.m /\ b.next = a.next /\ Others(i, 0)
    BY ZenonT(60), <1>7, <2>1, <2>2, ReceiveStep
  <2>4. Exact(i, a) /\ UNCHANGED <<logs, saved, lastApplied, alive, gen>>
    BY ZenonT(60), <1>1, <1>7, <2>2 DEF Receive
  <2>5. Exact(i, b)'
    BY ZenonT(60), <2>3, <2>4 DEF Exact, Holds, HoldsSnap
  <2> QED BY ZenonT(60), <1>0, <1>3, <2>2, <2>3, <2>4, <2>5 DEF Others
<1>8. ASSUME NEW i \in Servers, NEW g \in Gens, checkLogs(i, g) PROVE \A j \in Servers : Exact(j, app[j][0])'
  <2>1. g = 0
    BY ZenonT(60), <1>8, CheckStep, OneApplier DEF Holds
  <2>2. PICK a \in Apps, b \in Apps : a = app[i][0] /\ b = app'[i][0]
    <3>1. app' \in [Servers -> [Gens -> Apps]] /\ app \in [Servers -> [Gens -> Apps]] /\ 0 \in Gens
      BY ZenonT(60), <1>1, <1>8, <2>1, CheckStep DEF Basic, RaftTypeOK
    <3> QED BY ZenonT(60), <3>1
  <2>3. /\ Holds(a, {"check"}) /\ b.pc = "mark" /\ b.m = a.m /\ Others(i, 0)
        /\ logs' = [logs EXCEPT ![i][a.m.index] = a.m.cmd] /\ a.m.index \in Index /\ a.m.cmd \in Cmds
    BY <1>8, <2>1, <2>2, CheckStep
  <2>4. Exact(i, a) /\ UNCHANGED <<saved, lastApplied, alive, gen>> /\ logs \in [Servers -> [Index -> Values]]
    BY ZenonT(60), <1>1, <1>8, <2>2 DEF checkLogs, Basic, RaftTypeOK
  <2>5. a.m.index = a.next /\ \A k \in Index : logs[i][k] # None <=> k < a.next
    BY ZenonT(60), <2>3, <2>4 DEF Exact, Holds
  <2>6. \A k \in Index : logs'[i][k] # None <=> k <= a.m.index
    <3>1. \A k \in Index : logs'[i][k] = IF k = a.m.index THEN a.m.cmd ELSE logs[i][k]
      BY ZenonT(60), <2>3, <2>4
    <3>2. PICK n \in Index : n = a.m.index
      BY ZenonT(60), <2>3
    <3>3. \A k \in Index : k <= n <=> k < n \/ k = n
      BY BoundAssumption DEF Index
    <3>4. a.m.cmd # None /\ a.next = n
      BY ZenonT(60), <2>3, <2>5, <3>2, ValueAssumption
    <3>5. \A k \in Index : logs'[i][k] # None <=> k = n \/ k < n
      BY ZenonT(60), <2>5, <3>1, <3>2, <3>4
    <3> QED BY ZenonT(60), <3>2, <3>3, <3>5
  <2>7. Exact(i, b)'
    BY ZenonT(60), <2>3, <2>4, <2>6 DEF Exact, Holds, HoldsSnap
  <2>8. \A j \in Servers \ {i} : logs'[j] = logs[j]
    BY <2>3, <2>4
  <2>9. \A j \in Servers \ {i} : app'[j][0] = app[j][0] /\ saved'[j] = saved[j] /\ lastApplied'[j] = lastApplied[j]
    BY ZenonT(60), <1>0, <2>3, <2>4 DEF Others
  <2> QED BY ZenonT(60), <1>3, <2>2, <2>4, <2>7, <2>8, <2>9
<1>9. ASSUME NEW i \in Servers, NEW g \in Gens, Mark(i, g) PROVE \A j \in Servers : Exact(j, app[j][0])'
  <2>1. g = 0 /\ ~app[i][g].err
    BY ZenonT(60), <1>9, MarkStep, OneApplier DEF Holds, CleanInv, Silence
  <2>2. PICK a \in Apps, k \in Index : a = app[i][0] /\ k = a.m.index
    BY ZenonT(60), <1>1, <1>9, <2>1, MarkStep
  <2>3. PICK b \in Apps : b = Running(k + 1) /\ b.pc = "idle" /\ b.next = k + 1 /\ b.m.snap = NoSnap
    BY Constructed, BoundAssumption DEF Index
  <2>4. a.pc = "mark" /\ app'[i][0] = b /\ Others(i, 0)
    BY ZenonT(60), <1>9, <2>1, <2>2, <2>3, MarkStep DEF Holds
  <2>5. Exact(i, a) /\ UNCHANGED <<logs, alive, gen>> /\ lastApplied' = [lastApplied EXCEPT ![i] = k]
    BY ZenonT(60), <1>1, <1>9, <2>1, <2>2, MarkStep DEF Mark
  <2>6. \A n \in Index : logs[i][n] # None <=> n <= k
    BY ZenonT(60), <2>2, <2>4, <2>5 DEF Exact
  <2>7. \A n \in Index : logs'[i][n] # None <=> n < b.next
    BY <2>3, <2>5, <2>6, BoundAssumption DEF Index
  <2>8. /\ \A n \in 1 .. saved'[i].index : saved'[i].xlog[n] # Null
        /\ \A j \in Servers \ {i} : saved'[j] = saved[j]
    <3>1. CASE saved' = saved
      BY ZenonT(60), <2>5, <3>1 DEF Exact
    <3>2. CASE saved' # saved
      <4> DEFINE s == [kind |-> "good", index |-> k, xlog |-> Xlog(i, k)]
      <4>1. saved' = [saved EXCEPT ![i] = s] /\ saved \in [Servers -> Snaps]
        BY ZenonT(60), <1>9, <2>1, <2>2, <3>2, MarkStep DEF Basic, RaftTypeOK
      <4>2. \A n \in 1 .. k : n \in Index /\ n <= k
        BY BoundAssumption DEF Index
      <4>3. \A n \in 1 .. k : Xlog(i, k)[n] # Null
        BY ZenonT(60), <2>6, <4>2 DEF Xlog, CleanInv
      <4> QED BY <4>1, <4>3
    <3> QED BY ZenonT(60), <3>1, <3>2
  <2>9. lastApplied'[i] = b.next - 1 /\ \A j \in Servers \ {i} : lastApplied'[j] = lastApplied[j]
    BY <2>3, <2>5, BoundAssumption DEF Index, Basic, RaftTypeOK
  <2>10. Exact(i, b)'
    BY ZenonT(60), <2>3, <2>5, <2>7, <2>8, <2>9 DEF Exact, Holds, HoldsSnap
  <2>11. \A j \in Servers \ {i} : app'[j][0] = app[j][0] /\ logs'[j] = logs[j]
    BY ZenonT(60), <1>0, <2>4, <2>5 DEF Others
  <2> QED BY ZenonT(60), <1>3, <2>4, <2>5, <2>8, <2>9, <2>10, <2>11
<1>11. ASSUME NEW i \in Servers, NEW g \in Gens, SkipSnap(i, g) PROVE \A j \in Servers : Exact(j, app[j][0])'
  <2>1. g = 0
    BY ZenonT(60), <1>11, SkipStep, OneApplier DEF HoldsSnap
  <2>2. PICK a \in Apps : a = app[i][0]
    BY ZenonT(60), <1>1
  <2>3. Exact(i, a) /\ HoldsSnap(a) /\ Others(i, 0) /\ app'[i][0] = Running(a.next)
    BY ZenonT(60), <1>1, <1>11, <2>1, <2>2, SkipStep
  <2>4. UNCHANGED <<logs, lastApplied, saved, alive, gen>>
    BY ZenonT(60), <1>11 DEF SkipSnap
  <2>5. PICK b \in Apps : b = Running(a.next) /\ b.pc = "idle" /\ b.next = a.next /\ b.m.snap = NoSnap
    BY Constructed DEF Apps
  <2>6. Exact(i, b)'
    BY ZenonT(60), <2>3, <2>4, <2>5 DEF Exact, Holds, HoldsSnap
  <2> QED BY ZenonT(60), <1>0, <1>3, <2>3, <2>4, <2>5, <2>6 DEF Others
<1>12. ASSUME NEW i \in Servers, NEW g \in Gens, MismatchedSnap(i, g) \/ BadSnap(i, g) PROVE FALSE
  BY ZenonT(60), <1>12, ForgedStep
<1>13. ASSUME NEW i \in Servers, Persist(i) PROVE FALSE
  BY ZenonT(60), <1>a, <1>13 DEF Persist, Forgeries
<1>10. ASSUME NEW i \in Servers, NEW g \in Gens, InstallSnap(i, g) PROVE \A j \in Servers : Exact(j, app[j][0])'
  <2>1. g = 0
    BY ZenonT(60), <1>10, InstallStep, OneApplier DEF HoldsSnap
  <2>2. PICK a \in Apps, s \in Snaps : a = app[i][0] /\ s = a.m.snap
    BY ZenonT(60), <1>1, <1>10, <2>1, InstallStep
  <2>3. Exact(i, a) /\ UNCHANGED <<saved, alive, gen>> /\ HoldsSnap(a) /\ Others(i, 0)
    BY ZenonT(60), <1>1, <1>10, <2>1, <2>2, InstallStep DEF InstallSnap
  <2>5. CASE ingestSnap(i, s) /\ app'[i][g] = Running(s.index + 1)
    <3>1. s.index \in Nat /\ s.index + 1 \in 1 .. MaxIndex + 1
      BY BoundAssumption DEF Snaps
    <3>2. PICK b \in Apps : b = Running(s.index + 1) /\ b.pc = "idle" /\ b.next = s.index + 1 /\ b.m.snap = NoSnap
      BY ZenonT(60), <3>1, Constructed
    <3>3. \A k \in Index : logs'[i][k] # None <=> k < b.next
      <4>1. \A k \in Index : logs'[i][k] # None <=> k <= s.index
        BY ZenonT(60), <1>10, <2>1, <2>2, InstallKeeps
      <4> QED BY <3>1, <3>2, <4>1, BoundAssumption DEF Index
    <3>a. lastApplied'[i] = s.index
      BY ZenonT(60), <1>10, <2>1, <2>2, <2>5, InstallStep, Ingested
    <3>4. lastApplied'[i] = b.next - 1
      BY <3>a, <3>1, <3>2
    <3>5. \A j \in Servers \ {i} : logs'[j] = logs[j] /\ lastApplied'[j] = lastApplied[j]
      <4>1. s.index = Len(s.xlog)
        BY ZenonT(60), <1>10, <2>1, <2>2, InstallStep
      <4>2. \A j \in Servers : j # i => logs'[j] = logs[j] /\ lastApplied'[j] = lastApplied[j]
        BY ZenonT(60), <2>5, <4>1, Ingested
      <4> QED BY ZenonT(60), <4>2
    <3>6. Exact(i, b)'
      BY ZenonT(60), <2>3, <3>2, <3>3, <3>4 DEF Exact, Holds, HoldsSnap
    <3>7. \A j \in Servers \ {i} : app'[j][0] = app[j][0] /\ saved'[j] = saved[j]
      BY ZenonT(60), <1>0, <2>3 DEF Others
    <3> QED BY ZenonT(60), <1>3, <2>1, <2>3, <2>5, <3>2, <3>5, <3>6, <3>7
  <2> QED BY ZenonT(60), <1>10, <2>1, <2>2, <2>5, InstallStep
<1> QED BY ZenonT(60), <1>4, <1>5, <1>6, <1>7, <1>8, <1>9, <1>10, <1>11, <1>12, <1>13 DEF Next, TestStep

(* The tester stays silent about a correct Raft. *)
LEMMA CleanKept ==
  ASSUME Basic, AgreedInv, CleanInv, CountInv, [Next]_vars
  PROVE  CleanInv'
<1>0. SUFFICES ASSUME setup.correct, ~RestartsFromSnapshot PROVE CleanInv'
  BY ZenonT(60), SetupKept DEF CleanInv
<1>a. ~setup.forges
  BY ZenonT(60), <1>0, SetupParts DEF Basic, RaftTypeOK
<1>1. /\ Silence' /\ (failed' => test'.pc = "gaveup")
      /\ \A i \in Servers, k \in Index : logs[i][k] # Null
  BY ZenonT(60), <1>0, NoAlarm DEF CleanInv
<1>2. \A i \in Servers, k \in Index : logs'[i][k] # Null
  <2> SUFFICES ASSUME NEW i \in Servers, NEW k \in Index PROVE logs'[i][k] # Null
    OBVIOUS
  <2>1. CASE UNCHANGED logs
    BY ZenonT(60), <1>1, <2>1
  <2>2. ASSUME NEW j \in Servers, NEW g \in Gens, checkLogs(j, g) PROVE logs'[i][k] # Null
    <3>1. PICK n \in Index, c \in Cmds : logs' = [logs EXCEPT ![j][n] = c]
      <4>1. /\ app[j][g].m.index \in Index /\ app[j][g].m.cmd \in Cmds
            /\ logs' = [logs EXCEPT ![j][app[j][g].m.index] = app[j][g].m.cmd]
        BY ZenonT(60), <2>2, CheckStep
      <4> QED BY ZenonT(60), <4>1
    <3>2. logs \in [Servers -> [Index -> Values]]
      BY ZenonT(60) DEF Basic, RaftTypeOK
    <3> QED BY <1>1, <3>1, <3>2, ValueAssumption
  <2>3. ASSUME NEW j \in Servers, NEW g \in Gens, InstallSnap(j, g) PROVE logs'[i][k] # Null
    <3>1. CASE i # j
      <4>1. app[j][g].m.snap \in Snaps /\ ingestSnap(j, app[j][g].m.snap)
        BY ZenonT(60), <2>3, InstallStep
      <4>2. logs'[i] = logs[i]
        BY ZenonT(60), <3>1, <4>1, Replaced
      <4> QED BY ZenonT(60), <1>1, <4>2
    <3>2. CASE i = j
      BY ZenonT(60), <1>0, <2>3, <3>2, InstallKeeps
    <3> QED BY ZenonT(60), <3>1, <3>2
  <2>4. ASSUME NEW j \in Servers, start1(j) PROVE logs'[i][k] # Null
    BY ZenonT(60), <1>0, <1>a, <2>1, <2>4, NoRestart
  <2>5. ASSUME NEW j \in Servers, NEW g \in Gens, Mark(j, g) PROVE logs'[i][k] # Null
    BY <2>1, <2>5 DEF Mark
  <2>6. ASSUME NEW j \in Servers, Persist(j) PROVE logs'[i][k] # Null
    BY ZenonT(60), <2>1, <2>6 DEF Persist
  <2> QED BY ZenonT(60), <2>1, <2>2, <2>3, <2>4, <2>5, <2>6, QuietStep
<1>3. ~setup.snapshot => \A i \in Servers, g \in Gens : Had(i, app[i][g])'
  BY ZenonT(60), <1>0, HadKept
<1>4. setup.snapshot => \A i \in Servers : Exact(i, app[i][0])'
  BY <1>0, ExactKept
<1> QED BY ZenonT(60), <1>1, <1>2, <1>3, <1>4, SetupKept DEF CleanInv

LEMMA InitIInv == Init => IInv
<1> SUFFICES ASSUME Init PROVE IInv
  OBVIOUS
<1>1. /\ logs = [i \in Servers |-> [k \in Index |-> None]] /\ saved = [i \in Servers |-> NoSnap]
      /\ lastApplied = [i \in Servers |-> 0] /\ gen = [i \in Servers |-> 0] /\ alive = Servers
      /\ test = NoTest /\ failed = FALSE /\ setup \in Setups /\ raftlog = << >> /\ submitted = {}
  BY DEF Init
<1>2. 1 \in 1 .. MaxIndex + 1 /\ 0 \in Gens
  BY BoundAssumption DEF Gens
<1>3. \A i \in Servers, g \in Gens :
        /\ app[i][g] \in Apps /\ app[i][g].pc = (IF g = 0 THEN "idle" ELSE "none") /\ ~app[i][g].err
        /\ app[i][g].next = 1
  <2> SUFFICES ASSUME NEW i \in Servers, NEW g \in Gens, NEW p, p = (IF g = 0 THEN "idle" ELSE "none")
               PROVE  app[i][g] \in Apps /\ app[i][g].pc = p /\ ~app[i][g].err /\ app[i][g].next = 1
    BY ZenonT(60)
  <2>1. PICK r \in Apps : r = Running(1) /\ ~r.err /\ r.next = 1
    BY <1>2, Constructed
  <2>2. app[i][g] = [r EXCEPT !.pc = p]
    BY <2>1 DEF Init
  <2> QED BY ZenonT(60), <2>1, <2>2 DEF Apps
<1>4. app \in [Servers -> [Gens -> Apps]]
  <2>1. DOMAIN app = Servers /\ app = [i \in Servers |-> app[i]] /\ \A i \in Servers : app[i] = [g \in Gens |-> app[i][g]]
    BY DEF Init
  <2> QED BY <1>3, <2>1
<1>5. RaftTypeOK
  <2>1. raftlog \in Seq(Cmds) /\ Len(raftlog) <= setup.indices /\ submitted \subseteq Cmds
    BY <1>1, SetupParts, BoundAssumption
  <2>2. logs \in [Servers -> [Index -> Values]] /\ saved \in [Servers -> Snaps] /\ gen \in [Servers -> Gens]
        /\ lastApplied \in [Servers -> Nat]
    BY ZenonT(60), <1>1, <1>2, Constructed DEF Values
  <2> QED BY ZenonT(60), <1>1, <1>4, <2>1, <2>2, Constructed DEF RaftTypeOK
<1>6. GenInv /\ TestInv /\ SavedInv
  <2>1. GenInv
    <3>1. \A i \in Servers : setup.starts[i] \in Gens /\ gen[i] = 0 /\ i \in alive
      BY ZenonT(60), <1>1, SetupParts
    <3>2. \A n \in Gens : 0 <= n
      BY BoundAssumption DEF Gens
    <3> QED BY ZenonT(60), <3>1, <3>2 DEF GenInv
  <2>2. test.pc = "idle"
    BY ZenonT(60), <1>1 DEF NoTest
  <2>3. SavedInv
    BY ZenonT(60), <1>1, Constructed DEF SavedInv
  <2> QED BY ZenonT(60), <2>1, <2>2, <2>3 DEF TestInv
<1>7. AppInv
  <2> SUFFICES ASSUME NEW i \in Servers, NEW g \in Gens PROVE AppOK(i, g)
    BY DEF AppInv
  <2>1. g > gen[i] => g # 0
    BY <1>1
  <2> QED BY ZenonT(60), <1>3, <2>1 DEF AppOK, Holds, HoldsSnap
<1>8. ~Alarm
  BY ZenonT(60), <1>1, <1>3 DEF Alarm
<1>9. AgreedInv /\ OwnInv
  <2>1. \A i \in Servers : saved[i].index = 0
    BY <1>1, Constructed
  <2>2. \A i \in Servers, k \in Index : logs[i][k] = None
    BY ZenonT(60), <1>1
  <2>3. \A i \in Servers, g \in Gens : AppAgreed(app[i][g])
    BY ZenonT(60), <1>3 DEF AppAgreed, Holds, HoldsSnap
  <2>4. \A i \in Servers : 1 .. saved[i].index = {}
    BY <2>1
  <2> QED BY ZenonT(60), <2>2, <2>3, <2>4 DEF AgreedInv, OwnInv, SnapAgreed
<1>10. DisagreementReported /\ CountInv
  BY <1>1, ValueAssumption DEF DisagreementReported, Agree, NoGap, CountInv, NoTest
<1>11. CleanInv
  <2>1. \A i \in Servers, k \in Index : logs[i][k] = None /\ ~(k < 1)
    BY ZenonT(60), <1>1, IndexFacts
  <2>2. \A i \in Servers, g \in Gens : Had(i, app[i][g])
    BY <1>3 DEF Had, Holds
  <2>3. \A i \in Servers : Exact(i, app[i][0])
    <3> SUFFICES ASSUME NEW i \in Servers PROVE Exact(i, app[i][0])
      BY ZenonT(60)
    <3>1. PICK a \in Apps : a = app[i][0] /\ a.pc = "idle" /\ a.next = 1
      BY ZenonT(60), <1>2, <1>3
    <3>2. i \in alive /\ gen[i] = 0 /\ lastApplied[i] = a.next - 1
      BY <1>1, <3>1
    <3>3. 1 .. saved[i].index = {}
      BY <1>1, Constructed
    <3> QED BY ZenonT(60), <2>1, <3>1, <3>2, <3>3 DEF Exact, Holds, HoldsSnap
  <2> QED BY ZenonT(60), <1>1, <1>3, <2>1, <2>2, <2>3, ValueAssumption DEF CleanInv, Silence
<1> QED BY <1>5, <1>6, <1>7, <1>9, <1>10, <1>11 DEF IInv, Basic

(* The inductive invariant holds in every behaviour of the tester. *)
THEOREM Invariance == Spec => []IInv
<1>1. IInv /\ [Next]_vars => IInv'
  BY BasicKept, AgreedKept, OwnKept, ReportKept, CleanKept, CountKept DEF IInv
<1> QED BY <1>1, InitIInv, PTL DEF Spec

(* Whatever commands Raft applies, and however appliers, crashes and       *)
(* restarts interleave, no two logs hold different commands at an index    *)
(* and none has left one out, unless checkLogs or an applier has reported  *)
(* an error; when Raft forges snapshots the logs may disagree, but still   *)
(* none has left an index out.                                             *)
THEOREM ReportCorrect == Spec => []DisagreementReported
<1>1. IInv => DisagreementReported
  BY ZenonT(60) DEF IInv
<1> QED BY <1>1, Invariance, PTL

(* When one returns an index, expectedServers servers had applied the      *)
(* command there when nCommitted looked at each of them, and still have it,*)
(* or an error was reported (no server restarting from a snapshot, and no  *)
(* forged snapshots).                                                      *)
THEOREM OneCorrect == Spec => []OneIsCommitted
<1>1. IInv => OneIsCommitted
  BY ZenonT(60) DEF IInv, CountInv, OneIsCommitted, Having, Servers
<1> QED BY <1>1, Invariance, PTL

(* The appliers and nCommitted report nothing about a correct Raft, with   *)
(* snapshots or with restarts: the test fails only when one gives up.      *)
THEOREM SilenceCorrect == Spec => []NoFalseAlarm
<1>1. IInv => NoFalseAlarm
  BY ZenonT(60) DEF IInv, CleanInv, NoFalseAlarm, Silence
<1> QED BY <1>1, Invariance, PTL
=============================================================================
