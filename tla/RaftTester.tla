----------------------------- MODULE RaftTester -----------------------------
(***************************************************************************)
(* The Raft tester (Lab3/src/raft/config.go): a goroutine per Raft         *)
(* instance reads what the instance applies and compares it with what the  *)
(* others applied, snapshots it now and then, and reports errors; the test *)
(* itself submits commands with one and crashes and restarts servers.      *)
(*                                                                         *)
(* Raft is external (the lab leaves it to be written).  A correct one      *)
(* applies one agreed log in order, a faulty one any commands in any       *)
(* order, and one that forges also sends and persists snapshots that the   *)
(* tester never took.  A killed instance sends no new message, but the one *)
(* it was sending is still received, by the applier it was started with.   *)
(* Entry 0, which no message has, is left out of the logs.                 *)
(***************************************************************************)
EXTENDS Naturals, Sequences, FiniteSets

CONSTANTS
  N,                   \* servers
  Cmds,
  MaxIndex,            \* bound: log indices
  SnapShotInterval,
  MaxStarts,           \* bound: restarts of a server
  Setups,              \* the tests to look at, records of:
                       \*   snapshot: make_config's argument, applierSnap or applier
                       \*   correct: whether Raft is
                       \*   forges: whether a faulty one makes up snapshots
                       \*   asks: whether the test calls one
                       \*   starts, indices: bounds within those above, starts for each server
  Forged,              \* the snapshots it makes up
  expectedServers,     \* argument of one
  None, Null           \* not in the map, in the map as nil

Servers == 1 .. N
Gens == 0 .. MaxStarts

ASSUME BoundAssumption ==
  N \in Nat /\ MaxIndex \in Nat /\ MaxStarts \in Nat /\ SnapShotInterval \in Nat \ {0} /\ expectedServers \in Nat
ASSUME ValueAssumption == None \notin Cmds \cup {Null} /\ Null \notin Cmds
ASSUME SetupAssumption ==
  Setups \subseteq {s \in [snapshot : BOOLEAN, correct : BOOLEAN, forges : BOOLEAN, asks : BOOLEAN,
                           starts : [Servers -> Gens], indices : 0 .. MaxIndex] : s.forges => ~s.correct}
ASSUME ForgedAssumption ==
  Forged \subseteq [kind : {"good", "bad"}, index : 0 .. MaxIndex, xlog : Seq(Cmds \cup {Null})]

VARIABLES
  raftlog, submitted,            \* Raft: the agreed log, commands handed to Start
  logs, lastApplied, saved,      \* of the tester, per server
  gen, alive,
  app,                           \* each instance and its applier
  test,                          \* the test's call of one
  failed,                        \* log.Fatalf or t.Fatalf was called: the test is over
  setup                          \* chosen at the start

vars == <<raftlog, submitted, logs, lastApplied, saved, gen, alive, app, test, failed, setup>>

Index == 1 .. MaxIndex
NoSnap == [kind |-> "none", index |-> 0, xlog |-> << >>]      \* "bad": nil, or does not decode
NoMsg == [index |-> 0, cmd |-> None, snap |-> NoSnap]

Running(next) == [pc |-> "idle", next |-> next, m |-> NoMsg, err |-> FALSE]
NoTest == [pc |-> "idle", cmd |-> None, index |-> 0, at |-> 1, count |-> 0, cmd1 |-> None]

Init ==
  /\ raftlog = << >> /\ submitted = {}
  /\ logs = [i \in Servers |-> [k \in Index |-> None]]
  /\ lastApplied = [i \in Servers |-> 0]
  /\ saved = [i \in Servers |-> NoSnap]
  /\ gen = [i \in Servers |-> 0]
  /\ alive = Servers
  /\ app = [i \in Servers |-> [g \in Gens |-> [Running(1) EXCEPT !.pc = IF g = 0 THEN "idle" ELSE "none"]]]
  /\ test = NoTest
  /\ failed = FALSE
  /\ setup \in Setups

----------------------------------------------------------------------------
(* Raft, external. *)

Commit ==
  /\ ~failed
  /\ setup.correct
  /\ Len(raftlog) < setup.indices
  /\ \E c \in submitted : raftlog' = Append(raftlog, c)
  /\ UNCHANGED <<submitted, logs, lastApplied, saved, gen, alive, app, test, failed, setup>>

Forgeries == {s \in Forged : setup.forges /\ s.index <= setup.indices}

(* What an instance that has applied up to next - 1 may send: with         *)
(* a correct Raft the next entry, or a snapshot another server has taken;  *)
(* with a faulty one any command, or a forged snapshot, with or without    *)
(* its index.                                                              *)
Offers(next) ==
  IF setup.correct
  THEN {[NoMsg EXCEPT !.index = k, !.cmd = raftlog[k]] : k \in {next} \cap DOMAIN raftlog}
       \cup {[NoMsg EXCEPT !.index = saved[j].index, !.snap = saved[j]] :
               j \in {j \in Servers : setup.snapshot /\ saved[j].index >= next}}
  ELSE [index : 1 .. setup.indices, cmd : Cmds, snap : {NoSnap}]
       \cup {[NoMsg EXCEPT !.index = s.index, !.snap = s] : s \in Forgeries}
       \cup {[NoMsg EXCEPT !.snap = s] : s \in Forgeries}

Offer(i) ==
  LET a == app[i][gen[i]] IN
  /\ ~failed
  /\ i \in alive
  /\ a.pc = "idle"
  /\ \E m \in Offers(a.next) :
       app' = [app EXCEPT ![i][gen[i]] = [a EXCEPT !.pc = "offer", !.m = m]]
  /\ UNCHANGED <<raftlog, submitted, logs, lastApplied, saved, gen, alive, test, failed, setup>>

Persist(i) ==
  /\ ~failed
  /\ i \in alive /\ gen[i] < setup.starts[i]
  /\ \E s \in Forgeries : saved' = [saved EXCEPT ![i] = s]
  /\ UNCHANGED <<raftlog, submitted, logs, lastApplied, gen, alive, app, test, failed, setup>>

----------------------------------------------------------------------------
(* The appliers. *)

Goto(i, g, pc, err) == app' = [app EXCEPT ![i][g].pc = pc, ![i][g].err = err]

(* applierSnap looks at lastApplied before it takes the lock; applier does *)
(* not look at it at all.                                                  *)
OutOfOrder(i, k) == setup.snapshot /\ k # lastApplied[i] + 1

Receive(i, g) ==
  LET m == app[i][g].m IN
  /\ ~failed
  /\ app[i][g].pc = "offer"
  /\ m.snap = NoSnap
  /\ IF OutOfOrder(i, m.index) THEN Goto(i, g, "mark", TRUE) ELSE Goto(i, g, "check", FALSE)
  /\ UNCHANGED <<raftlog, submitted, logs, lastApplied, saved, gen, alive, test, failed, setup>>

WrongDiffers(i, m) == \E j \in 1 .. i : logs[j][m.index] \notin {None, m.cmd}
Differs(i, m) == \E j \in Servers : logs[j][m.index] \notin {None, m.cmd}
prevok(i, m) == m.index = 1 \/ logs[i][m.index - 1] # None

checkLogs(i, g) ==
  LET m == app[i][g].m IN
  /\ ~failed
  /\ app[i][g].pc = "check"
  /\ logs' = [logs EXCEPT ![i][m.index] = m.cmd]
  /\ Goto(i, g, "mark", Differs(i, m) \/ ~prevok(i, m))
  /\ UNCHANGED <<raftlog, submitted, lastApplied, saved, gen, alive, test, failed, setup>>

(* After checkLogs: lastApplied and the snapshot (applierSnap only), then  *)
(* the error.  An instance that was superseded saves nowhere that matters. *)
Xlog(i, k) == [j \in 1 .. k |-> IF logs[i][j] = None THEN Null ELSE logs[i][j]]

Mark(i, g) ==
  LET a == app[i][g]
      k == a.m.index IN
  /\ ~failed
  /\ a.pc = "mark"
  /\ IF setup.snapshot
     THEN /\ lastApplied' = [lastApplied EXCEPT ![i] = k]
          /\ saved' = IF (k + 1) % SnapShotInterval = 0 /\ g = gen[i] /\ i \in alive
                      THEN [saved EXCEPT ![i] = [kind |-> "good", index |-> k, xlog |-> Xlog(i, k)]] ELSE saved
     ELSE UNCHANGED <<lastApplied, saved>>
  /\ app' = [app EXCEPT ![i][g] = IF a.err THEN [a EXCEPT !.pc = "fail"] ELSE Running(k + 1)]
  /\ UNCHANGED <<raftlog, submitted, logs, gen, alive, test, failed, setup>>

Fatal(i, g) ==
  /\ ~failed
  /\ app[i][g].pc = "fail"
  /\ failed' = TRUE
  /\ UNCHANGED <<raftlog, submitted, logs, lastApplied, saved, gen, alive, app, test, setup>>

WrongIngestSnap(i, s) ==
  /\ logs' = [logs EXCEPT ![i] = [k \in Index |-> IF k <= Len(s.xlog) THEN s.xlog[k] ELSE None]]
  /\ UNCHANGED lastApplied

(* A snapshot that decodes replaces the log, unseen. *)
ingestSnap(i, s) ==
  /\ logs' = [logs EXCEPT ![i] = [k \in Index |-> IF k <= Len(s.xlog) THEN s.xlog[k] ELSE None]]
  /\ lastApplied' = [lastApplied EXCEPT ![i] = s.index]

(* A snapshot in the channel: applier passes over it, and so does          *)
(* applierSnap when CondInstallSnapshot refuses.                           *)
SkipSnap(i, g) ==
  LET a == app[i][g] IN
  /\ ~failed
  /\ a.pc = "offer"
  /\ a.m.snap # NoSnap
  /\ app' = [app EXCEPT ![i][g] = Running(a.next)]
  /\ UNCHANGED <<raftlog, submitted, logs, lastApplied, saved, gen, alive, test, failed, setup>>

InstallSnap(i, g) ==
  LET m == app[i][g].m IN
  /\ ~failed
  /\ app[i][g].pc = "offer"
  /\ setup.snapshot /\ m.snap.kind = "good" /\ m.index = m.snap.index
  /\ ingestSnap(i, m.snap)
  /\ app' = [app EXCEPT ![i][g] = Running(m.snap.index + 1)]
  /\ UNCHANGED <<raftlog, submitted, saved, gen, alive, test, failed, setup>>

(* "snapshot doesn't match m.SnapshotIndex" *)
MismatchedSnap(i, g) ==
  LET m == app[i][g].m IN
  /\ ~failed
  /\ app[i][g].pc = "offer"
  /\ setup.snapshot /\ m.snap.kind = "good" /\ m.index # m.snap.index
  /\ Goto(i, g, "fail", TRUE)
  /\ UNCHANGED <<raftlog, submitted, logs, lastApplied, saved, gen, alive, test, failed, setup>>

(* "nil snapshot", "snapshot decode error" *)
BadSnap(i, g) ==
  /\ ~failed
  /\ app[i][g].pc = "offer"
  /\ setup.snapshot /\ app[i][g].m.snap.kind = "bad"
  /\ failed' = TRUE
  /\ UNCHANGED <<raftlog, submitted, logs, lastApplied, saved, gen, alive, app, test, setup>>

----------------------------------------------------------------------------
(* The test: crash1, start1, and one with nCommitted. *)

Idle == test.pc \in {"idle", "returned"}

crash1(i) ==
  /\ ~failed
  /\ Idle
  /\ i \in alive
  /\ gen[i] < setup.starts[i]
  /\ alive' = alive \ {i}
  /\ UNCHANGED <<raftlog, submitted, logs, lastApplied, saved, gen, app, test, failed, setup>>

start1(i) ==
  /\ ~failed
  /\ Idle
  /\ i \notin alive /\ saved[i].kind # "bad"
  /\ alive' = alive \cup {i}
  /\ gen' = [gen EXCEPT ![i] = @ + 1]
  /\ IF saved[i] # NoSnap THEN ingestSnap(i, saved[i])
     ELSE lastApplied' = [lastApplied EXCEPT ![i] = 0] /\ UNCHANGED logs
  /\ app' = [app EXCEPT ![i][gen'[i]] = Running(saved[i].index + 1)]
  /\ UNCHANGED <<raftlog, submitted, saved, test, failed, setup>>

(* start1 of a server whose snapshot does not decode. *)
StartFails(i) ==
  /\ ~failed
  /\ Idle
  /\ i \notin alive /\ saved[i].kind = "bad"
  /\ failed' = TRUE
  /\ UNCHANGED <<raftlog, submitted, logs, lastApplied, saved, gen, alive, app, test, setup>>

(* one: some server takes the command and says at which index; it may end  *)
(* up elsewhere in the log, or nowhere.  A faulty Raft forgets it.         *)
one(c) ==
  /\ ~failed
  /\ Idle
  /\ setup.asks
  /\ alive # {}
  /\ Len(raftlog) < setup.indices
  /\ submitted' = IF setup.correct THEN submitted \cup {c} ELSE submitted
  /\ \E k \in IF setup.correct THEN {Len(raftlog) + 1} ELSE 1 .. setup.indices :
       test' = [NoTest EXCEPT !.pc = "count", !.cmd = c, !.index = k]
  /\ UNCHANGED <<raftlog, logs, lastApplied, saved, gen, alive, app, failed, setup>>

(* nCommitted takes the lock for one server at a time. *)
nCommitted ==
  LET v == logs[test.at][test.index] IN
  /\ ~failed
  /\ test.pc = "count" /\ test.at <= N
  /\ IF v # None /\ test.count > 0 /\ v # test.cmd1
     THEN failed' = TRUE /\ UNCHANGED test
     ELSE /\ test' = [test EXCEPT !.at = @ + 1,
                                  !.count = IF v # None THEN @ + 1 ELSE @,
                                  !.cmd1 = IF v # None THEN v ELSE @]
          /\ UNCHANGED failed
  /\ UNCHANGED <<raftlog, submitted, logs, lastApplied, saved, gen, alive, app, setup>>

WrongCommitted == test.count >= expectedServers
Committed == test.count > 0 /\ test.count >= expectedServers /\ test.cmd1 = test.cmd

(* Agreement, or another look, or (the time is up) the end of the test. *)
Decide ==
  /\ ~failed
  /\ test.pc = "count" /\ test.at = N + 1
  /\ test' = IF Committed THEN [test EXCEPT !.pc = "returned"]
             ELSE [test EXCEPT !.at = 1, !.count = 0, !.cmd1 = None]
  /\ UNCHANGED <<raftlog, submitted, logs, lastApplied, saved, gen, alive, app, failed, setup>>

GiveUp ==
  /\ ~failed
  /\ test.pc = "count" /\ test.at = 1
  /\ test' = [NoTest EXCEPT !.pc = "gaveup"]
  /\ failed' = TRUE
  /\ UNCHANGED <<raftlog, submitted, logs, lastApplied, saved, gen, alive, app, setup>>

----------------------------------------------------------------------------
Next ==
  \/ Commit \/ nCommitted \/ Decide \/ GiveUp
  \/ \E i \in Servers : Offer(i) \/ Persist(i) \/ crash1(i) \/ start1(i) \/ StartFails(i)
  \/ \E i \in Servers, g \in Gens :
       \/ Receive(i, g) \/ checkLogs(i, g) \/ Mark(i, g) \/ Fatal(i, g)
       \/ SkipSnap(i, g) \/ InstallSnap(i, g) \/ MismatchedSnap(i, g) \/ BadSnap(i, g)
  \/ \E c \in Cmds : one(c)

Spec == Init /\ [][Next]_vars

----------------------------------------------------------------------------
Alarm == failed \/ \E i \in Servers, g \in Gens : app[i][g].err

(* "some server has already committed a different value for this entry!":  *)
(* unless an error was reported, no two logs hold different commands at an *)
(* index, and none has left an index out, whatever commands Raft applies.  *)
(* This is about what the logs hold now: a server restarted from its       *)
(* snapshot has forgotten what came later, and until it applies that again *)
(* what others apply there is not compared with it.  A forged snapshot     *)
(* replaces a log without being compared with any: of such a Raft only     *)
(* the gaps are reported.                                                  *)
Agree ==
  \A k \in Index, i, j \in Servers : {logs[i][k], logs[j][k]} \subseteq Cmds => logs[i][k] = logs[j][k]
NoGap == \A i \in Servers, k \in Index : k > 1 /\ logs[i][k] # None => logs[i][k - 1] # None
DisagreementReported == Alarm \/ (NoGap /\ (~setup.forges => Agree))

(* one returns an index only when expectedServers servers have applied the *)
(* command there, although it looks at them one at a time; and they still  *)
(* have it, or an error was reported.  (A server that restarts from its    *)
(* snapshot forgets what came after it until that is applied again; one    *)
(* that installs a forged snapshot may lose anything.)                     *)
RestartsFromSnapshot == setup.snapshot /\ \E i \in Servers : setup.starts[i] > 0
OneIsCommitted ==
  test.pc = "returned" /\ ~RestartsFromSnapshot /\ ~setup.forges =>
    \/ Cardinality({i \in Servers : logs[i][test.index] = test.cmd}) >= expectedServers
    \/ Alarm

(* The appliers and nCommitted report nothing when Raft is correct,        *)
(* however they interleave, servers restart or snapshots replace logs: the *)
(* one way such a test fails is that one gives up waiting.  Not for        *)
(* restarts and snapshots at once: the applier of a killed instance shares *)
(* lastApplied with the next one's and may move it back, and a correct     *)
(* Raft then does fail.                                                    *)
NoFalseAlarm ==
  setup.correct /\ ~RestartsFromSnapshot =>
    /\ \A i \in Servers, g \in Gens : ~app[i][g].err
    /\ failed => test.pc = "gaveup"
=============================================================================
