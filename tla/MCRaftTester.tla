---------------------------- MODULE MCRaftTester ----------------------------
(* Two servers and two commands.  A correct Raft whose servers restart, one *)
(* with snapshots, and one with both; a faulty one under either applier,    *)
(* with restarts and without; and one that also forges snapshots: nil ones, *)
(* ones that no server has, and ones shorter than they say.                 *)
EXTENDS RaftTester, TLC

CONSTANTS cmdA, cmdB

Restarts ==
  [snapshot |-> FALSE, correct |-> TRUE, forges |-> FALSE, asks |-> TRUE, starts |-> [i \in Servers |-> 1], indices |-> 2]
Snapshots == [Restarts EXCEPT !.snapshot = TRUE, !.starts = [i \in Servers |-> 0], !.indices = 4]
Both == [Restarts EXCEPT !.snapshot = TRUE]
Faulty == {[Snapshots EXCEPT !.correct = FALSE, !.snapshot = s, !.indices = 2] : s \in BOOLEAN}
Forgets == {[r EXCEPT !.asks = FALSE, !.starts[1] = 1] : r \in Faulty}
Forging == [Snapshots EXCEPT !.correct = FALSE, !.forges = TRUE, !.asks = FALSE, !.indices = 2]
ForgingRestarts == [Forging EXCEPT !.starts[1] = 1, !.indices = 1]
MCSetups == {Restarts, Snapshots, Both, Forging, ForgingRestarts} \cup Faulty \cup Forgets

MCForged ==
  {[kind |-> "bad", index |-> 0, xlog |-> << >>], [kind |-> "good", index |-> 2, xlog |-> <<Null>>]}
    \cup {[kind |-> "good", index |-> 1, xlog |-> <<c>>] : c \in Cmds}
Sym == Permutations(Cmds)
=============================================================================
