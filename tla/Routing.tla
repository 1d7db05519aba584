------------------------------ MODULE Routing ------------------------------
(***************************************************************************)
(* The two sides of the finger tables.  A lookup meets any fingers, and    *)
(* they may change under it (ChordLookup); fixFingers asks lookups, which  *)
(* may answer anything until the ring has settled (ChordFingers).  Each    *)
(* side admits all the other may do, so a behaviour shows one of them, on  *)
(* a ring of its own.                                                      *)
(***************************************************************************)
EXTENDS ChordLookup

CONSTANTS
  TableNodes, TableMod, TableId, TableSize,    \* the ring of the table
  self,                                        \* the node whose table it is
  Threads,          \* bound: how many runs of fixFingers overlap
  TableChanges      \* bound: how often a node joins or fails

VARIABLES
  side,             \* "lookup" or "table"
  members, settled, tableChanges, next, finger, thread, up

tableVars == <<members, settled, tableChanges, next, finger, thread, up>>

F == INSTANCE ChordFingers WITH
  Nodes <- TableNodes, HashMod <- TableMod, Id <- TableId, fingerTableSize <- TableSize,
  MaxChanges <- TableChanges, changes <- tableChanges

RoutingInit ==
  /\ side \in {"lookup", "table"}
  /\ Init
  /\ F!Init
  /\ side = "table" => key = 0

RoutingNext ==
  \/ side = "lookup" /\ Next /\ UNCHANGED <<side, tableVars>>
  \/ side = "table" /\ F!Next /\ UNCHANGED <<side, vars>>

(* Handlers run, and calls to a node that is down fail; the tickers tick,  *)
(* goroutines run, and stablize settles the ring.                          *)
RoutingSpec ==
  /\ RoutingInit
  /\ [][RoutingNext]_<<side, vars, tableVars>>
  /\ WF_vars(side = "lookup" /\ LookupStep)
  /\ WF_tableVars(side = "table" /\ F!Settle)
  /\ \A t \in Threads : WF_tableVars(side = "table" /\ (F!fixFingers(t) \/ F!Step(t)))

(* F!FingersForm: fixFingers leaves no finger behind, and every finger     *)
(* comes to the successor of its start and stays there.                    *)
FingersForm == side = "table" => F!FingersForm
=============================================================================
