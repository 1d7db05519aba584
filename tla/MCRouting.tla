----------------------------- MODULE MCRouting -----------------------------
(* Lookups: three nodes on a ring of six identifiers, one finger each      *)
(* (pointing to its own node, as initFingerTable leaves it), with the      *)
(* successors that stablize arrives at.  Table: four nodes on a ring of    *)
(* 16.  The fingers of t12 start at 13, 14, 0 and 4: three share a         *)
(* successor, one of them starting at its identifier.                      *)
EXTENDS Routing

CONSTANTS n1, n2, n3, t0, t3, t8, t12

MCId == [n \in Nodes |-> IF n = n1 THEN 0 ELSE IF n = n2 THEN 2 ELSE 5]
Ring == [n \in Nodes |-> IF n = n1 THEN n2 ELSE IF n = n2 THEN n3 ELSE n1]
MCPtr == {[n \in Nodes |-> [i \in Slots |-> IF i = 0 THEN Ring[n] ELSE n]]}

MCTableId == [n \in TableNodes |-> IF n = t0 THEN 0 ELSE IF n = t3 THEN 3 ELSE IF n = t8 THEN 8 ELSE 12]
=============================================================================
