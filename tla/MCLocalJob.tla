----------------------------- MODULE MCLocalJob -----------------------------
(* A small instance of LocalJob; process ids are larger than any reduce   *)
(* task's number, and input files are readable, missing or without a name. *)
EXTENDS LocalJob

CONSTANTS w1, w2

MCPid == [w \in Workers |-> IF w = w1 THEN 11 ELSE 12]
=============================================================================
