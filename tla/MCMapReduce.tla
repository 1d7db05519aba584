---------------------------- MODULE MCMapReduce ----------------------------
(* Small instances of MapReduce: the workers are the values w1, w2, w3;    *)
(* the last two run on different hosts and have the same process id.       *)
EXTENDS MapReduce

CONSTANTS w1, w2, w3

MCPid == [w \in Workers |-> IF w = w1 THEN 11 ELSE 12]
=============================================================================
