----------------------------- MODULE MCCloudJob -----------------------------
(* A small instance of CloudJob: tidy workers on a server that holds the   *)
(* files of an earlier job; both faults on one that holds none; a worker   *)
(* without tmp; a server as it is shipped, without root/tmp; and one       *)
(* without the inputs.                                                     *)
EXTENDS CloudJob

CONSTANTS w1, w2

MCPid == [w \in Workers |-> IF w = w1 THEN 11 ELSE 12]
TidyTrial == [oldMaps |-> 2, faults |-> {}, rootTmp |-> TRUE, missing |-> {}, bare |-> {}]
NewTrial == [TidyTrial EXCEPT !.oldMaps = 0]
MCTrials == {TidyTrial,
             [NewTrial EXCEPT !.faults = {"late", "cut"}],
             [TidyTrial EXCEPT !.bare = {w2}],
             [NewTrial EXCEPT !.rootTmp = FALSE],
             [NewTrial EXCEPT !.missing = FileNames]}
=============================================================================
