---------------------------- MODULE CheckParallel ----------------------------
(***************************************************************************)
(* checkParallel of porcupine (Lab3/src/porcupine/checker.go): one         *)
(* goroutine per partition runs checkSingle and sends its answer; the      *)
(* first failure or the timeout stops the others through kill, and a       *)
(* stopped search answers false.  What checkSingle answers when it is left *)
(* alone is the subject of CheckSingle; here good are the partitions that  *)
(* are linearizable.  The history is not empty, so there is a partition.   *)
(***************************************************************************)
EXTENDS Naturals, Sequences, FiniteSets

CONSTANT NPartitions
ASSUME PartitionAssumption == NPartitions \in Nat \ {0}
Partitions == 1 .. NPartitions

VARIABLES
  good, computeInfo, timeout,      \* the arguments; timeout: whether there is one
  search,                          \* each goroutine: running, its answer, sent
  results,                         \* the channel, with room for all answers
  kill, ok, timedOut, count,
  pc, result

vars == <<good, computeInfo, timeout, search, results, kill, ok, timedOut, count, pc, result>>
args == <<good, computeInfo, timeout>>

TypeOK ==
  /\ good \subseteq Partitions /\ computeInfo \in BOOLEAN /\ timeout \in BOOLEAN
  /\ search \in [Partitions -> {"running", "true", "false", "sent"}]
  /\ results \in Seq(BOOLEAN)
  /\ kill \in BOOLEAN /\ ok \in BOOLEAN /\ timedOut \in BOOLEAN
  /\ count \in Nat /\ count + Len(results) <= NPartitions
  /\ pc \in {"loop", "drain", "over"}
  /\ result \in {"none", "Ok", "Illegal", "Unknown"}

Init ==
  /\ good \in SUBSET Partitions
  /\ computeInfo \in BOOLEAN
  /\ timeout \in BOOLEAN
  /\ search = [i \in Partitions |-> "running"]
  /\ results = << >>
  /\ kill = FALSE /\ ok = TRUE /\ timedOut = FALSE
  /\ count = 0
  /\ pc = "loop"
  /\ result = "none"

----------------------------------------------------------------------------
(* The goroutine of partition i: search, write longest[i], send. *)
checkSingle(i) ==
  /\ search[i] = "running"
  /\ \/ search' = [search EXCEPT ![i] = IF i \in good THEN "true" ELSE "false"]
     \/ kill /\ search' = [search EXCEPT ![i] = "false"]
  /\ UNCHANGED <<args, results, kill, ok, timedOut, count, pc, result>>

Send(i) ==
  /\ search[i] \in {"true", "false"}
  /\ search' = [search EXCEPT ![i] = "sent"]
  /\ results' = Append(results, search[i] = "true")
  /\ UNCHANGED <<args, kill, ok, timedOut, count, pc, result>>

----------------------------------------------------------------------------
Verdict(o, t) == IF ~o THEN "Illegal" ELSE IF t THEN "Unknown" ELSE "Ok"

(* After the loop: without info the verdict, with info the other answers   *)
(* are awaited first.                                                      *)
BreakLoop(o, t) ==
  IF computeInfo THEN pc' = "drain" /\ UNCHANGED result
                 ELSE pc' = "over" /\ result' = Verdict(o, t)

WrongAllCounted(c) == c >= NPartitions - 1
WrongAllCountedLate(c) == c > NPartitions
AllCounted(c) == c >= NPartitions

(* case result := <-results *)
Receive ==
  /\ pc = "loop"
  /\ results # << >>
  /\ results' = Tail(results)
  /\ count' = count + 1
  /\ ok' = (ok /\ Head(results))
  /\ IF ~ok' /\ ~computeInfo THEN kill' = TRUE /\ BreakLoop(ok', timedOut)
     ELSE IF AllCounted(count') THEN UNCHANGED kill /\ BreakLoop(ok', timedOut)
     ELSE UNCHANGED <<kill, pc, result>>
  /\ UNCHANGED <<args, search, timedOut>>

(* case <-timeoutChan *)
TimeOut ==
  /\ pc = "loop"
  /\ timeout
  /\ timedOut' = TRUE
  /\ kill' = TRUE
  /\ BreakLoop(ok, TRUE)
  /\ UNCHANGED <<args, search, results, ok, count>>

(* The answers of goroutines that may have been stopped are not looked at. *)
Drain ==
  /\ pc = "drain"
  /\ \/ /\ count < NPartitions
        /\ results # << >>
        /\ results' = Tail(results)
        /\ count' = count + 1
        /\ UNCHANGED <<pc, result>>
     \/ /\ count >= NPartitions
        /\ result' = Verdict(ok, timedOut)
        /\ pc' = "over"
        /\ UNCHANGED <<results, count>>
  /\ UNCHANGED <<args, search, kill, ok, timedOut>>

Next ==
  \/ \E i \in Partitions : checkSingle(i) \/ Send(i)
  \/ Receive \/ TimeOut \/ Drain

Spec == Init /\ [][Next]_vars

(* Goroutines run; nothing is assumed of the timer. *)
FairSpec ==
  /\ Spec
  /\ WF_vars(Receive \/ Drain)
  /\ \A i \in Partitions : WF_vars(checkSingle(i) \/ Send(i))

----------------------------------------------------------------------------
(* Ok and Illegal are right whichever answers came first and although      *)
(* stopped searches answer false ("if we time out, we might get a false    *)
(* positive").                                                             *)
VerdictSound ==
  /\ result = "Ok" => good = Partitions
  /\ result = "Illegal" => good # Partitions

(* "make sure we've waited for all goroutines to finish, otherwise we      *)
(* might race on access to longest[]".                                     *)
InfoComplete == pc = "over" /\ computeInfo => \A i \in Partitions : search[i] = "sent"

(* The check ends, even if every partition fails or is stopped. *)
CheckEnds == <>(pc = "over")
=============================================================================
