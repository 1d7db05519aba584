------------------------- MODULE CheckParallelProofs -------------------------
(***************************************************************************)
(* Proofs about CheckParallel, for every number of partitions.             *)
(***************************************************************************)
EXTENDS CheckParallel, FiniteSetTheorems, TLAPS

Sent == {i \in Partitions : search[i] = "sent"}

(* Every answer sent is counted or in the channel. *)
CountInv == count + Len(results) = Cardinality(Sent)

(* While the loop runs nothing was stopped: answers are right, a failure   *)
(* that was sent is in the channel or in ok, and a failure seen is one.    *)
LoopInv ==
  pc = "loop" =>
    /\ ~kill /\ ~timedOut
    /\ \A i \in Partitions : (search[i] = "true" => i \in good) /\ (search[i] = "false" => i \notin good)
    /\ Sent \subseteq good \/ ~ok \/ (\E k \in DOMAIN results : ~results[k])
    /\ (\E k \in DOMAIN results : ~results[k]) => good # Partitions

(* What ok and timedOut say does not change after the loop. *)
OkInv ==
  /\ ~ok => good # Partitions
  /\ pc # "loop" /\ ok /\ ~timedOut => good = Partitions
  /\ result # "none" => result = Verdict(ok, timedOut) /\ pc = "over"

OverInv == pc = "over" /\ computeInfo => count = NPartitions

IInv == TypeOK /\ CountInv /\ LoopInv /\ OkInv /\ OverInv

----------------------------------------------------------------------------
LEMMA PartitionsFinite == IsFiniteSet(Partitions) /\ Cardinality(Partitions) = NPartitions
  BY PartitionAssumption, FS_Interval DEF Partitions

LEMMA AllSent ==
  ASSUME CountInv, count = NPartitions, results \in Seq(BOOLEAN), Len(results) = 0
  PROVE  Sent = Partitions
<1>1. Sent \in SUBSET Partitions
  BY DEF Sent
<1>2. Cardinality(Sent) = Cardinality(Partitions)
  BY PartitionsFinite, PartitionAssumption DEF CountInv
<1> QED
  BY <1>1, <1>2, PartitionsFinite, FS_Subset

(* Tail and Append of the channel. *)
LEMMA TailFacts ==
  ASSUME NEW r \in Seq(BOOLEAN), r # << >>
  PROVE  /\ Tail(r) \in Seq(BOOLEAN) /\ Len(r) \in Nat \ {0} /\ Len(Tail(r)) = Len(r) - 1
         /\ \A k \in DOMAIN Tail(r) : k + 1 \in DOMAIN r /\ Tail(r)[k] = r[k + 1]
         /\ \A k \in DOMAIN r : k = 1 \/ (k - 1 \in DOMAIN Tail(r) /\ Tail(r)[k - 1] = r[k])
         /\ Head(r) = r[1] /\ 1 \in DOMAIN r
  OBVIOUS

LEMMA InitInv == Init => IInv
<1> SUFFICES ASSUME Init PROVE IInv
  OBVIOUS
<1>1. Sent = {} /\ Cardinality({}) = 0
  BY FS_EmptySet DEF Sent, Init
<1>2. results \in Seq(BOOLEAN) /\ Len(results) = 0 /\ count = 0
  BY DEF Init
<1>3. TypeOK
  <2>1. good \subseteq Partitions
    BY DEF Init
  <2>2. count + Len(results) <= NPartitions
    BY <1>2, PartitionAssumption
  <2>3. computeInfo \in BOOLEAN /\ timeout \in BOOLEAN
    BY DEF Init
  <2>4. kill \in BOOLEAN /\ ok \in BOOLEAN /\ timedOut \in BOOLEAN
    BY ZenonT(60) DEF Init
  <2>5. /\ search \in [Partitions -> {"running", "true", "false", "sent"}] /\ count \in Nat
        /\ pc \in {"loop", "drain", "over"} /\ result \in {"none", "Ok", "Illegal", "Unknown"}
    BY DEF Init
  <2> QED
    BY <1>2, <2>1, <2>2, <2>3, <2>4, <2>5 DEF TypeOK
<1>4. CountInv
  BY <1>1, <1>2 DEF CountInv
<1>5. LoopInv /\ OkInv /\ OverInv
  BY <1>1 DEF Init, LoopInv, OkInv, OverInv
<1> QED
  BY <1>3, <1>4, <1>5 DEF IInv

LEMMA SingleStep ==
  ASSUME IInv, NEW i \in Partitions, checkSingle(i)
  PROVE  IInv'
<1> USE DEF IInv
<1>1. TypeOK'
  BY DEF TypeOK, checkSingle, args
<1>2. Sent' = Sent
  BY DEF Sent, checkSingle, TypeOK
<1>3. UNCHANGED <<good, computeInfo, results, kill, ok, timedOut, count, pc, result>>
  BY DEF checkSingle, args
<1>4. pc = "loop" => \A j \in Partitions : (search'[j] = "true" => j \in good)
                                            /\ (search'[j] = "false" => j \notin good)
  BY DEF checkSingle, TypeOK, LoopInv
<1> QED
  BY <1>1, <1>2, <1>3, <1>4 DEF CountInv, LoopInv, OkInv, OverInv

LEMMA SendStep ==
  ASSUME IInv, NEW i \in Partitions, Send(i)
  PROVE  IInv'
<1> USE DEF IInv
<1>1. UNCHANGED <<good, computeInfo, timeout, kill, ok, timedOut, count, pc, result>>
  BY DEF Send, args
<1>2. Sent' = Sent \cup {i} /\ i \notin Sent
  BY DEF Sent, Send, TypeOK
<1>3. IsFiniteSet(Sent) /\ IsFiniteSet(Sent') /\ Sent' \in SUBSET Partitions
  <2>1. Sent \in SUBSET Partitions /\ Sent' \in SUBSET Partitions
    BY DEF Sent
  <2> QED
    BY <2>1, PartitionsFinite, FS_Subset
<1>4. Cardinality(Sent') = Cardinality(Sent) + 1 /\ Cardinality(Sent') <= NPartitions
  BY <1>2, <1>3, FS_AddElement, FS_Subset, PartitionsFinite
<1>5. PICK v \in BOOLEAN : v = (search[i] = "true")
  OBVIOUS
<1>6. results' = Append(results, v) /\ results' \in Seq(BOOLEAN)
  BY <1>5 DEF Send, TypeOK
<1>7. Len(results') = Len(results) + 1 /\ Len(results) \in Nat
  BY <1>6 DEF TypeOK
<1>8. CountInv'
  BY <1>1, <1>4, <1>7 DEF CountInv, TypeOK
<1>9. TypeOK'
  <2>1. search' \in [Partitions -> {"running", "true", "false", "sent"}]
    BY DEF Send, TypeOK
  <2>2. count + Len(results') <= NPartitions
    BY <1>1, <1>4, <1>8 DEF CountInv
  <2> QED
    BY <1>1, <1>6, <2>1, <2>2 DEF TypeOK
<1>10. /\ \A k \in DOMAIN results : k \in DOMAIN results' /\ results'[k] = results[k]
       /\ \A k \in DOMAIN results' : k \in DOMAIN results \/ results'[k] = v
       /\ Len(results') \in DOMAIN results' /\ results'[Len(results')] = v
       /\ \A k \in DOMAIN results' : results'[k] = v \/ (k \in DOMAIN results /\ results'[k] = results[k])
  BY <1>6, <1>7 DEF TypeOK
<1>11. LoopInv'
  <2> SUFFICES ASSUME pc = "loop"
               PROVE  /\ ~kill /\ ~timedOut
                      /\ \A j \in Partitions : (search'[j] = "true" => j \in good)
                                                /\ (search'[j] = "false" => j \notin good)
                      /\ Sent' \subseteq good \/ ~ok \/ (\E k \in DOMAIN results' : ~results'[k])
                      /\ (\E k \in DOMAIN results' : ~results'[k]) => good # Partitions
    BY <1>1 DEF LoopInv
  <2>1. \A j \in Partitions : (search'[j] = "true" => j \in good) /\ (search'[j] = "false" => j \notin good)
    BY DEF Send, TypeOK, LoopInv
  <2>2. v <=> i \in good
    BY <1>5 DEF Send, LoopInv
  <2>3. Sent' \subseteq good \/ ~ok \/ (\E k \in DOMAIN results' : ~results'[k])
    BY <1>2, <1>10, <2>2 DEF LoopInv
  <2>4. (\E k \in DOMAIN results' : ~results'[k]) => good # Partitions
    BY <1>10, <2>2 DEF LoopInv
  <2> QED
    BY <2>1, <2>3, <2>4 DEF LoopInv
<1> QED
  BY <1>1, <1>8, <1>9, <1>11 DEF OkInv, OverInv

(* An answer is taken from the channel. *)
LEMMA TakeFacts ==
  ASSUME IInv, results # << >>, results' = Tail(results), count' = count + 1, UNCHANGED search
  PROVE  /\ results' \in Seq(BOOLEAN) /\ count' \in Nat /\ count' + Len(results') <= NPartitions
         /\ CountInv' /\ Sent' = Sent
<1> USE DEF IInv
<1>1. /\ Tail(results) \in Seq(BOOLEAN) /\ Len(results) \in Nat \ {0}
      /\ Len(Tail(results)) = Len(results) - 1
  BY TailFacts DEF TypeOK
<1>2. Sent' = Sent
  BY DEF Sent
<1> QED
  BY <1>1, <1>2, PartitionAssumption DEF CountInv, TypeOK

LEMMA ReceiveStep ==
  ASSUME IInv, Receive
  PROVE  IInv'
<1> USE DEF IInv
<1>1. /\ pc = "loop" /\ results # << >> /\ results' = Tail(results) /\ count' = count + 1
      /\ UNCHANGED <<search, good, computeInfo, timeout, timedOut>>
      /\ ~kill /\ ~timedOut
  BY DEF Receive, args, LoopInv
<1>2. /\ results' \in Seq(BOOLEAN) /\ count' \in Nat /\ count' + Len(results') <= NPartitions
      /\ CountInv' /\ Sent' = Sent
  BY <1>1, TakeFacts
<1>3. PICK v \in BOOLEAN : v = results[1] /\ v = Head(results) /\ 1 \in DOMAIN results
  BY <1>1, TailFacts DEF TypeOK
<1>4. ok' \in BOOLEAN /\ (ok' <=> ok /\ v)
  BY <1>3 DEF Receive, TypeOK
<1>5. ~ok' => good # Partitions
  BY <1>1, <1>3, <1>4 DEF LoopInv, OkInv
<1>6. Sent \subseteq good \/ ~ok' \/ (\E k \in DOMAIN results' : ~results'[k])
  <2>1. Sent \subseteq good \/ ~ok \/ (\E k \in DOMAIN results : ~results[k])
    BY <1>1, ZenonT(60) DEF LoopInv
  <2>2. ASSUME NEW k \in DOMAIN results, ~results[k]
        PROVE  ~ok' \/ (\E j \in DOMAIN results' : ~results'[j])
    <3>1. k = 1 \/ (k - 1 \in DOMAIN results' /\ results'[k - 1] = results[k])
      <4>1. results \in Seq(BOOLEAN)
        BY DEF TypeOK
      <4> QED
        BY <1>1, <4>1, TailFacts, ZenonT(60)
    <3> QED
      BY <1>3, <1>4, <2>2, <3>1, ZenonT(60)
  <2> QED
    BY <1>4, <2>1, <2>2, ZenonT(60)
<1>7. (\E k \in DOMAIN results' : ~results'[k]) => good # Partitions
  <2>1. results \in Seq(BOOLEAN)
    BY DEF TypeOK
  <2>2. (\E k \in DOMAIN results' : ~results'[k]) => \E k \in DOMAIN results : ~results[k]
    BY <1>1, <2>1, TailFacts, ZenonT(60)
  <2> QED
    BY <1>1, <2>2, ZenonT(60) DEF LoopInv
<1>8. ok' /\ count' >= NPartitions => good = Partitions
  <2> SUFFICES ASSUME ok', count' >= NPartitions PROVE good = Partitions
    OBVIOUS
  <2>1. count' = NPartitions /\ Len(results') = 0
    BY <1>2, PartitionAssumption
  <2>2. Sent' = Partitions
    <3>1. Cardinality(Sent') = NPartitions
      BY <2>1, <1>2, PartitionAssumption DEF CountInv
    <3>2. Sent' \in SUBSET Partitions
      BY DEF Sent
    <3> QED
      BY <3>1, <3>2, PartitionsFinite, FS_Subset
  <2>3. DOMAIN results' = {}
    BY <2>1, <1>2
  <2> QED
    BY <1>2, <1>6, <2>2, <2>3 DEF TypeOK
<1>9. TypeOK'
  <2>1. kill' \in BOOLEAN /\ pc' \in {"loop", "drain", "over"}
        /\ result' \in {"none", "Ok", "Illegal", "Unknown"}
    BY <1>4 DEF Receive, BreakLoop, Verdict, TypeOK
  <2> QED
    BY <1>1, <1>2, <1>4, <2>1 DEF TypeOK
<1>10. result = "none"
  BY <1>1 DEF OkInv
<1>11. CASE ~ok' /\ ~computeInfo
  <2>1. pc' = "over" /\ result' = Verdict(ok', timedOut)
    BY <1>11 DEF Receive, BreakLoop
  <2> QED
    BY <1>1, <1>2, <1>5, <1>9, <1>11, <2>1 DEF LoopInv, OkInv, OverInv
<1>12. CASE ~(~ok' /\ ~computeInfo) /\ count' >= NPartitions
  <2>1. \/ computeInfo /\ pc' = "drain" /\ result' = "none"
        \/ ~computeInfo /\ pc' = "over" /\ result' = Verdict(ok', timedOut)
    BY <1>10, <1>12 DEF Receive, BreakLoop, AllCounted
  <2> QED
    BY <1>1, <1>2, <1>5, <1>8, <1>9, <1>12, <2>1 DEF LoopInv, OkInv, OverInv
<1>13. CASE ~(~ok' /\ ~computeInfo) /\ ~(count' >= NPartitions)
  <2>1. UNCHANGED <<kill, pc, result>>
    BY <1>13 DEF Receive, AllCounted
  <2> QED
    BY <1>1, <1>2, <1>5, <1>6, <1>7, <1>9, <1>10, <2>1 DEF LoopInv, OkInv, OverInv
<1> QED
  BY <1>11, <1>12, <1>13

LEMMA TimeOutStep ==
  ASSUME IInv, TimeOut
  PROVE  IInv'
<1> USE DEF IInv
<1>1. Sent' = Sent
  BY DEF Sent, TimeOut
<1>2. TypeOK'
  BY DEF TimeOut, BreakLoop, Verdict, TypeOK, args
<1> QED
  BY <1>1, <1>2 DEF TimeOut, BreakLoop, args, CountInv, LoopInv, OkInv, OverInv

LEMMA DrainStep ==
  ASSUME IInv, Drain
  PROVE  IInv'
<1> USE DEF IInv
<1>1. UNCHANGED <<search, good, computeInfo, timeout, kill, ok, timedOut>> /\ pc = "drain"
  BY DEF Drain, args
<1>2. CASE count < NPartitions
  <2>1. results # << >> /\ results' = Tail(results) /\ count' = count + 1 /\ UNCHANGED <<pc, result>>
    BY <1>2, PartitionAssumption DEF Drain, TypeOK
  <2> QED
    BY <1>1, <2>1, TakeFacts DEF TypeOK, LoopInv, OkInv, OverInv
<1>3. CASE count >= NPartitions
  <2>1. result' = Verdict(ok, timedOut) /\ pc' = "over" /\ UNCHANGED <<results, count>>
    BY <1>3, PartitionAssumption DEF Drain, TypeOK
  <2>2. count = NPartitions
    BY <1>3, PartitionAssumption DEF TypeOK
  <2>3. Sent' = Sent
    BY <1>1 DEF Sent
  <2> QED
    BY <1>1, <2>1, <2>2, <2>3 DEF Verdict, TypeOK, CountInv, LoopInv, OkInv, OverInv
<1> QED
  BY <1>2, <1>3, PartitionAssumption DEF TypeOK

LEMMA Inductive == Spec => []IInv
<1>1. ASSUME IInv, UNCHANGED vars
      PROVE  IInv'
  BY <1>1 DEF vars, IInv, TypeOK, CountInv, LoopInv, OkInv, OverInv, Sent
<1>2. IInv /\ [Next]_vars => IInv'
  BY <1>1, SingleStep, SendStep, ReceiveStep, TimeOutStep, DrainStep DEF Next
<1> QED
  BY <1>2, InitInv, PTL DEF Spec

----------------------------------------------------------------------------
(* The channel never holds more answers than it has room for, so no        *)
(* goroutine of checkParallel is left blocked on its send.                 *)
THEOREM TypeCorrect == Spec => []TypeOK
<1>1. IInv => TypeOK
  BY DEF IInv
<1> QED
  BY <1>1, Inductive, PTL

(* Ok and Illegal tell the truth about the partitions, for any number of   *)
(* them and any order of answers, stops and timeout.                       *)
THEOREM VerdictCorrect == Spec => []VerdictSound
<1>1. IInv => VerdictSound
  BY DEF IInv, OkInv, Verdict, VerdictSound, TypeOK
<1> QED
  BY <1>1, Inductive, PTL

(* longest[] is read after every goroutine has written its part of it. *)
THEOREM InfoCorrect == Spec => []InfoComplete
<1>1. ASSUME IInv, pc = "over", computeInfo
      PROVE  \A i \in Partitions : search[i] = "sent"
  <2>1. Len(results) = 0 /\ results \in Seq(BOOLEAN) /\ count = NPartitions
    BY <1>1, PartitionAssumption DEF IInv, TypeOK, OverInv
  <2>2. Sent = Partitions
    BY <1>1, <2>1, AllSent DEF IInv
  <2> QED
    BY <2>2 DEF Sent
<1>2. IInv => InfoComplete
  BY <1>1 DEF InfoComplete
<1> QED
  BY <1>2, Inductive, PTL
=============================================================================
