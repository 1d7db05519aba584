-------------------------------- MODULE Job --------------------------------
(***************************************************************************)
(* What a MapReduce job promises: every task is finished once, no reduce   *)
(* task before the last map task, and the job is over only when all are.   *)
(* Workers, attempts, timeouts and crashes do not show.                    *)
(***************************************************************************)
CONSTANTS MapTasks, ReduceTasks

VARIABLES done, over

Init == done = {} /\ over = FALSE

Finish(t) ==
  /\ t \notin done
  /\ ~over
  /\ t \in ReduceTasks => MapTasks \subseteq done
  /\ done' = done \cup {t}
  /\ UNCHANGED over

End ==
  /\ done = MapTasks \cup ReduceTasks
  /\ over' = TRUE
  /\ UNCHANGED done

Next == End \/ \E t \in MapTasks \cup ReduceTasks : Finish(t)

Spec == Init /\ [][Next]_<<done, over>>
=============================================================================
