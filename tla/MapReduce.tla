----------------------------- MODULE MapReduce -----------------------------
(***************************************************************************)
(* The MapReduce coordinator (mr/coordinator.go), its main loop            *)
(* (main/mrcoordinator.go) and the request loop of the workers             *)
(* (mr/worker.go), down to the critical sections of the coordinator's      *)
(* mutex.  What a worker does between receiving a task and reporting it is *)
(* one step here; LocalJob refines it to the files it touches.             *)
(*                                                                         *)
(* RequestTask takes the mutex twice: selectTask marks a task InProgress   *)
(* and releases it; RequestTask takes it again to write WorkerId and to    *)
(* start the timer.  handler[w] is the goroutine between the two.          *)
(***************************************************************************)
EXTENDS Integers, FiniteSets

CONSTANTS
  Workers,      \* worker processes
  Pid,          \* os.Getpid() of each; processes on two hosts may share one
  NMap,         \* number of input files
  NReduce,      \* number of reduce tasks
  FileNames,    \* what an input file argument can be, "" included
  Position,     \* command line argument of both programs: "cloud" or "local"
  Location      \* the package variable location of worker.go

ASSUME PidAssumption == Pid \in [Workers -> Nat]
ASSUME SizeAssumption == NMap \in Nat /\ NReduce \in Nat \ {0}
ASSUME FileAssumption == FileNames \subseteq STRING

VARIABLES
  tasks,            \* c.mapTasks and c.reduceTasks: Status, WorkerId, File
  nMapCompleted,
  nReduceCompleted,
  timers,           \* number of waitForTask goroutines sleeping on each task
  handler,          \* the task a RequestTask goroutine holds between its locks
  main,             \* the coordinator's main goroutine
  pc,               \* where each worker is in its loop
  working           \* the task each worker was given

coordVars == <<tasks, nMapCompleted, nReduceCompleted, timers, handler, main>>
vars == <<coordVars, pc, working>>

MapTasks == [Type : {"MapTask"}, Index : 0 .. NMap - 1]
ReduceTasks == [Type : {"ReduceTask"}, Index : 0 .. NReduce - 1]
Tasks == MapTasks \cup ReduceTasks
NoTask == [Type |-> "NoTask", Index |-> -1]
ExitTask == [Type |-> "ExitTask", Index |-> -1]
Nothing == [Type |-> "Nothing", Index |-> -1]
NoWorker == -1

(* Definitions marked Wrong are faulty variants of the definition that     *)
(* follows them; they show that the properties below can fail.             *)

StatusIs(t, s) == tasks[t].Status = s
Completed(S) == {t \in S : StatusIs(t, "Completed")}
WrongCountersFull == nMapCompleted = NMap
CountersFull == nMapCompleted = NMap /\ nReduceCompleted = NReduce

TypeOK ==
  /\ tasks \in [Tasks -> [Status : {"NotStarted", "InProgress", "Completed"},
                          WorkerId : Nat \cup {NoWorker},
                          File : FileNames \cup {""}]]
  /\ nMapCompleted \in Nat
  /\ nReduceCompleted \in Nat
  /\ timers \in [Tasks -> Nat]
  /\ handler \in [Workers -> Tasks \cup {NoTask, ExitTask, Nothing}]
  /\ main \in {"polling", "done", "exited"}
  /\ pc \in [Workers -> {"start", "idle", "requesting", "working",
                         "exited", "fatal", "crashed"}]
  /\ working \in [Workers -> Tasks \cup {Nothing}]

(* MakeCoordinator, up to c.server(). *)
Init ==
  /\ \E file \in [MapTasks -> FileNames] :
       tasks = [t \in Tasks |->
                 [Status |-> "NotStarted", WorkerId |-> NoWorker,
                  File |-> IF t \in MapTasks THEN file[t] ELSE ""]]
  /\ nMapCompleted = 0
  /\ nReduceCompleted = 0
  /\ timers = [t \in Tasks |-> 0]
  /\ handler = [w \in Workers |-> Nothing]
  /\ main = "polling"
  /\ pc = [w \in Workers |-> "start"]
  /\ working = [w \in Workers |-> Nothing]

----------------------------------------------------------------------------
(* call: the worker dials the coordinator for every RPC.  server() listens *)
(* on TCP only in the cloud; call() dials TCP whenever location is "cloud".*)

Listens == IF Position = "cloud" THEN "tcp" ELSE "unix"
Dials == IF Location # "cloud" THEN "unix" ELSE "tcp"
Dialled == main # "exited" /\ Listens = Dials

MoveTo(w, l) == pc' = [pc EXCEPT ![w] = l]

(* log.Fatal in call: whichever RPC the worker was about to make. *)
DialFails(w) ==
  /\ pc[w] \in {"start", "idle", "working"}
  /\ ~Dialled
  /\ MoveTo(w, "fatal")
  /\ UNCHANGED <<coordVars, working>>

GetNReduce(w) ==
  /\ pc[w] = "start"
  /\ Dialled
  /\ MoveTo(w, "idle")
  /\ UNCHANGED <<coordVars, working>>

----------------------------------------------------------------------------
(* selectTask, the first critical section of RequestTask. *)

FirstNotStarted(t, S) ==
  /\ t \in S
  /\ StatusIs(t, "NotStarted")
  /\ \A u \in S : StatusIs(u, "NotStarted") => t.Index <= u.Index

WrongSelectable(t) ==
  \/ FirstNotStarted(t, MapTasks)
  \/ /\ \A u \in MapTasks : ~StatusIs(u, "NotStarted")
     /\ FirstNotStarted(t, ReduceTasks)

Selectable(t) ==
  \/ FirstNotStarted(t, MapTasks)
  \/ /\ \A u \in MapTasks : ~StatusIs(u, "NotStarted")
     /\ nMapCompleted = NMap
     /\ FirstNotStarted(t, ReduceTasks)

selectTask(w) ==
  \/ \E t \in Tasks :
       /\ Selectable(t)
       /\ tasks' = [tasks EXCEPT ![t].Status = "InProgress"]
       /\ handler' = [handler EXCEPT ![w] = t]
  \/ /\ \A t \in Tasks : ~Selectable(t)
     /\ handler' = [handler EXCEPT ![w] = IF CountersFull THEN ExitTask ELSE NoTask]
     /\ UNCHANGED tasks

RequestTask(w) ==
  /\ pc[w] = "idle"
  /\ Dialled
  /\ selectTask(w)
  /\ MoveTo(w, "requesting")
  /\ UNCHANGED <<nMapCompleted, nReduceCompleted, timers, main, working>>

(* The rest of RequestTask, under the mutex again; a worker that is still  *)
(* alive takes the reply.  A map task without a file name is dropped.      *)
TakeReply(w) ==
  LET t == handler[w]
      skip == t = NoTask \/ (t \in MapTasks /\ tasks[t].File = "")
  IN  IF pc[w] # "requesting"
      THEN UNCHANGED <<pc, working>>
      ELSE /\ MoveTo(w, IF t = ExitTask THEN "exited"
                        ELSE IF skip THEN "idle" ELSE "working")
           /\ working' = [working EXCEPT ![w] =
                            IF t \in Tasks /\ ~skip THEN t ELSE Nothing]

WrongTimed(t) == t \in MapTasks
Timed(t) == t \in MapTasks \/ t \in ReduceTasks

DispatchTask(w) ==
  /\ main # "exited"
  /\ handler[w] # Nothing
  /\ tasks' = IF handler[w] \in Tasks
              THEN [tasks EXCEPT ![handler[w]].WorkerId = Pid[w]]
              ELSE tasks
  /\ timers' = IF Timed(handler[w])
               THEN [timers EXCEPT ![handler[w]] = @ + 1]
               ELSE timers
  /\ handler' = [handler EXCEPT ![w] = Nothing]
  /\ TakeReply(w)
  /\ UNCHANGED <<nMapCompleted, nReduceCompleted, main>>

(* The coordinator is gone with the call in flight: requestTask is not ok. *)
RequestBroken(w) ==
  /\ main = "exited"
  /\ pc[w] = "requesting"
  /\ MoveTo(w, "exited")
  /\ UNCHANGED <<coordVars, working>>

----------------------------------------------------------------------------
WrongAccepts(w, t) == tasks[t].WorkerId = Pid[w]
Accepts(w, t) == StatusIs(t, "InProgress") /\ tasks[t].WorkerId = Pid[w]

Counted(t, S) == IF t \in S THEN 1 ELSE 0

CompleteTask(w) ==
  /\ pc[w] = "working"
  /\ Dialled
  /\ LET t == working[w] IN
       IF Accepts(w, t)
       THEN /\ tasks' = [tasks EXCEPT ![t].Status = "Completed"]
            /\ nMapCompleted' = nMapCompleted + Counted(t, MapTasks)
            /\ nReduceCompleted' = nReduceCompleted + Counted(t, ReduceTasks)
       ELSE UNCHANGED <<tasks, nMapCompleted, nReduceCompleted>>
  /\ MoveTo(w, IF CountersFull' THEN "exited" ELSE "idle")
  /\ working' = [working EXCEPT ![w] = Nothing]
  /\ UNCHANGED <<timers, handler, main>>

WrongTimedOut(t) == ~StatusIs(t, "NotStarted")
TimedOut(t) == StatusIs(t, "InProgress")

WrongRelease(task) == [task EXCEPT !.Status = "NotStarted"]
Release(task) == [task EXCEPT !.Status = "NotStarted", !.WorkerId = NoWorker]

(* TaskTimeout seconds after the dispatch; there is no clock, so any time. *)
waitForTask(t) ==
  /\ main # "exited"
  /\ timers[t] > 0
  /\ timers' = [timers EXCEPT ![t] = @ - 1]
  /\ tasks' = IF TimedOut(t) THEN [tasks EXCEPT ![t] = Release(@)] ELSE tasks
  /\ UNCHANGED <<nMapCompleted, nReduceCompleted, handler, main, pc, working>>

(* The loop of main/mrcoordinator.go: Done, a second's sleep, exit.  In    *)
(* the cloud Done downloads the result, and log.Fatal if that fails.       *)
Done ==
  /\ main = "polling"
  /\ CountersFull
  /\ main' \in {"done"} \cup (IF Position = "cloud" THEN {"exited"} ELSE {})
  /\ UNCHANGED <<tasks, nMapCompleted, nReduceCompleted, timers, handler, pc, working>>

Exit ==
  /\ main = "done"
  /\ main' = "exited"
  /\ UNCHANGED <<tasks, nMapCompleted, nReduceCompleted, timers, handler, pc, working>>

(* A worker process dies, of a panic or of log.Fatal on a failure of the   *)
(* file server included; a handler it started goes on.                     *)
Crash(w) ==
  /\ pc[w] \notin {"exited", "fatal", "crashed"}
  /\ MoveTo(w, "crashed")
  /\ UNCHANGED <<coordVars, working>>

WorkerStep(w) ==
  \/ GetNReduce(w)
  \/ RequestTask(w)
  \/ RequestBroken(w)
  \/ CompleteTask(w)
  \/ DialFails(w)

Next ==
  \/ \E w \in Workers : WorkerStep(w) \/ DispatchTask(w) \/ Crash(w)
  \/ \E t \in Tasks : waitForTask(t)
  \/ Done
  \/ Exit

Spec == Init /\ [][Next]_vars

----------------------------------------------------------------------------
(* Properties *)

(* selectTask and Done compare nMapCompleted and nReduceCompleted with the *)
(* sizes of the job instead of looking at the tasks: each counter is the   *)
(* number of its tasks that are Completed, whatever timeouts, retries and  *)
(* late reports did.                                                       *)
CountersExact ==
  /\ nMapCompleted = Cardinality(Completed(MapTasks))
  /\ nReduceCompleted = Cardinality(Completed(ReduceTasks))

(* waitForTask carries no attempt number: a timer left from an earlier     *)
(* attempt would reset a later one.  A task nobody works on has no timer   *)
(* and no handler; a task InProgress has one timer, or one handler that is *)
(* about to start it and no owner yet whose report could be accepted.      *)
Pending(t) == {w \in Workers : handler[w] = t}
OneTimerPerAttempt ==
  \A t \in Tasks :
    /\ StatusIs(t, "NotStarted") =>
         timers[t] = 0 /\ Pending(t) = {} /\ tasks[t].WorkerId = NoWorker
    /\ StatusIs(t, "InProgress") =>
         \/ timers[t] = 1 /\ Pending(t) = {}
         \/ /\ timers[t] = 0
            /\ tasks[t].WorkerId = NoWorker
            /\ \E w \in Workers : Pending(t) = {w}
    /\ StatusIs(t, "Completed") => timers[t] <= 1 /\ Pending(t) = {}

(* selectTask hands out reduce tasks only after every map task: no reduce  *)
(* task is started, held by a handler or by a worker, even one that was    *)
(* given up long ago, while a map task is not Completed.                   *)
ReduceAfterMaps ==
  (\E t \in ReduceTasks : \/ ~StatusIs(t, "NotStarted")
                          \/ Pending(t) # {}
                          \/ \E w \in Workers : working[w] = t)
    => Completed(MapTasks) = MapTasks

(* test-mr.sh: workers exit when the job is completely finished, and not   *)
(* before.  A worker leaves its loop (ExitTask, CanExit, a call that is    *)
(* not ok, log.Fatal in call) only when every task is Completed.           *)
LeaveOnlyWhenFinished ==
  (\E w \in Workers : pc[w] \in {"exited", "fatal"})
    => Completed(Tasks) = Tasks

(* A Completed task stays Completed and keeps the worker whose report was  *)
(* accepted: neither its timer nor a handler that selected it earlier      *)
(* touches it again.                                                       *)
CompletedIsFinal ==
  [][\A t \in Tasks : StatusIs(t, "Completed") => tasks'[t] = tasks[t]]_vars

(* The coordinator implements Job: Done answers true only at the end, and  *)
(* what CompleteTask accepts finishes each task once, maps before reduces. *)
AbstractJob == INSTANCE Job WITH done <- Completed(Tasks), over <- main # "polling"
ImplementsJob == AbstractJob!Spec

----------------------------------------------------------------------------
(* Liveness.  The goroutines and processes run when they can; a worker     *)
(* that is alive eventually stops losing to its own timer, which the code  *)
(* presumes when it sets TaskTimeout to ten seconds.                       *)
PrematureTimeout ==
  \E t \in Tasks :
    /\ waitForTask(t)
    /\ StatusIs(t, "InProgress")
    /\ \E w \in Workers : pc[w] = "working" /\ working[w] = t /\ Accepts(w, t)

Fairness ==
  /\ \A w \in Workers : WF_vars(WorkerStep(w)) /\ WF_vars(DispatchTask(w))
  /\ \A t \in Tasks : WF_vars(waitForTask(t))
  /\ WF_vars(Done)
  /\ WF_vars(Exit)
  /\ <>[][~PrematureTimeout]_vars

FairSpec == Spec /\ Fairness

(* The job ends: the coordinator exits and every worker leaves or crashes, *)
(* unless all workers crash, whichever tasks were lost with a worker.      *)
JobEnds ==
  \/ <>[](main = "exited" /\ \A w \in Workers : pc[w] \in {"exited", "fatal", "crashed"})
  \/ <>[](\A w \in Workers : pc[w] = "crashed")
=============================================================================
