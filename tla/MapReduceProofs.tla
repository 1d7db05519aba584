-------------------------- MODULE MapReduceProofs --------------------------
(***************************************************************************)
(* Proofs about MapReduce for every number of workers, map tasks and       *)
(* reduce tasks, and whichever workers share a process id.                 *)
(***************************************************************************)
EXTENDS MapReduce, FiniteSetTheorems, TLAPS

TaskTable == [Tasks -> [Status : {"NotStarted", "InProgress", "Completed"},
                        WorkerId : Nat \cup {NoWorker},
                        File : FileNames \cup {""}]]

(* What a worker's place in its loop says about its handler and its task. *)
LoopInv ==
  \A w \in Workers :
    /\ pc[w] \in {"start", "idle", "working"} => handler[w] = Nothing
    /\ pc[w] = "working" => working[w] \in Tasks

(* A reduce task is out only after the maps. *)
Barrier ==
  \A t \in ReduceTasks :
    (~StatusIs(t, "NotStarted") \/ \E w \in Workers : working[w] = t)
      => Completed(MapTasks) = MapTasks

(* Who has been told that the job is finished. *)
ExitInv ==
  \/ Completed(Tasks) = Tasks
  \/ /\ main = "polling"
     /\ \A w \in Workers : handler[w] # ExitTask /\ pc[w] # "exited"
     /\ Listens = Dials => \A w \in Workers : pc[w] # "fatal"

IInv ==
  /\ TypeOK
  /\ LoopInv
  /\ CountersExact
  /\ OneTimerPerAttempt
  /\ Barrier
  /\ ExitInv

----------------------------------------------------------------------------
(* The sets of tasks *)

LEMMA TaskSets ==
  /\ IsFiniteSet(MapTasks) /\ Cardinality(MapTasks) = NMap
  /\ IsFiniteSet(ReduceTasks) /\ Cardinality(ReduceTasks) = NReduce
  /\ MapTasks \cap ReduceTasks = {}
  /\ {NoTask, ExitTask, Nothing} \cap Tasks = {}
<1>1. ASSUME NEW name, NEW n \in Nat
      PROVE  LET S == [Type : {name}, Index : 0 .. n - 1]
             IN  IsFiniteSet(S) /\ Cardinality(S) = n
  <2> DEFINE S == [Type : {name}, Index : 0 .. n - 1]
             f == [i \in 0 .. n - 1 |-> [Type |-> name, Index |-> i]]
  <2>1. IsFiniteSet(0 .. n - 1) /\ Cardinality(0 .. n - 1) = n
    BY FS_Interval, SMT
  <2>2. f \in [0 .. n - 1 -> S]
    OBVIOUS
  <2>3. \A i, j \in 0 .. n - 1 : f[i] = f[j] => i = j
    OBVIOUS
  <2>4. \A s \in S : \E i \in 0 .. n - 1 : f[i] = s
    OBVIOUS
  <2>5. f \in Bijection(0 .. n - 1, S)
    BY <2>2, <2>3, <2>4 DEF Bijection, Injection, Surjection, IsInjective
  <2> QED
    BY <2>1, <2>5, FS_Bijection DEF ExistsBijection
<1>2. MapTasks \cap ReduceTasks = {}
  BY DEF MapTasks, ReduceTasks
<1>3. {NoTask, ExitTask, Nothing} \cap Tasks = {}
  BY DEF MapTasks, ReduceTasks, Tasks, NoTask, ExitTask, Nothing
<1> QED
  BY <1>1, <1>2, <1>3, SizeAssumption DEF MapTasks, ReduceTasks

(* The counters tell when all tasks are Completed. *)
LEMMA CountersTell ==
  ASSUME CountersExact
  PROVE  /\ nMapCompleted = NMap => Completed(MapTasks) = MapTasks
         /\ CountersFull => Completed(Tasks) = Tasks
<1>1. /\ Completed(MapTasks) \in SUBSET MapTasks
      /\ Completed(ReduceTasks) \in SUBSET ReduceTasks
      /\ Completed(Tasks) = Completed(MapTasks) \cup Completed(ReduceTasks)
  BY DEF Completed, Tasks
<1>2. /\ Cardinality(MapTasks) = Cardinality(Completed(MapTasks)) => MapTasks = Completed(MapTasks)
      /\ Cardinality(ReduceTasks) = Cardinality(Completed(ReduceTasks)) => ReduceTasks = Completed(ReduceTasks)
  BY <1>1, TaskSets, FS_Subset
<1> QED
  BY <1>1, <1>2, TaskSets DEF CountersExact, CountersFull, Tasks

----------------------------------------------------------------------------
(* The invariant holds at the start and is kept by every action. *)

LEMMA InitIInv == Init => IInv
<1> SUFFICES ASSUME Init PROVE IInv
  OBVIOUS
<1>1. PICK file \in [MapTasks -> FileNames] :
        tasks = [t \in Tasks |->
                  [Status |-> "NotStarted", WorkerId |-> NoWorker,
                   File |-> IF t \in MapTasks THEN file[t] ELSE ""]]
  BY DEF Init
<1>2. \A t \in Tasks : /\ tasks[t].Status = "NotStarted"
                       /\ tasks[t].WorkerId = NoWorker
                       /\ timers[t] = 0
                       /\ \A w \in Workers : handler[w] # t /\ working[w] # t
  BY <1>1, TaskSets DEF Init
<1>3. tasks \in TaskTable
  BY <1>1 DEF TaskTable
<1>4. TypeOK
  BY <1>3 DEF TypeOK, Init, TaskTable
<1>5. LoopInv
  BY DEF LoopInv, Init
<1>6. Completed(MapTasks) = {} /\ Completed(ReduceTasks) = {}
  BY <1>2 DEF Completed, StatusIs, Tasks
<1>7. CountersExact
  BY <1>6, FS_EmptySet DEF CountersExact, Init
<1>8. OneTimerPerAttempt
  BY <1>2 DEF OneTimerPerAttempt, StatusIs, Pending
<1>9. Barrier
  BY <1>2 DEF Barrier, StatusIs, Tasks
<1>10. ExitInv
  BY DEF ExitInv, Nothing, ExitTask, Init
<1> QED
  BY <1>4, <1>5, <1>7, <1>8, <1>9, <1>10 DEF IInv

(* Steps that leave the tasks, their timers and the handlers alone. *)
LEMMA QuietIInv ==
  ASSUME IInv, TypeOK', LoopInv', ExitInv',
         UNCHANGED <<tasks, nMapCompleted, nReduceCompleted, timers, handler, working>>
  PROVE  IInv'
BY DEF IInv, CountersExact, OneTimerPerAttempt, Barrier, Completed, StatusIs, Pending

LEMMA WorkerQuiet ==
  ASSUME IInv, NEW w \in Workers,
         GetNReduce(w) \/ DialFails(w) \/ RequestBroken(w) \/ Crash(w)
  PROVE  IInv'
<1> USE DEF IInv, MoveTo, coordVars
<1>1. UNCHANGED <<coordVars, working>>
  BY DEF GetNReduce, DialFails, RequestBroken, Crash
<1>2. TypeOK'
  BY <1>1 DEF TypeOK, GetNReduce, DialFails, RequestBroken, Crash
<1>3. LoopInv'
  BY ZenonT(60), <1>1 DEF TypeOK, LoopInv, GetNReduce, DialFails, RequestBroken, Crash
<1>4. ExitInv'
  BY <1>1 DEF TypeOK, ExitInv, Completed, StatusIs, GetNReduce, DialFails, RequestBroken,
              Crash, Dialled
<1> QED
  BY <1>1, <1>2, <1>3, <1>4, QuietIInv

LEMMA MainQuiet ==
  ASSUME IInv, Done \/ Exit
  PROVE  IInv'
<1> USE DEF IInv
<1>1. TypeOK' /\ LoopInv'
  BY DEF TypeOK, LoopInv, Done, Exit
<1>2. Completed(Tasks) = Tasks
  BY CountersTell DEF Done, Exit, ExitInv
<1>3. ExitInv'
  BY <1>2 DEF ExitInv, Completed, StatusIs, Done, Exit
<1> QED
  BY <1>1, <1>3, QuietIInv DEF Done, Exit

(* A step that completes no task and takes none back from Completed keeps  *)
(* the counters right.                                                     *)
LEMMA SameCompleted ==
  ASSUME CountersExact, UNCHANGED <<nMapCompleted, nReduceCompleted>>,
         \A t \in Tasks : StatusIs(t, "Completed")' <=> StatusIs(t, "Completed")
  PROVE  /\ CountersExact'
         /\ Completed(MapTasks)' = Completed(MapTasks)
         /\ Completed(Tasks)' = Completed(Tasks)
<1>1. \A S : S \subseteq Tasks => Completed(S)' = Completed(S)
  BY DEF Completed
<1> QED
  BY <1>1 DEF CountersExact, Tasks

LEMMA RequestTaskIInv ==
  ASSUME IInv, NEW w \in Workers, RequestTask(w)
  PROVE  IInv'
<1> USE DEF IInv
<1>1. handler[w] = Nothing /\ pc' = [pc EXCEPT ![w] = "requesting"]
  BY DEF RequestTask, LoopInv, MoveTo
<1>2. CASE \E t \in Tasks : /\ Selectable(t)
                           /\ tasks' = [tasks EXCEPT ![t].Status = "InProgress"]
                           /\ handler' = [handler EXCEPT ![w] = t]
  <2>1. PICK t \in Tasks : /\ Selectable(t)
                          /\ tasks' = [tasks EXCEPT ![t].Status = "InProgress"]
                          /\ handler' = [handler EXCEPT ![w] = t]
    BY <1>2
  <2>2. StatusIs(t, "NotStarted")
    BY <2>1 DEF Selectable, FirstNotStarted
  <2>3. TypeOK'
    <3>1. tasks' \in TaskTable
      <4>1. tasks \in TaskTable
        BY ZenonT(60) DEF TypeOK, TaskTable
      <4> QED
        BY ZenonT(60), <2>1, <4>1 DEF TaskTable
    <3>2. handler' \in [Workers -> Tasks \cup {NoTask, ExitTask, Nothing}]
      BY <2>1 DEF TypeOK
    <3>3. pc' \in [Workers -> {"start", "idle", "requesting", "working",
                              "exited", "fatal", "crashed"}]
      BY <1>1 DEF TypeOK
    <3> QED
      BY <3>1, <3>2, <3>3 DEF TypeOK, TaskTable, RequestTask
  <2>4. LoopInv'
    BY <1>1, <2>1 DEF TypeOK, LoopInv, RequestTask
  <2>5. /\ tasks'[t].Status = "InProgress" /\ tasks'[t].WorkerId = tasks[t].WorkerId
        /\ \A u \in Tasks \ {t} : tasks'[u] = tasks[u]
    BY ZenonT(60), <2>1 DEF TypeOK
  <2>6. /\ CountersExact'
        /\ Completed(MapTasks)' = Completed(MapTasks)
        /\ Completed(Tasks)' = Completed(Tasks)
    BY <2>2, <2>5, SameCompleted DEF StatusIs, RequestTask
  <2>7. OneTimerPerAttempt'
    <3> SUFFICES ASSUME NEW u \in Tasks
                 PROVE  OneTimerPerAttempt!(u)'
      BY DEF OneTimerPerAttempt
    <3>1. CASE u = t
      <4>1. Pending(t) = {} /\ timers[t] = 0 /\ tasks[t].WorkerId = NoWorker
        BY <2>2 DEF OneTimerPerAttempt
      <4>2. Pending(t)' = {w}
        BY <4>1, <2>1 DEF TypeOK, Pending
      <4> QED
        BY <3>1, <4>1, <4>2, <2>5 DEF StatusIs, RequestTask
    <3>2. CASE u # t
      <4>1. Pending(u)' = Pending(u)
        BY <1>1, <2>1, <3>2, TaskSets DEF TypeOK, Pending
      <4> QED
        BY <3>2, <4>1, <2>5 DEF OneTimerPerAttempt, StatusIs, RequestTask
    <3> QED
      BY <3>1, <3>2
  <2>8. Barrier'
    <3>1. t \in ReduceTasks => Completed(MapTasks) = MapTasks
      BY <2>1, CountersTell, TaskSets DEF Selectable, FirstNotStarted
    <3> QED
      BY <3>1, <2>5, <2>6 DEF Barrier, StatusIs, RequestTask, Tasks
  <2>9. ExitInv'
    BY <1>1, <2>1, <2>6, TaskSets DEF TypeOK, ExitInv, RequestTask
  <2> QED
    BY <2>3, <2>4, <2>6, <2>7, <2>8, <2>9
<1>3. CASE /\ \A t \in Tasks : ~Selectable(t)
           /\ handler' = [handler EXCEPT ![w] = IF CountersFull THEN ExitTask ELSE NoTask]
           /\ UNCHANGED tasks
  <2>1. handler'[w] \in {NoTask, ExitTask} /\ \A v \in Workers \ {w} : handler'[v] = handler[v]
    BY <1>3 DEF TypeOK
  <2>2. TypeOK'
    BY <1>1, <1>3 DEF TypeOK, RequestTask
  <2>3. LoopInv'
    BY <1>1, <1>3 DEF TypeOK, LoopInv, RequestTask
  <2>4. \A u \in Tasks : Pending(u)' = Pending(u)
    BY <1>1, <2>1, TaskSets DEF Pending
  <2>5. CountersExact' /\ OneTimerPerAttempt' /\ Barrier'
    BY <1>3, <2>4 DEF CountersExact, OneTimerPerAttempt, Barrier, Completed, StatusIs, RequestTask
  <2>6. ExitInv'
    BY <1>1, <1>3, <2>1, CountersTell
       DEF TypeOK, ExitInv, Completed, StatusIs, RequestTask, NoTask, ExitTask
  <2> QED
    BY <2>2, <2>3, <2>5, <2>6
<1> QED
  BY <1>2, <1>3 DEF RequestTask, selectTask

LEMMA DispatchTaskIInv ==
  ASSUME IInv, NEW w \in Workers, DispatchTask(w)
  PROVE  IInv'
<1> USE DEF IInv
<1> PICK t : t = handler[w]
  OBVIOUS
<1>1. /\ handler' = [handler EXCEPT ![w] = Nothing]
      /\ t \in Tasks \cup {NoTask, ExitTask}
      /\ UNCHANGED <<nMapCompleted, nReduceCompleted, main>>
  BY DEF DispatchTask, TypeOK
<1>2. /\ pc' \in [Workers -> {"start", "idle", "requesting", "working",
                             "exited", "fatal", "crashed"}]
      /\ working' \in [Workers -> Tasks \cup {Nothing}]
      /\ \A v \in Workers \ {w} : pc'[v] = pc[v] /\ working'[v] = working[v]
      /\ pc'[w] = "exited" => pc[w] = "exited" \/ t = ExitTask
      /\ pc'[w] = "fatal" => pc[w] = "fatal"
      /\ pc'[w] = "working" => (pc[w] = "working" /\ UNCHANGED working) \/ working'[w] \in Tasks
      /\ working'[w] \in {working[w], Nothing, t}
  <2>1. CASE pc[w] # "requesting"
    BY <2>1, <1>1 DEF DispatchTask, TakeReply, TypeOK
  <2>2. CASE pc[w] = "requesting"
    <3>1. PICK skip \in BOOLEAN :
            /\ pc' = [pc EXCEPT ![w] = IF t = ExitTask THEN "exited"
                                       ELSE IF skip THEN "idle" ELSE "working"]
            /\ working' = [working EXCEPT ![w] = IF t \in Tasks /\ ~skip THEN t ELSE Nothing]
            /\ t = NoTask => skip
      <4> WITNESS (t = NoTask \/ (t \in MapTasks /\ tasks[t].File = "")) \in BOOLEAN
      <4> QED
        BY <2>2, <1>1 DEF DispatchTask, TakeReply, MoveTo
    <3> QED
      BY <2>2, <3>1, <1>1 DEF TypeOK
  <2> QED
    BY <2>1, <2>2
<1>3. t \in Tasks =>
        /\ tasks' = [tasks EXCEPT ![t].WorkerId = Pid[w]]
        /\ timers' = [timers EXCEPT ![t] = @ + 1]
        /\ StatusIs(t, "InProgress") /\ timers[t] = 0 /\ Pending(t) = {w}
  <2> SUFFICES ASSUME t \in Tasks
               PROVE  StatusIs(t, "InProgress") /\ timers[t] = 0 /\ Pending(t) = {w}
    BY DEF DispatchTask, Timed, Tasks
  <2>1. w \in Pending(t)
    BY DEF Pending
  <2>2. StatusIs(t, "NotStarted") \/ StatusIs(t, "InProgress") \/ StatusIs(t, "Completed")
    BY DEF TypeOK, StatusIs
  <2> QED
    BY <2>1, <2>2 DEF OneTimerPerAttempt
<1>4. t \notin Tasks => UNCHANGED <<tasks, timers>>
  BY DEF DispatchTask, Timed, Tasks
<1>5. TypeOK'
  <2>1. timers' \in [Tasks -> Nat]
    <3>1. timers \in [Tasks -> Nat]
      BY DEF TypeOK
    <3> QED
      BY <3>1, <1>3, <1>4
  <2>2. Pid[w] \in Nat
    BY PidAssumption
  <2>3. tasks \in TaskTable
    BY DEF TypeOK, TaskTable
  <2>4. t \in Tasks => [tasks EXCEPT ![t].WorkerId = Pid[w]] \in TaskTable
    BY ZenonT(60), <2>2, <2>3 DEF TaskTable
  <2>5. tasks' \in TaskTable
    BY <2>3, <2>4, <1>3, <1>4
  <2>6. nMapCompleted' \in Nat /\ nReduceCompleted' \in Nat /\ main' = main
    BY <1>1 DEF TypeOK
  <2>7. handler' \in [Workers -> Tasks \cup {NoTask, ExitTask, Nothing}]
    BY <1>1 DEF TypeOK
  <2> QED
    BY <1>2, <2>1, <2>5, <2>6, <2>7 DEF TypeOK, TaskTable
<1>6. LoopInv'
  BY <1>1, <1>2, <1>5 DEF LoopInv, TypeOK
<1>7. \A u \in Tasks : /\ tasks'[u].Status = tasks[u].Status
                       /\ u # t => tasks'[u] = tasks[u] /\ timers'[u] = timers[u]
  <2>1. CASE t \in Tasks
    <3>1. \A u \in Tasks : /\ tasks'[u].Status = tasks[u].Status
                           /\ u # t => tasks'[u] = tasks[u]
      <4>1. tasks \in TaskTable /\ tasks' = [tasks EXCEPT ![t].WorkerId = Pid[w]]
        BY <1>3, <2>1 DEF TypeOK, TaskTable
      <4> QED
        BY <2>1, <4>1 DEF TaskTable
    <3>2. \A u \in Tasks \ {t} : timers'[u] = timers[u]
      BY <1>3, <2>1 DEF TypeOK
    <3> QED
      BY <3>1, <3>2
  <2>2. CASE t \notin Tasks
    BY <1>4, <2>2
  <2> QED
    BY <2>1, <2>2
<1>8. /\ CountersExact'
      /\ Completed(MapTasks)' = Completed(MapTasks)
      /\ Completed(Tasks)' = Completed(Tasks)
  BY <1>1, <1>7, SameCompleted DEF StatusIs
<1>9. OneTimerPerAttempt'
  <2> SUFFICES ASSUME NEW u \in Tasks
               PROVE  OneTimerPerAttempt!(u)'
    BY DEF OneTimerPerAttempt
  <2>1. CASE u = t
    <3>1. Pending(t)' = {}
      BY <1>1, <1>3, <2>1, TaskSets DEF TypeOK, Pending
    <3>2. timers'[t] = 1
      <4>1. timers \in [Tasks -> Nat]
        BY DEF TypeOK
      <4> QED
        BY <4>1, <1>3, <2>1
    <3> QED
      BY <2>1, <3>1, <3>2, <1>3, <1>7 DEF StatusIs
  <2>2. CASE u # t
    <3>1. Pending(u)' = Pending(u)
      BY <1>1, <2>2, TaskSets DEF TypeOK, Pending
    <3> QED
      BY <2>2, <3>1, <1>7 DEF OneTimerPerAttempt, StatusIs
  <2> QED
    BY <2>1, <2>2
<1>10. Barrier'
  <2>1. t \in ReduceTasks => Completed(MapTasks) = MapTasks
    BY <1>3 DEF Barrier, StatusIs, Tasks
  <2>2. Nothing \notin ReduceTasks
    BY TaskSets DEF Tasks
  <2> QED
    BY <2>1, <2>2, <1>2, <1>7, <1>8 DEF Barrier, StatusIs, Tasks
<1>11. ExitInv'
  BY <1>1, <1>2, <1>8, TaskSets DEF ExitInv, TypeOK, ExitTask, Nothing
<1> QED
  BY <1>5, <1>6, <1>8, <1>9, <1>10, <1>11

LEMMA waitForTaskIInv ==
  ASSUME IInv, NEW t \in Tasks, waitForTask(t)
  PROVE  IInv'
<1> USE DEF IInv
<1>1. /\ UNCHANGED <<nMapCompleted, nReduceCompleted, handler, main, pc, working>>
      /\ timers[t] > 0
      /\ timers' = [timers EXCEPT ![t] = @ - 1]
  BY DEF waitForTask
<1> timers \in [Tasks -> Nat]
  BY DEF TypeOK
<1>2. /\ timers' \in [Tasks -> Nat]
      /\ timers'[t] = timers[t] - 1
      /\ \A u \in Tasks \ {t} : timers'[u] = timers[u]
  BY <1>1
<1>3. TypeOK' /\ LoopInv'
  <2>1. tasks' \in TaskTable
    <3> tasks \in TaskTable
      BY ZenonT(60) DEF TypeOK, TaskTable
    <3>1. CASE StatusIs(t, "InProgress")
      <4>1. tasks' = [tasks EXCEPT ![t] = Release(tasks[t])]
        BY <3>1, ZenonT(60) DEF waitForTask, TimedOut
      <4> QED
        BY <4>1 DEF TaskTable, Release
    <3>2. CASE ~StatusIs(t, "InProgress")
      BY <3>2, ZenonT(60) DEF waitForTask, TimedOut
    <3> QED
      BY <3>1, <3>2
  <2> QED
    BY <1>1, <1>2, <2>1 DEF TypeOK, TaskTable, LoopInv
<1>4. /\ \A u \in Tasks \ {t} : tasks'[u] = tasks[u]
      /\ StatusIs(t, "InProgress") =>
           tasks'[t].Status = "NotStarted" /\ tasks'[t].WorkerId = NoWorker
      /\ ~StatusIs(t, "InProgress") => tasks'[t] = tasks[t]
  BY DEF waitForTask, TimedOut, Release, TypeOK
<1>5. \A u \in Tasks : StatusIs(u, "Completed")' <=> StatusIs(u, "Completed")
  BY <1>4 DEF StatusIs
<1>6. /\ CountersExact'
      /\ Completed(MapTasks)' = Completed(MapTasks)
      /\ Completed(Tasks)' = Completed(Tasks)
  BY <1>1, <1>5, SameCompleted
<1>7. OneTimerPerAttempt'
  <2> SUFFICES ASSUME NEW u \in Tasks
               PROVE  OneTimerPerAttempt!(u)'
    BY DEF OneTimerPerAttempt
  <2>1. Pending(u)' = Pending(u)
    BY <1>1 DEF Pending
  <2>2. CASE u # t
    BY <2>1, <2>2, <1>2, <1>4 DEF OneTimerPerAttempt, StatusIs
  <2>3. CASE u = t /\ StatusIs(t, "InProgress")
    BY <2>1, <2>3, <1>1, <1>2, <1>4 DEF OneTimerPerAttempt, StatusIs
  <2>4. CASE u = t /\ ~StatusIs(t, "InProgress")
    BY <2>1, <2>4, <1>1, <1>2, <1>4 DEF OneTimerPerAttempt, StatusIs
  <2> QED
    BY <2>2, <2>3, <2>4
<1>8. Barrier'
  BY <1>1, <1>4, <1>6 DEF Barrier, StatusIs, Tasks
<1>9. ExitInv'
  BY <1>1, <1>6 DEF ExitInv
<1> QED
  BY <1>3, <1>6, <1>7, <1>8, <1>9

LEMMA CompleteTaskIInv ==
  ASSUME IInv, NEW w \in Workers, CompleteTask(w)
  PROVE  IInv'
<1> USE DEF IInv
<1> PICK t : t = working[w]
  OBVIOUS
<1>1. /\ t \in Tasks
      /\ working' = [working EXCEPT ![w] = Nothing]
      /\ pc' = [pc EXCEPT ![w] = IF CountersFull' THEN "exited" ELSE "idle"]
      /\ UNCHANGED <<timers, handler, main>>
  BY DEF CompleteTask, LoopInv, MoveTo
<1>2. LoopInv'
  BY <1>1 DEF LoopInv, TypeOK, CompleteTask
<1>3. Nothing \notin Tasks
  BY TaskSets
<1>4. CASE ~Accepts(w, t)
  <2>1. UNCHANGED <<tasks, nMapCompleted, nReduceCompleted>>
    BY <1>4 DEF CompleteTask
  <2>2. TypeOK'
    BY <1>1, <2>1 DEF TypeOK
  <2>3. CountersExact' /\ OneTimerPerAttempt' /\ Completed(Tasks)' = Completed(Tasks)
    BY <1>1, <2>1 DEF CountersExact, OneTimerPerAttempt, Completed, StatusIs, Pending
  <2>4. Barrier'
    BY <1>1, <1>3, <2>1 DEF Barrier, Completed, StatusIs, TypeOK, Tasks
  <2>5. ExitInv'
    BY <1>1, <2>1, <2>3, CountersTell DEF ExitInv, CountersFull, TypeOK
  <2> QED
    BY <1>2, <2>2, <2>3, <2>4, <2>5
<1>5. CASE Accepts(w, t)
  <2>1. /\ tasks' = [tasks EXCEPT ![t].Status = "Completed"]
        /\ nMapCompleted' = nMapCompleted + Counted(t, MapTasks)
        /\ nReduceCompleted' = nReduceCompleted + Counted(t, ReduceTasks)
    BY <1>5 DEF CompleteTask
  <2> nMapCompleted \in Nat /\ nReduceCompleted \in Nat
    BY DEF TypeOK
  <2>2. TypeOK'
    <3>1. nMapCompleted' \in Nat /\ nReduceCompleted' \in Nat
      BY <2>1 DEF Counted
    <3>2. tasks' \in TaskTable
      <4>1. tasks \in TaskTable
        BY DEF TypeOK, TaskTable
      <4>2. tasks' = [tasks EXCEPT ![t].Status = "Completed"]
        BY <2>1
      <4> QED
        BY ZenonT(60), <1>1, <4>1, <4>2 DEF TaskTable
    <3>3. /\ working' \in [Workers -> Tasks \cup {Nothing}]
          /\ pc' \in [Workers -> {"start", "idle", "requesting", "working",
                                 "exited", "fatal", "crashed"}]
      BY <1>1 DEF TypeOK
    <3> QED
      BY <1>1, <3>1, <3>2, <3>3 DEF TypeOK, TaskTable
  <2>3. /\ StatusIs(t, "InProgress") /\ tasks[t].WorkerId # NoWorker
        /\ tasks'[t].Status = "Completed"
        /\ \A u \in Tasks \ {t} : tasks'[u] = tasks[u]
    <3>1. Pid[w] # NoWorker
      BY PidAssumption DEF NoWorker
    <3> QED
      BY <1>1, <1>5, <2>1, <3>1 DEF Accepts, TypeOK
  <2>4. \A S : S \subseteq Tasks =>
          Completed(S)' = IF t \in S THEN Completed(S) \cup {t} ELSE Completed(S)
    BY <1>1, <2>3 DEF Completed, StatusIs
  <2>5. t \notin Completed(MapTasks) /\ t \notin Completed(ReduceTasks)
    BY <2>3 DEF Completed, StatusIs
  <2>6. CountersExact'
    <3>1. IsFiniteSet(Completed(MapTasks)) /\ IsFiniteSet(Completed(ReduceTasks))
      BY TaskSets, FS_Subset DEF Completed
    <3>2. /\ Cardinality(Completed(MapTasks) \cup {t}) = Cardinality(Completed(MapTasks)) + 1
          /\ Cardinality(Completed(ReduceTasks) \cup {t}) = Cardinality(Completed(ReduceTasks)) + 1
      BY <2>5, <3>1, FS_AddElement
    <3>3. MapTasks \subseteq Tasks /\ ReduceTasks \subseteq Tasks
      BY DEF Tasks
    <3>4. /\ Completed(MapTasks)' = IF t \in MapTasks THEN Completed(MapTasks) \cup {t} ELSE Completed(MapTasks)
          /\ Completed(ReduceTasks)' = IF t \in ReduceTasks THEN Completed(ReduceTasks) \cup {t} ELSE Completed(ReduceTasks)
      BY <2>4, <3>3
    <3>5. CASE t \in MapTasks
      BY <2>1, <3>2, <3>4, <3>5, TaskSets DEF CountersExact, Counted
    <3>6. CASE t \in ReduceTasks
      BY <2>1, <3>2, <3>4, <3>6, TaskSets DEF CountersExact, Counted
    <3> QED
      BY <1>1, <3>5, <3>6 DEF Tasks
  <2>7. OneTimerPerAttempt'
    <3> SUFFICES ASSUME NEW u \in Tasks
                 PROVE  OneTimerPerAttempt!(u)'
      BY DEF OneTimerPerAttempt
    <3>1. Pending(u)' = Pending(u) /\ timers'[u] = timers[u]
      BY <1>1 DEF Pending
    <3>2. CASE u = t
      <4>1. timers[t] = 1 /\ Pending(t) = {}
        BY <1>1, <2>3 DEF OneTimerPerAttempt
      <4> QED
        BY <2>3, <3>1, <3>2, <4>1 DEF StatusIs
    <3>3. CASE u # t
      BY <2>3, <3>1, <3>3 DEF OneTimerPerAttempt, StatusIs
    <3> QED
      BY <3>2, <3>3
  <2>8. Barrier'
    <3>1. Completed(MapTasks) = MapTasks => Completed(MapTasks)' = MapTasks
      BY <2>4 DEF Tasks
    <3>2. working \in [Workers -> Tasks \cup {Nothing}]
      BY DEF TypeOK
    <3>3. ASSUME NEW u \in ReduceTasks,
                 ~StatusIs(u, "NotStarted")' \/ \E v \in Workers : working'[v] = u
          PROVE  ~StatusIs(u, "NotStarted") \/ \E v \in Workers : working[v] = u
      BY <1>1, <1>3, <2>3, <3>2, <3>3 DEF StatusIs, Tasks
    <3> QED
      BY <3>1, <3>3 DEF Barrier
  <2>9. ExitInv'
    <3>1. Completed(Tasks) = Tasks => Completed(Tasks)' = Tasks
      BY <2>4
    <3>2. CountersFull' => Completed(Tasks)' = Tasks
      <4>1. (CountersExact /\ CountersFull => Completed(Tasks) = Tasks)'
        BY CountersTell, PTL
      <4> QED
        BY <2>6, <4>1
    <3> QED
      BY <1>1, <3>1, <3>2 DEF ExitInv, TypeOK
  <2> QED
    BY <1>2, <2>2, <2>6, <2>7, <2>8, <2>9
<1> QED
  BY <1>4, <1>5

LEMMA NextIInv == IInv /\ [Next]_vars => IInv'
<1> SUFFICES ASSUME IInv, [Next]_vars PROVE IInv'
  OBVIOUS
<1>1. CASE UNCHANGED vars
  <2>1. TypeOK' /\ LoopInv'
    BY <1>1 DEF vars, coordVars, IInv, TypeOK, LoopInv
  <2>2. ExitInv'
    BY <1>1 DEF vars, coordVars, IInv, ExitInv, Completed, StatusIs
  <2> QED
    BY <1>1, <2>1, <2>2, QuietIInv DEF vars, coordVars
<1>2. ASSUME NEW w \in Workers, WorkerStep(w) \/ DispatchTask(w) \/ Crash(w)
      PROVE  IInv'
  BY <1>2, WorkerQuiet, RequestTaskIInv, DispatchTaskIInv, CompleteTaskIInv DEF WorkerStep
<1>3. ASSUME NEW t \in Tasks, waitForTask(t)
      PROVE  IInv'
  BY <1>3, waitForTaskIInv
<1>4. CASE Done \/ Exit
  BY <1>4, MainQuiet
<1> QED
  BY <1>1, <1>2, <1>3, <1>4 DEF Next

(* IInv holds in every reachable state. *)
THEOREM Invariance == Spec => []IInv
BY InitIInv, NextIInv, PTL DEF Spec

----------------------------------------------------------------------------
(* The properties that matter *)

(* The variables keep their types. *)
THEOREM TypeCorrect == Spec => []TypeOK
<1>1. IInv => TypeOK
  BY DEF IInv
<1> QED
  BY <1>1, Invariance, PTL

(* nMapCompleted and nReduceCompleted count the Completed tasks. *)
THEOREM CountersCorrect == Spec => []CountersExact
<1>1. IInv => CountersExact
  BY DEF IInv
<1> QED
  BY <1>1, Invariance, PTL

(* No timer of waitForTask outlives the attempt it was started for. *)
THEOREM TimersCorrect == Spec => []OneTimerPerAttempt
<1>1. IInv => OneTimerPerAttempt
  BY DEF IInv
<1> QED
  BY <1>1, Invariance, PTL

(* selectTask never lets a reduce task out before the last map report. *)
THEOREM BarrierCorrect == Spec => []ReduceAfterMaps
<1>1. IInv => ReduceAfterMaps
  <2>1. ASSUME IInv, NEW t \in ReduceTasks, Pending(t) # {}
        PROVE  ~StatusIs(t, "NotStarted")
    BY <2>1 DEF IInv, OneTimerPerAttempt, Tasks
  <2> QED
    BY <2>1 DEF IInv, Barrier, ReduceAfterMaps
<1> QED
  BY <1>1, Invariance, PTL

(* If the workers dial what the coordinator listens on, none of them       *)
(* leaves its loop before every task is Completed.                         *)
THEOREM ExitCorrect == (Listens = Dials) /\ Spec => []LeaveOnlyWhenFinished
<1>1. (Listens = Dials) /\ IInv => LeaveOnlyWhenFinished
  BY DEF IInv, ExitInv, LeaveOnlyWhenFinished
<1>2. (Listens = Dials) => [](Listens = Dials)
  <2>1. (Listens = Dials) => (Listens = Dials)'
    BY DEF Listens, Dials
  <2> QED
    BY <2>1, PTL
<1> QED
  BY <1>1, <1>2, Invariance, PTL

(* What CompleteTask accepted is never taken back or given to another      *)
(* worker, by a timer or by a handler in the second half of RequestTask.   *)
LEMMA CompletedKept ==
  ASSUME IInv, [Next]_vars, NEW t \in Tasks, StatusIs(t, "Completed")
  PROVE  tasks'[t] = tasks[t]
<1> USE DEF IInv
<1>1. tasks \in TaskTable
  BY DEF TypeOK, TaskTable
<1>2. CASE UNCHANGED tasks
  BY <1>2
<1>3. ASSUME NEW w \in Workers, RequestTask(w)
      PROVE  tasks'[t] = tasks[t]
  BY <1>1, <1>3 DEF RequestTask, selectTask, Selectable, FirstNotStarted, StatusIs, TaskTable
<1>4. ASSUME NEW w \in Workers, DispatchTask(w)
      PROVE  tasks'[t] = tasks[t]
  <2>1. handler[w] # t
    BY DEF OneTimerPerAttempt, Pending
  <2> QED
    BY <1>1, <1>4, <2>1 DEF DispatchTask, TaskTable
<1>5. ASSUME NEW w \in Workers, CompleteTask(w)
      PROVE  tasks'[t] = tasks[t]
  <2>1. CASE ~Accepts(w, working[w])
    BY <1>5, <2>1 DEF CompleteTask
  <2>2. CASE Accepts(w, working[w])
    <3>1. working[w] # t
      BY <2>2 DEF Accepts, StatusIs
    <3>2. tasks' = [tasks EXCEPT ![working[w]].Status = "Completed"]
      BY <1>5, <2>2 DEF CompleteTask
    <3> QED
      BY <1>1, <3>1, <3>2 DEF TaskTable
  <2> QED
    BY <2>1, <2>2
<1>6. ASSUME NEW u \in Tasks, waitForTask(u)
      PROVE  tasks'[t] = tasks[t]
  BY <1>1, <1>6 DEF waitForTask, TimedOut, Release, StatusIs, TaskTable
<1> QED
  BY <1>2, <1>3, <1>4, <1>5, <1>6
     DEF Next, vars, coordVars, WorkerStep, GetNReduce, DialFails, RequestBroken, Crash, Done, Exit

(* A Completed task is final. *)
THEOREM FinalCorrect == Spec => CompletedIsFinal
<1>1. IInv /\ [Next]_vars =>
        [\A t \in Tasks : StatusIs(t, "Completed") => tasks'[t] = tasks[t]]_vars
  BY CompletedKept
<1> QED
  BY <1>1, Invariance, PTL DEF Spec, CompletedIsFinal

(* Only CompleteTask completes a task. *)
LEMMA OthersComplete ==
  ASSUME IInv, [Next]_vars, NEW t \in Tasks, StatusIs(t, "Completed")', ~StatusIs(t, "Completed")
  PROVE  \E w \in Workers : CompleteTask(w) /\ Accepts(w, t) /\ working[w] = t
<1> USE DEF IInv
<1>1. tasks \in TaskTable
  BY DEF TypeOK, TaskTable
<1>2. ~ UNCHANGED tasks
  BY DEF StatusIs
<1>3. ASSUME NEW w \in Workers, RequestTask(w)
      PROVE  FALSE
  BY <1>1, <1>2, <1>3 DEF RequestTask, selectTask, StatusIs, TaskTable
<1>4. ASSUME NEW w \in Workers, DispatchTask(w)
      PROVE  FALSE
  BY <1>1, <1>2, <1>4 DEF DispatchTask, StatusIs, TaskTable
<1>5. ASSUME NEW w \in Workers, CompleteTask(w)
      PROVE  Accepts(w, t) /\ working[w] = t
  <2>1. Accepts(w, working[w]) /\ tasks' = [tasks EXCEPT ![working[w]].Status = "Completed"]
    BY <1>2, <1>5 DEF CompleteTask
  <2>2. working[w] = t
    BY <1>1, <2>1 DEF StatusIs, TaskTable
  <2> QED
    BY <2>1, <2>2
<1>6. ASSUME NEW u \in Tasks, waitForTask(u)
      PROVE  FALSE
  BY <1>1, <1>2, <1>6 DEF waitForTask, TimedOut, Release, StatusIs, TaskTable
<1> QED
  BY <1>2, <1>3, <1>4, <1>5, <1>6
     DEF Next, vars, coordVars, WorkerStep, GetNReduce, DialFails, RequestBroken, Crash, Done, Exit

(* A step of main takes the job from running to over once, at the end. *)
LEMMA MainMoves ==
  ASSUME IInv, [Next]_vars
  PROVE  \/ (main # "polling")' = (main # "polling")
         \/ Done
BY DEF Next, vars, coordVars, WorkerStep, GetNReduce, DialFails, RequestTask, RequestBroken,
       CompleteTask, DispatchTask, waitForTask, Crash, Exit

(* The coordinator implements Job: every accepted report is a Finish of    *)
(* Job, Done is its End, and every other step, the timeouts, crashes and   *)
(* rejected reports included, changes nothing that Job shows.              *)
THEOREM Refinement == Spec => ImplementsJob
<1>1. Init => AbstractJob!Init
  <2> SUFFICES ASSUME Init PROVE AbstractJob!Init
    OBVIOUS
  <2>1. PICK file \in [MapTasks -> FileNames] :
          tasks = [t \in Tasks |->
                    [Status |-> "NotStarted", WorkerId |-> NoWorker,
                     File |-> IF t \in MapTasks THEN file[t] ELSE ""]]
    BY DEF Init
  <2>2. Completed(Tasks) = {}
    BY <2>1 DEF Completed, StatusIs
  <2> QED
    BY <2>2 DEF AbstractJob!Init, Init
<1>2. IInv /\ [Next]_vars => [AbstractJob!Next]_<<Completed(Tasks), main # "polling">>
  <2> SUFFICES ASSUME IInv, [Next]_vars
               PROVE  [AbstractJob!Next]_<<Completed(Tasks), main # "polling">>
    OBVIOUS
  <2>1. \A t \in Tasks : StatusIs(t, "Completed") => StatusIs(t, "Completed")'
    BY CompletedKept DEF StatusIs
  <2>2. CASE \E t \in Tasks : StatusIs(t, "Completed")' /\ ~StatusIs(t, "Completed")
    <3>1. PICK t \in Tasks : StatusIs(t, "Completed")' /\ ~StatusIs(t, "Completed")
      BY <2>2
    <3>2. PICK w \in Workers : CompleteTask(w) /\ Accepts(w, t) /\ working[w] = t
      BY <3>1, OthersComplete
    <3>3. tasks' = [tasks EXCEPT ![t].Status = "Completed"] /\ main' = main
      BY <3>2 DEF CompleteTask
    <3>4. tasks \in TaskTable
      BY DEF IInv, TypeOK, TaskTable
    <3>5. Completed(Tasks)' = Completed(Tasks) \cup {t} /\ t \notin Completed(Tasks)
      BY <3>1, <3>3, <3>4 DEF Completed, StatusIs, TaskTable
    <3>6. main = "polling"
      BY <3>1 DEF IInv, ExitInv, Completed
    <3>7. t \in ReduceTasks => MapTasks \subseteq Completed(Tasks)
      BY <3>2 DEF IInv, Barrier, Completed, Tasks
    <3>8. AbstractJob!Finish(t)
      BY <3>3, <3>5, <3>6, <3>7 DEF AbstractJob!Finish
    <3> QED
      BY <3>8 DEF AbstractJob!Next, Tasks
  <2>3. CASE \A t \in Tasks : StatusIs(t, "Completed")' => StatusIs(t, "Completed")
    <3>1. Completed(Tasks)' = Completed(Tasks)
      BY <2>1, <2>3 DEF Completed
    <3>2. CASE Done
      <4>1. Completed(Tasks) = Tasks
        BY <3>2, CountersTell DEF Done, IInv
      <4>2. AbstractJob!End
        BY <3>1, <3>2, <4>1 DEF AbstractJob!End, Done, Tasks
      <4> QED
        BY <4>2 DEF AbstractJob!Next
    <3>3. CASE (main # "polling")' = (main # "polling")
      BY <3>1, <3>3
    <3> QED
      BY <3>2, <3>3, MainMoves
  <2> QED
    BY <2>2, <2>3
<1> QED
  BY <1>1, <1>2, Invariance, PTL DEF Spec, ImplementsJob, AbstractJob!Spec
=============================================================================
