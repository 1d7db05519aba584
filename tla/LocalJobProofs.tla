--------------------------- MODULE LocalJobProofs ---------------------------
(***************************************************************************)
(* Proofs about LocalJob for every number of workers, map tasks and parts: *)
(* the files a job leaves are those of mrsequential.go.  The coordinator's *)
(* part of the argument is the invariant IInv of MapReduceProofs.          *)
(***************************************************************************)
EXTENDS LocalJob, MapReduceProofs

(* What the theorems are about: an input file at least, as                 *)
(* main/mrcoordinator.go demands; no files of an earlier job; processes of *)
(* one machine, so their ids differ, none of which is so small that the    *)
(* pattern of doReduce takes it for the number of a part.                  *)
FreshJob ==
  /\ NMap > 0
  /\ ~StaleDir
  /\ \A v, w \in Workers : Pid[v] = Pid[w] => v = w
  /\ \A w \in Workers : Pid[w] >= NReduce

MapNames == {MapName(t.Index, i) : t \in MapTasks, i \in Parts}
TempNames == {TempName(t.Index, i, w) : t \in MapTasks, i \in Parts, w \in Workers}
OutNames == {OutName(r, w) : r \in Parts, w \in Workers}
DirNames == MapNames \cup TempNames \cup OutNames
Data == {"cut", "whole", "blank"}

JobTypeOK ==
  /\ boot \in {"serving", "removing", "making", "ready"}
  /\ tmpDir = (boot = "ready")
  /\ DOMAIN tmp \subseteq DirNames
  /\ tmp \in [DOMAIN tmp -> Data]
  /\ out = [r \in Parts |-> out[r]]
  /\ stage \in [Workers -> {"begin", "created", "renaming", "finished", "listed", "read", "hung"}]
  /\ part \in [Workers -> Parts]
  /\ files \in [Workers -> SUBSET DirNames]
  /\ input \in [Workers -> SUBSET (DirNames \X Data)]

Placed(t, i) == MapName(t.Index, i) \in DOMAIN tmp
Written(t, i, w) ==
  LET n == TempName(t.Index, i, w) IN n \in DOMAIN tmp /\ tmp[n] = MapOutput(t)
Sources(r) == {MapName(t.Index, r) : t \in MapTasks}

(* How far doMap and writeMapOutput of worker w are with task t. *)
MapWorker(w, t) ==
  /\ stage[w] \in {"begin", "created", "renaming", "finished"}
  /\ stage[w] # "begin" => tmpDir
  /\ stage[w] # "renaming" => part[w] = 0
  /\ stage[w] = "created" => \A i \in Parts : TempName(t.Index, i, w) \in DOMAIN tmp
  /\ stage[w] = "renaming" =>
       \A i \in Parts : IF i < part[w] THEN Placed(t, i) ELSE Written(t, i, w)
  /\ stage[w] = "finished" => \A i \in Parts : Placed(t, i)

(* How far doReduce and writeReduceOutput of worker w are with part r. *)
ReduceWorker(w, r) ==
  /\ stage[w] \in {"begin", "listed", "read", "created", "finished"}
  /\ part[w] = 0
  /\ stage[w] = "listed" => files[w] = Sources(r)
  /\ stage[w] \in {"read", "created"} => input[w] = Sequential(r)
  /\ stage[w] = "created" => OutName(r, w) \in DOMAIN tmp
  /\ stage[w] = "finished" => out[r] = File(Sequential(r))

WorkerInv(w) ==
  /\ pc[w] \in {"start", "idle", "requesting"} => stage[w] = "begin" /\ part[w] = 0
  /\ pc[w] = "working" /\ working[w] \in MapTasks => MapWorker(w, working[w])
  /\ pc[w] = "working" /\ working[w] \in ReduceTasks => ReduceWorker(w, working[w].Index)

(* A map output has its name only when it is complete; a reduce output     *)
(* too, and what is Completed is there.                                    *)
FileInv ==
  /\ \A t \in MapTasks, i \in Parts :
       Placed(t, i) => tmp[MapName(t.Index, i)] = MapOutput(t)
  /\ \A t \in Completed(MapTasks), i \in Parts : Placed(t, i)
  /\ \A r \in Parts : out[r] \in {Absent, File(Sequential(r))}
  /\ \A t \in Completed(ReduceTasks) : out[t.Index] = File(Sequential(t.Index))

(* Before MakeCoordinator has made the directory no task gets anywhere. *)
BootInv ==
  ~tmpDir => /\ Completed(MapTasks) = {}
             /\ DOMAIN tmp = {}
             /\ \A r \in Parts : out[r] = Absent

JInv ==
  /\ IInv
  /\ JobTypeOK
  /\ \A w \in Workers : WorkerInv(w)
  /\ FileInv
  /\ BootInv

----------------------------------------------------------------------------
(* Names and directories *)

(* The names of worker.go tell their files apart, and only a map output *)
(* ends in the number of a part.                                        *)
LEMMA Name ==
  ASSUME FreshJob, NEW a \in Nat, NEW b \in Nat, NEW i \in Parts, NEW j \in Parts,
         NEW v \in Workers, NEW w \in Workers
  PROVE  /\ MapName(a, i) = MapName(b, j) => a = b /\ i = j
         /\ TempName(a, i, v) = TempName(b, j, w) => a = b /\ i = j /\ v = w
         /\ OutName(i, v) = OutName(j, w) => i = j /\ v = w
         /\ MapName(a, i) # TempName(b, j, w)
         /\ MapName(a, i) # OutName(j, w)
         /\ TempName(a, i, v) # OutName(j, w)
         /\ Suffix(MapName(a, i)) = i
         /\ Suffix(TempName(a, i, v)) \notin Parts
         /\ Suffix(OutName(i, v)) \notin Parts
         /\ MapName(a, i).kind # "out"
BY PidAssumption, SizeAssumption
   DEF FreshJob, MapName, TempName, OutName, Suffix, NoPid, Parts

LEMMA PartOrder ==
  /\ \A i \in Parts : ~(i < 0) /\ ~(i < i) /\ i <= NReduce - 1
  /\ \A i, k \in Parts : (i < k + 1 => i <= k) /\ (~(i < k + 1) => i > k)
BY SizeAssumption DEF Parts

LEMMA SourceNames ==
  ASSUME NEW r \in Parts
  PROVE  Sources(r) \subseteq DirNames /\ Sequential(r) \subseteq DirNames \X Data
<1>1. \A t \in MapTasks : MapName(t.Index, r) \in DirNames /\ MapOutput(t) \in Data
  BY DEF DirNames, MapNames, Data, MapOutput
<1> QED BY <1>1 DEF Sources, Sequential

LEMMA Index ==
  /\ \A t \in MapTasks : t.Index \in Nat
  /\ \A t \in ReduceTasks : t.Index \in Parts
  /\ \A t, u \in MapTasks : t.Index = u.Index => t = u
  /\ \A t, u \in ReduceTasks : t.Index = u.Index => t = u
  /\ \A r \in Parts : \E t \in ReduceTasks : t.Index = r
  /\ 0 \in Parts
<1>1. \A r \in Parts : [Type |-> "ReduceTask", Index |-> r] \in ReduceTasks
  BY DEF ReduceTasks, Parts
<1>2. \A r \in Parts : \E t \in ReduceTasks : t.Index = r
  BY ZenonT(60), <1>1
<1> QED
  BY <1>2, SizeAssumption DEF MapTasks, ReduceTasks, Parts

(* So do the names of the files of tasks: the outputs of maps, *)
LEMMA MapApart ==
  ASSUME FreshJob, NEW t \in MapTasks, NEW i \in Parts
  PROVE  /\ \A u \in MapTasks, j \in Parts : MapName(u.Index, j) = MapName(t.Index, i) => u = t /\ j = i
         /\ \A u \in MapTasks, j \in Parts, v \in Workers : TempName(u.Index, j, v) # MapName(t.Index, i)
         /\ \A r \in Parts, v \in Workers : OutName(r, v) # MapName(t.Index, i)
         /\ MapName(t.Index, i).kind # "out"
BY Index, PidAssumption DEF FreshJob, MapName, TempName, OutName, NoPid

(* their temporary files, *)
LEMMA TempApart ==
  ASSUME FreshJob, NEW t \in MapTasks, NEW i \in Parts, NEW w \in Workers
  PROVE  /\ \A u \in MapTasks, j \in Parts, v \in Workers :
              TempName(u.Index, j, v) = TempName(t.Index, i, w) => v = w /\ j = i
         /\ \A u \in MapTasks, j \in Parts : MapName(u.Index, j) # TempName(t.Index, i, w)
         /\ \A r \in Parts, v \in Workers : OutName(r, v) # TempName(t.Index, i, w)
BY Index, PidAssumption DEF FreshJob, MapName, TempName, OutName, NoPid

(* and the temporary files of reduces. *)
LEMMA OutApart ==
  ASSUME FreshJob, NEW r \in Parts, NEW w \in Workers
  PROVE  /\ \A s \in Parts, v \in Workers : OutName(s, v) = OutName(r, w) => v = w
         /\ \A t \in MapTasks, i \in Parts : MapName(t.Index, i) # OutName(r, w)
         /\ \A t \in MapTasks, i \in Parts, v \in Workers : TempName(t.Index, i, v) # OutName(r, w)
BY Index, PidAssumption DEF FreshJob, MapName, TempName, OutName, NoPid

LEMMA PutType ==
  ASSUME NEW f, f \in [DOMAIN f -> Data], DOMAIN f \subseteq DirNames,
         NEW N, N \subseteq DirNames, NEW d \in Data
  PROVE  /\ Put(f, N, d) \in [DOMAIN Put(f, N, d) -> Data]
         /\ DOMAIN Put(f, N, d) \subseteq DirNames
BY DEF Put

LEMMA WithoutType ==
  ASSUME NEW f, f \in [DOMAIN f -> Data], DOMAIN f \subseteq DirNames, NEW N
  PROVE  /\ Without(f, N) \in [DOMAIN Without(f, N) -> Data]
         /\ DOMAIN Without(f, N) \subseteq DirNames
BY DEF Without, Restrict

----------------------------------------------------------------------------
(* The steps of the job are steps of the coordinator and its workers. *)

LEMMA JobStepIsStep ==
  ASSUME [JobNext]_jobVars
  PROVE  [Next]_vars
<1>1. CASE UNCHANGED jobVars
  BY <1>1 DEF jobVars
<1>2. CASE Boot
  BY <1>2 DEF Boot, RemoveOut, RemoveTemp, MakeTemp
<1>3. CASE CoordinatorStep
  BY <1>3 DEF CoordinatorStep, Next
<1>4. ASSUME NEW w \in Workers, CreateTemps(w) PROVE [Next]_vars
  <2>1. CASE tmpDir
    BY <1>4, <2>1 DEF CreateTemps, vars
  <2>2. CASE ~tmpDir
    <3>1. Crash(w)
      BY ZenonT(60), <1>4, <2>2 DEF CreateTemps, At, Crash
    <3> QED
      BY <3>1 DEF Next
  <2> QED
    BY <2>1, <2>2
<1>5. ASSUME NEW w \in Workers, FileStep(w) PROVE [Next]_vars
  BY <1>4, <1>5 DEF FileStep, Flush, RenameTemp, ListFiles, ReadFiles, CreateOut, RenameOut
<1>6. ASSUME NEW w \in Workers, CallStep(w) \/ CrashStep(w) PROVE [Next]_vars
  BY <1>6 DEF CallStep, CrashStep, Next
<1> QED
  BY <1>1, <1>2, <1>3, <1>5, <1>6 DEF JobNext

(* No step changes the input file of a task. *)
LEMMA SourceKept ==
  ASSUME IInv, [Next]_vars
  PROVE  /\ \A t \in MapTasks : MapOutput(t)' = MapOutput(t)
         /\ \A r \in Parts : Sequential(r)' = Sequential(r)
<1>1. tasks \in TaskTable
  BY ZenonT(60) DEF IInv, TypeOK, TaskTable
<1>2. \A t \in Tasks : tasks'[t].File = tasks[t].File
  <2>1. CASE UNCHANGED tasks
    BY <2>1
  <2>2. ASSUME NEW w \in Workers, RequestTask(w) PROVE \A t \in Tasks : tasks'[t].File = tasks[t].File
    <3>1. CASE UNCHANGED tasks
      BY <3>1
    <3>2. ASSUME NEW u \in Tasks, tasks' = [tasks EXCEPT ![u].Status = "InProgress"]
          PROVE  \A t \in Tasks : tasks'[t].File = tasks[t].File
      BY ZenonT(60), <1>1, <3>2 DEF TaskTable
    <3> QED
      BY <2>2, <3>1, <3>2 DEF RequestTask, selectTask
  <2>3. ASSUME NEW w \in Workers, DispatchTask(w) PROVE \A t \in Tasks : tasks'[t].File = tasks[t].File
    BY ZenonT(60), <1>1, <2>3 DEF DispatchTask, TaskTable
  <2>4. ASSUME NEW w \in Workers, CompleteTask(w) PROVE \A t \in Tasks : tasks'[t].File = tasks[t].File
    <3>1. CASE UNCHANGED tasks
      BY <3>1
    <3>2. CASE tasks' = [tasks EXCEPT ![working[w]].Status = "Completed"]
      BY ZenonT(60), <1>1, <3>2 DEF TaskTable
    <3> QED
      BY <2>4, <3>1, <3>2 DEF CompleteTask
  <2>5. ASSUME NEW u \in Tasks, waitForTask(u) PROVE \A t \in Tasks : tasks'[t].File = tasks[t].File
    BY ZenonT(60), <1>1, <2>5 DEF waitForTask, Release, TaskTable
  <2> QED
    BY <2>1, <2>2, <2>3, <2>4, <2>5
    DEF Next, vars, coordVars, WorkerStep, GetNReduce, DialFails, RequestBroken, Crash, Done, Exit
<1>3. \A t \in MapTasks : MapOutput(t)' = MapOutput(t)
  BY <1>2 DEF MapOutput, Tasks
<1> QED
  BY <1>3 DEF Sequential

LEMMA InitJInv == FreshJob /\ JobInit => JInv
<1> SUFFICES ASSUME FreshJob, JobInit PROVE JInv
  OBVIOUS
<1>1. IInv
  BY InitIInv DEF JobInit
<1>2. Completed(MapTasks) = {} /\ Completed(ReduceTasks) = {}
  <2>1. PICK file \in [MapTasks -> FileNames] :
          tasks = [t \in Tasks |->
                    [Status |-> "NotStarted", WorkerId |-> NoWorker,
                     File |-> IF t \in MapTasks THEN file[t] ELSE ""]]
    BY ZenonT(60) DEF JobInit, Init
  <2> QED
    BY ZenonT(60), <2>1 DEF Completed, StatusIs, Tasks
<1>3. DOMAIN tmp = {} /\ ~tmpDir /\ \A r \in Parts : out[r] = Absent
  BY DEF JobInit, FreshJob
<1>4. JobTypeOK
  BY <1>3, Index DEF JobInit, FreshJob, JobTypeOK
<1>5. \A w \in Workers : WorkerInv(w)
  BY ZenonT(60) DEF JobInit, Init, WorkerInv
<1>6. FileInv
  BY <1>2, <1>3 DEF FileInv, Placed
<1>7. BootInv
  BY <1>2, <1>3 DEF BootInv
<1> QED
  BY <1>1, <1>4, <1>5, <1>6, <1>7 DEF JInv

----------------------------------------------------------------------------
(* What a step leaves alone *)

SameWorker(w) ==
  /\ pc'[w] = pc[w] /\ working'[w] = working[w]
  /\ stage'[w] = stage[w] /\ part'[w] = part[w]
  /\ files'[w] = files[w] /\ input'[w] = input[w]

(* The directory still has what worker w relies on. *)
SameFiles(w) ==
  /\ tmpDir => tmpDir'
  /\ \A t \in MapTasks, i \in Parts :
       LET n == TempName(t.Index, i, w) IN n \in DOMAIN tmp => n \in DOMAIN tmp' /\ tmp'[n] = tmp[n]
  /\ \A r \in Parts : OutName(r, w) \in DOMAIN tmp => OutName(r, w) \in DOMAIN tmp'

(* Finished output stays. *)
Monotone ==
  /\ \A t \in MapTasks, i \in Parts : Placed(t, i) => Placed(t, i)'
  /\ \A r \in Parts : out[r] = File(Sequential(r)) => out'[r] = out[r]

(* A step that leaves a worker and its files alone keeps how far it is. *)
LEMMA WorkerKept ==
  ASSUME IInv, [Next]_vars, NEW w \in Workers, WorkerInv(w), SameWorker(w), SameFiles(w), Monotone
  PROVE  WorkerInv(w)'
<1>1. /\ \A t \in MapTasks : MapOutput(t)' = MapOutput(t)
      /\ \A r \in Parts : Sequential(r)' = Sequential(r)
  BY ZenonT(60), SourceKept
<1>2. ASSUME NEW t \in MapTasks, MapWorker(w, t) PROVE MapWorker(w, t)'
  BY ZenonT(60), <1>1, <1>2 DEF MapWorker, SameWorker, SameFiles, Monotone, Written
<1>3. ASSUME NEW r \in Parts, ReduceWorker(w, r) PROVE ReduceWorker(w, r)'
  BY ZenonT(60), <1>1, <1>3 DEF ReduceWorker, SameWorker, SameFiles, Monotone, Sources
<1> QED
  BY <1>2, <1>3, Index DEF WorkerInv, SameWorker

(* The invariant after a step that leaves the files alone: task t can only *)
(* have been completed by the worker that has finished it.                 *)
LEMMA QuietFiles ==
  ASSUME JInv, [Next]_vars, UNCHANGED <<tmp, out>>, tmpDir => tmpDir',
         \A w \in Workers : CompleteTask(w) => stage[w] = "finished"
  PROVE  FileInv' /\ BootInv' /\ Monotone /\ \A w \in Workers : SameFiles(w)
<1> USE DEF JInv
<1>1. /\ \A t \in MapTasks : MapOutput(t)' = MapOutput(t)
      /\ \A r \in Parts : Sequential(r)' = Sequential(r)
  BY SourceKept
<1>2. ASSUME NEW t \in Tasks, StatusIs(t, "Completed")', ~StatusIs(t, "Completed")
      PROVE  \E w \in Workers : /\ working[w] = t /\ pc[w] = "working"
                                /\ stage[w] = "finished"
  BY ZenonT(60), <1>2, OthersComplete DEF CompleteTask
<1>3. \A t \in MapTasks, i \in Parts : Placed(t, i)' = Placed(t, i)
  BY DEF Placed
<1>4. \A t \in Completed(MapTasks)', i \in Parts : Placed(t, i) /\ tmpDir
  <2> SUFFICES ASSUME NEW t \in MapTasks, StatusIs(t, "Completed")', NEW i \in Parts
               PROVE  Placed(t, i) /\ tmpDir
    BY DEF Completed
  <2>1. CASE StatusIs(t, "Completed")
    BY ZenonT(60), <2>1 DEF FileInv, BootInv, Completed
  <2>2. CASE ~StatusIs(t, "Completed")
    BY <1>2, <2>2 DEF WorkerInv, MapWorker, Tasks
  <2> QED
    BY <2>1, <2>2
<1>5. \A t \in Completed(ReduceTasks)' : out[t.Index] = File(Sequential(t.Index))
  <2> SUFFICES ASSUME NEW t \in ReduceTasks, StatusIs(t, "Completed")'
               PROVE  out[t.Index] = File(Sequential(t.Index))
    BY DEF Completed
  <2>1. CASE StatusIs(t, "Completed")
    BY ZenonT(60), <2>1 DEF FileInv, Completed
  <2>2. CASE ~StatusIs(t, "Completed")
    BY <1>2, <2>2 DEF WorkerInv, ReduceWorker, Tasks
  <2> QED
    BY ZenonT(60), <2>1, <2>2
<1>6. FileInv'
  <2>1. \A t \in MapTasks, i \in Parts : (Placed(t, i) => tmp[MapName(t.Index, i)] = MapOutput(t))'
    BY ZenonT(60), <1>1, <1>3 DEF FileInv, MapName
  <2>2. \A r \in Parts : (out[r] \in {Absent, File(Sequential(r))})'
    BY <1>1 DEF FileInv, File, Absent
  <2>3. \A t \in Completed(ReduceTasks)' : (out[t.Index] = File(Sequential(t.Index)))'
    <3>1. \A t \in Completed(ReduceTasks)' : t.Index \in Parts
      BY Index DEF Completed
    <3> QED
      BY <1>1, <1>5, <3>1 DEF File
  <2>4. \A t \in Completed(MapTasks)', i \in Parts : Placed(t, i)'
    <3>1. \A t \in Completed(MapTasks)' : t \in MapTasks
      BY DEF Completed
    <3> QED
      BY <1>3, <1>4, <3>1
  <2> QED
    BY ZenonT(60), <2>1, <2>2, <2>3, <2>4 DEF FileInv
<1>7. BootInv'
  <2>1. Completed(MapTasks)' # {} => tmpDir
    BY <1>4, Index
  <2> QED
    BY <2>1 DEF BootInv, Absent
<1> QED
  BY <1>3, <1>6, <1>7 DEF Monotone, SameFiles

(* The calls of a worker: its report comes after its last rename. *)
LEMMA CallStepJInv ==
  ASSUME JInv, NEW w \in Workers, CallStep(w)
  PROVE  JInv'
<1> USE DEF JInv
<1>1. [Next]_vars /\ IInv'
  BY NextIInv DEF CallStep, Next
<1>2. /\ stage' = [stage EXCEPT ![w] = "begin"]
      /\ UNCHANGED <<boot, fileVars, part, files, input>>
      /\ pc[w] = "working" => stage[w] = "finished"
  BY DEF CallStep, SetStage
<1>3. /\ \A v \in Workers \ {w} : pc'[v] = pc[v] /\ working'[v] = working[v]
      /\ pc[w] \in {"start", "idle", "requesting", "working"}
      /\ pc'[w] \in {"idle", "requesting", "exited", "fatal"}
      /\ pc[w] = "requesting" => pc'[w] = "exited"
  BY ZenonT(60) DEF CallStep, WorkerStep, GetNReduce, RequestTask, RequestBroken, CompleteTask, DialFails,
         MoveTo, IInv, TypeOK
<1>4. \A v \in Workers : CompleteTask(v) => stage[v] = "finished"
  <2> SUFFICES ASSUME NEW v \in Workers, CompleteTask(v) PROVE stage[v] = "finished"
    OBVIOUS
  <2>1. pc[v] = "working" /\ pc'[v] # "working"
    BY ZenonT(60) DEF CompleteTask, MoveTo, IInv, TypeOK
  <2> QED
    BY <1>2, <1>3, <2>1
<1>5. FileInv' /\ BootInv' /\ Monotone /\ \A v \in Workers : SameFiles(v)
  BY <1>1, <1>2, <1>4, QuietFiles DEF fileVars
<1>6. JobTypeOK'
  BY <1>2 DEF JobTypeOK, fileVars
<1>7. ASSUME NEW v \in Workers \ {w} PROVE WorkerInv(v)'
  <2>1. SameWorker(v)
    BY ZenonT(60), <1>2, <1>3 DEF SameWorker, JobTypeOK
  <2> QED
    BY <1>1, <1>5, <2>1, WorkerKept
<1>8. WorkerInv(w)'
  <2>1. pc'[w] \in {"idle", "requesting"} => part[w] = 0
    <3>1. CASE pc[w] = "working"
      <4>1. working[w] \in MapTasks \cup ReduceTasks
        BY <3>1 DEF IInv, LoopInv, Tasks
      <4> QED
        BY ZenonT(60), <3>1, <4>1, <1>2 DEF WorkerInv, MapWorker, ReduceWorker
    <3> QED
      BY ZenonT(60), <1>3, <3>1 DEF WorkerInv
  <2>2. stage'[w] = "begin"
    BY <1>2 DEF JobTypeOK
  <2> QED
    BY <1>2, <1>3, <2>1, <2>2 DEF WorkerInv
<1> QED
  BY <1>1, <1>5, <1>6, <1>7, <1>8

(* The coordinator's own steps touch no file. *)
LEMMA CoordinatorStepJInv ==
  ASSUME JInv, CoordinatorStep
  PROVE  JInv'
<1> USE DEF JInv
<1>1. [Next]_vars /\ IInv'
  BY NextIInv DEF CoordinatorStep, Next
<1>2. UNCHANGED <<boot, fileVars, taskVars>>
  BY ZenonT(60) DEF CoordinatorStep
<1>3. \A v \in Workers : \/ pc'[v] = pc[v] /\ working'[v] = working[v]
                         \/ pc[v] = "requesting"
  <2>1. ASSUME NEW w \in Workers, DispatchTask(w), NEW v \in Workers
        PROVE  (pc'[v] = pc[v] /\ working'[v] = working[v]) \/ pc[v] = "requesting"
    BY ZenonT(60), <2>1 DEF DispatchTask, TakeReply, MoveTo, IInv, TypeOK
  <2> QED
    BY <2>1 DEF CoordinatorStep, waitForTask, Done, Exit
<1>4. \A v \in Workers : CompleteTask(v) => stage[v] = "finished"
  <2> SUFFICES ASSUME NEW v \in Workers, CompleteTask(v) PROVE FALSE
    OBVIOUS
  <2>1. pc[v] = "working" /\ pc'[v] # "working"
    BY ZenonT(60) DEF CompleteTask, MoveTo, IInv, TypeOK
  <2> QED
    BY <1>3, <2>1
<1>5. FileInv' /\ BootInv' /\ Monotone /\ \A v \in Workers : SameFiles(v)
  BY <1>1, <1>2, <1>4, QuietFiles DEF fileVars
<1>6. JobTypeOK'
  BY <1>2 DEF JobTypeOK, fileVars, taskVars
<1>7. ASSUME NEW v \in Workers PROVE WorkerInv(v)'
  <2>1. CASE pc'[v] = pc[v] /\ working'[v] = working[v]
    <3>1. SameWorker(v)
      BY <1>2, <2>1 DEF SameWorker, taskVars
    <3> QED
      BY <1>1, <1>5, <3>1, WorkerKept
  <2>2. CASE pc[v] = "requesting"
    <3>1. stage'[v] = "begin" /\ part'[v] = 0
      BY <1>2, <2>2 DEF taskVars, WorkerInv
    <3> QED
      BY ZenonT(60), <3>1 DEF WorkerInv, MapWorker, ReduceWorker
  <2> QED
    BY <1>3, <2>1, <2>2
<1> QED
  BY <1>1, <1>5, <1>6, <1>7

(* A worker dies; or CreateTemps finds no directory, and it panics. *)
LEMMA CrashJInv ==
  ASSUME JInv, NEW w \in Workers, Crash(w), UNCHANGED <<boot, fileVars, taskVars>>
  PROVE  JInv'
<1> USE DEF JInv
<1>1. [Next]_vars /\ IInv'
  BY NextIInv DEF Next
<1>2. /\ pc' = [pc EXCEPT ![w] = "crashed"]
      /\ working' = working
  BY DEF Crash, MoveTo
<1>3. \A v \in Workers : CompleteTask(v) => stage[v] = "finished"
  <2> SUFFICES ASSUME NEW v \in Workers, CompleteTask(v) PROVE FALSE
    OBVIOUS
  <2>1. pc[v] = "working" /\ pc'[v] \in {"exited", "idle"}
    BY ZenonT(60) DEF CompleteTask, MoveTo, IInv, TypeOK
  <2> QED
    BY ZenonT(60), <1>2, <2>1 DEF IInv, TypeOK
<1>4. FileInv' /\ BootInv' /\ Monotone /\ \A v \in Workers : SameFiles(v)
  BY <1>1, <1>3, QuietFiles DEF fileVars
<1>5. JobTypeOK'
  BY ZenonT(60) DEF JobTypeOK, fileVars, taskVars
<1>6. ASSUME NEW v \in Workers \ {w} PROVE WorkerInv(v)'
  <2>1. SameWorker(v)
    BY ZenonT(60), <1>2 DEF SameWorker, taskVars, IInv, TypeOK
  <2> QED
    BY <1>1, <1>4, <2>1, WorkerKept
<1>7. WorkerInv(w)'
  BY ZenonT(60), <1>2 DEF WorkerInv, IInv, TypeOK
<1> QED
  BY <1>1, <1>4, <1>5, <1>6, <1>7

(* MakeCoordinator removes files only before there are any. *)
LEMMA BootJInv ==
  ASSUME JInv, Boot
  PROVE  JInv'
<1> USE DEF JInv
<1>1. UNCHANGED <<vars, taskVars>>
  BY DEF Boot, RemoveOut, RemoveTemp, MakeTemp
<1>2. [Next]_vars /\ IInv'
  BY <1>1, NextIInv
<1>3. /\ ~tmpDir
      /\ boot' \in {"serving", "removing", "making", "ready"}
      /\ tmpDir' = (boot' = "ready")
  BY ZenonT(60) DEF Boot, RemoveOut, RemoveTemp, MakeTemp, JobTypeOK
<1>4. UNCHANGED <<tmp, out>>
  <2>1. CASE RemoveOut
    BY <1>3, <2>1 DEF RemoveOut, BootInv, JobTypeOK
  <2>2. CASE RemoveTemp
    <3>1. DOMAIN tmp = {} /\ tmp \in [{} -> Data]
      BY <1>3 DEF BootInv, JobTypeOK
    <3> QED
      BY ZenonT(60), <2>2, <3>1 DEF RemoveTemp, Without, Restrict
  <2>3. CASE MakeTemp
    BY <2>3 DEF MakeTemp
  <2> QED
    BY <2>1, <2>2, <2>3 DEF Boot
<1>5. \A v \in Workers : ~CompleteTask(v)
  BY ZenonT(60), <1>1 DEF vars, CompleteTask, MoveTo, IInv, TypeOK
<1>6. FileInv' /\ BootInv' /\ Monotone /\ \A v \in Workers : SameFiles(v)
  BY <1>2, <1>3, <1>4, <1>5, QuietFiles
<1>7. JobTypeOK'
  BY <1>1, <1>3, <1>4 DEF JobTypeOK, taskVars
<1>8. ASSUME NEW v \in Workers PROVE WorkerInv(v)'
  <2>1. SameWorker(v)
    BY ZenonT(60), <1>1 DEF SameWorker, vars, taskVars
  <2> QED
    BY <1>2, <1>6, <2>1, WorkerKept
<1> QED
  BY <1>2, <1>6, <1>7, <1>8

----------------------------------------------------------------------------
(* The steps that touch files.  Each has one worker's files or one finished *)
(* output to answer for.                                                    *)

LEMMA FileStepJInv ==
  ASSUME JInv, NEW w \in Workers, UNCHANGED <<vars, boot, tmpDir>>, tmpDir,
         JobTypeOK', WorkerInv(w)', Monotone,
         \A v \in Workers \ {w} : SameWorker(v) /\ SameFiles(v),
         \A t \in MapTasks, i \in Parts :
           Placed(t, i)' => tmp'[MapName(t.Index, i)] = MapOutput(t),
         \A r \in Parts : out'[r] \in {out[r], File(Sequential(r))}
  PROVE  JInv'
<1> USE DEF JInv
<1>1. [Next]_vars /\ IInv'
  BY ZenonT(60), NextIInv
<1>2. /\ \A t \in MapTasks : MapOutput(t)' = MapOutput(t)
      /\ \A r \in Parts : Sequential(r)' = Sequential(r)
  BY <1>1, SourceKept
<1>3. \A v \in Workers \ {w} : WorkerInv(v)'
  BY ZenonT(60), <1>1, WorkerKept
<1>4. /\ Completed(MapTasks)' = Completed(MapTasks) /\ Completed(MapTasks) \subseteq MapTasks
      /\ Completed(ReduceTasks)' = Completed(ReduceTasks) /\ Completed(ReduceTasks) \subseteq ReduceTasks
  BY DEF vars, coordVars, Completed, StatusIs
<1>5. FileInv'
  <2>1. \A t \in MapTasks, i \in Parts : (Placed(t, i) => tmp[MapName(t.Index, i)] = MapOutput(t))'
    BY ZenonT(60), <1>2 DEF MapName
  <2>2. \A r \in Parts : (out[r] \in {Absent, File(Sequential(r))})'
    BY ZenonT(60), <1>2 DEF FileInv, File, Absent
  <2>3. \A t \in Completed(ReduceTasks)' : (out[t.Index] = File(Sequential(t.Index)))'
    <3> SUFFICES ASSUME NEW t \in Completed(ReduceTasks) PROVE out'[t.Index] = File(Sequential(t.Index)')
      BY ZenonT(60), <1>4 DEF File
    <3>1. t.Index \in Parts /\ out[t.Index] = File(Sequential(t.Index))
      BY ZenonT(60), <1>4, Index DEF FileInv
    <3> QED BY ZenonT(60), <1>2, <3>1 DEF Monotone
  <2>4. \A t \in Completed(MapTasks)', i \in Parts : Placed(t, i)'
    BY ZenonT(60), <1>4 DEF FileInv, Monotone
  <2> QED
    BY ZenonT(60), <2>1, <2>2, <2>3, <2>4 DEF FileInv
<1>6. BootInv'
  BY ZenonT(60) DEF BootInv
<1> QED
  BY ZenonT(60), <1>1, <1>3, <1>5, <1>6

(* Names that one worker's task gives to its files *)
LEMMA OwnNames ==
  ASSUME FreshJob, JInv, NEW w \in Workers, pc[w] = "working", working[w] \in MapTasks
  PROVE  /\ Temps(w) \subseteq DirNames
         /\ \A i \in Parts : TempName(working[w].Index, i, w) \in Temps(w)
         /\ \A t \in MapTasks, i \in Parts : MapName(t.Index, i) \notin Temps(w)
         /\ \A v \in Workers \ {w}, t \in MapTasks, i \in Parts : TempName(t.Index, i, v) \notin Temps(w)
         /\ \A v \in Workers, r \in Parts : OutName(r, v) \notin Temps(w)
<1>1. Temps(w) \subseteq DirNames
  BY DEF Temps, DirNames, TempNames
<1>2. \A i \in Parts : TempName(working[w].Index, i, w) \in Temps(w)
  BY ZenonT(60) DEF Temps
<1>3. ASSUME NEW t \in MapTasks, NEW i \in Parts PROVE MapName(t.Index, i) \notin Temps(w)
  BY Name, Index DEF Temps
<1>4. ASSUME NEW v \in Workers \ {w}, NEW t \in MapTasks, NEW i \in Parts
      PROVE  TempName(t.Index, i, v) \notin Temps(w)
  BY Name, Index DEF Temps
<1>5. ASSUME NEW v \in Workers, NEW r \in Parts PROVE OutName(r, v) \notin Temps(w)
  BY Name, Index DEF Temps
<1> QED
  BY ZenonT(60), <1>1, <1>2, <1>3, <1>4, <1>5

(* A worker with a reduce task: the maps are Completed, the directory is   *)
(* there and holds their output.                                           *)
LEMMA ReduceReady ==
  ASSUME FreshJob, JInv, NEW w \in Workers, working[w] \in ReduceTasks
  PROVE  /\ tmpDir
         /\ working[w].Index \in Parts
         /\ \A t \in MapTasks, i \in Parts : Placed(t, i) /\ tmp[MapName(t.Index, i)] = MapOutput(t)
<1>1. Completed(MapTasks) = MapTasks
  BY DEF JInv, IInv, Barrier
<1>2. [Type |-> "MapTask", Index |-> 0] \in MapTasks
  BY SizeAssumption DEF FreshJob, MapTasks
<1> QED
  BY <1>1, <1>2, Index DEF JInv, FileInv, BootInv

(* writeMapOutput creates its files under names of its own. *)
LEMMA CreateTempsJInv ==
  ASSUME FreshJob, JInv, NEW w \in Workers, CreateTemps(w), tmpDir
  PROVE  JInv'
<1> USE DEF JInv
<1>1. /\ pc[w] = "working" /\ working[w] \in MapTasks /\ stage[w] = "begin"
      /\ tmp' = Put(tmp, Temps(w), "cut")
      /\ stage' = [stage EXCEPT ![w] = "created"]
      /\ UNCHANGED <<vars, boot, tmpDir, out, part, files, input>>
  BY ZenonT(60) DEF CreateTemps, At, SetStage, vars
<1>2. /\ DOMAIN tmp' = DOMAIN tmp \cup Temps(w)
      /\ \A n \in DOMAIN tmp \ Temps(w) : tmp'[n] = tmp[n]
  BY <1>1 DEF Put
<1>3. \A t \in MapTasks, i \in Parts : Placed(t, i)' <=> Placed(t, i)
  <2>1. \A t \in MapTasks, i \in Parts : MapName(t.Index, i) \notin Temps(w)
    BY ZenonT(60), <1>1, OwnNames
  <2> QED
    BY ZenonT(60), <1>2, <2>1 DEF Placed
<1>4. Monotone
  BY <1>1, <1>3 DEF Monotone
<1>5. \A v \in Workers \ {w} : SameWorker(v) /\ SameFiles(v)
  <2>1. \A v \in Workers \ {w} : SameWorker(v)
    BY ZenonT(60), <1>1 DEF SameWorker, JobTypeOK, vars
  <2>2. ASSUME NEW v \in Workers \ {w} PROVE SameFiles(v)
    BY ZenonT(60), <1>1, <1>2, OwnNames DEF SameFiles
  <2> QED
    BY <2>1, <2>2
<1>6. JobTypeOK'
  <2>1. tmp' \in [DOMAIN tmp' -> Data] /\ DOMAIN tmp' \subseteq DirNames
    BY ZenonT(60), <1>1, PutType, OwnNames DEF JobTypeOK, Data
  <2> QED
    BY ZenonT(60), <1>1, <2>1 DEF JobTypeOK
<1>7. WorkerInv(w)'
  <2>1. \A i \in Parts : TempName(working[w].Index, i, w) \in DOMAIN tmp'
    BY ZenonT(60), <1>1, <1>2, OwnNames
  <2>2. part[w] = 0
    BY ZenonT(60), <1>1 DEF WorkerInv, MapWorker
  <2>3. stage'[w] = "created" /\ pc'[w] = "working" /\ working'[w] = working[w] /\ tmpDir'
    BY <1>1 DEF JobTypeOK, vars
  <2> QED
    BY ZenonT(60), <1>1, <2>1, <2>2, <2>3, TaskSets DEF WorkerInv, MapWorker, TempName
<1>8. \A t \in MapTasks, i \in Parts :
        Placed(t, i)' => tmp'[MapName(t.Index, i)] = MapOutput(t)
  BY ZenonT(60), <1>1, <1>2, <1>3, OwnNames DEF FileInv, Placed
<1> QED
  BY ZenonT(60), <1>1, <1>4, <1>5, <1>6, <1>7, <1>8, FileStepJInv

(* What it writes goes to those files only. *)
LEMMA FlushJInv ==
  ASSUME FreshJob, JInv, NEW w \in Workers, Flush(w)
  PROVE  JInv'
<1> USE DEF JInv
<1> DEFINE t == working[w]
<1>1. /\ pc[w] = "working" /\ t \in MapTasks /\ stage[w] = "created"
      /\ tmp' = Put(tmp, Temps(w) \cap DOMAIN tmp, MapOutput(t))
      /\ stage' = [stage EXCEPT ![w] = "renaming"]
      /\ UNCHANGED <<vars, boot, tmpDir, out, part, files, input>>
  BY ZenonT(60) DEF Flush, At, SetStage
<1>2. /\ tmpDir /\ part[w] = 0
      /\ \A i \in Parts : TempName(t.Index, i, w) \in DOMAIN tmp
  BY ZenonT(60), <1>1 DEF WorkerInv, MapWorker
<1>3. /\ DOMAIN tmp' = DOMAIN tmp
      /\ \A n \in DOMAIN tmp \ Temps(w) : tmp'[n] = tmp[n]
      /\ \A n \in DOMAIN tmp \cap Temps(w) : tmp'[n] = MapOutput(t)
  BY ZenonT(60), <1>1 DEF Put
<1>4. \A u \in MapTasks, i \in Parts : Placed(u, i)' <=> Placed(u, i)
  BY <1>3 DEF Placed
<1>5. Monotone
  BY ZenonT(60), <1>1, <1>4 DEF Monotone
<1>6. \A v \in Workers \ {w} : SameWorker(v) /\ SameFiles(v)
  <2>1. \A v \in Workers \ {w} : SameWorker(v)
    BY ZenonT(60), <1>1 DEF SameWorker, JobTypeOK, vars
  <2>2. ASSUME NEW v \in Workers \ {w} PROVE SameFiles(v)
    BY ZenonT(60), <1>1, <1>3, OwnNames DEF SameFiles
  <2> QED
    BY <2>1, <2>2
<1>7. JobTypeOK'
  <2>1. tmp' \in [DOMAIN tmp' -> Data] /\ DOMAIN tmp' \subseteq DirNames
    BY <1>1, PutType DEF JobTypeOK, Data, MapOutput
  <2> QED
    BY ZenonT(60), <1>1, <2>1 DEF JobTypeOK
<1>8. WorkerInv(w)'
  <2>1. \A i \in Parts : Written(t, i, w)'
    <3>1. \A i \in Parts : TempName(t.Index, i, w) \in DOMAIN tmp'
                           /\ tmp'[TempName(t.Index, i, w)] = MapOutput(t)
      BY ZenonT(60), <1>1, <1>2, <1>3, OwnNames
    <3>2. MapOutput(t)' = MapOutput(t)
      BY ZenonT(60), <1>1 DEF MapOutput, vars, coordVars
    <3> QED
      BY ZenonT(60), <1>1, <3>1, <3>2 DEF Written, vars, TempName
  <2>2. /\ stage'[w] = "renaming" /\ part'[w] = 0 /\ tmpDir'
        /\ pc'[w] = "working" /\ working'[w] = t
    BY ZenonT(60), <1>1, <1>2 DEF JobTypeOK, vars
  <2>3. MapWorker(w, t)'
    BY ZenonT(60), <2>1, <2>2, PartOrder DEF MapWorker
  <2> QED
    BY ZenonT(60), <1>1, <2>2, <2>3, TaskSets DEF WorkerInv, vars
<1>9. \A u \in MapTasks, i \in Parts :
        Placed(u, i)' => tmp'[MapName(u.Index, i)] = MapOutput(u)
  BY ZenonT(60), <1>1, <1>3, <1>4, OwnNames DEF FileInv, Placed
<1> QED
  BY ZenonT(60), <1>1, <1>2, <1>5, <1>6, <1>7, <1>8, <1>9, FileStepJInv

(* A map output gets its name when it is complete. *)
LEMMA RenameTempJInv ==
  ASSUME FreshJob, JInv, NEW w \in Workers, RenameTemp(w)
  PROVE  JInv'
<1> USE DEF JInv
<1> DEFINE t == working[w]
           k == part[w]
           temp == TempName(t.Index, k, w)
           name == MapName(t.Index, k)
<1>1. /\ pc[w] = "working" /\ t \in MapTasks /\ stage[w] = "renaming"
      /\ part' = [part EXCEPT ![w] = (k + 1) % NReduce]
      /\ stage' = [stage EXCEPT ![w] = IF part'[w] = 0 THEN "finished" ELSE "renaming"]
      /\ UNCHANGED <<vars, boot, tmpDir, out, files, input>>
  BY ZenonT(60) DEF RenameTemp, At, SetStage
<1>2. /\ tmpDir /\ k \in Parts
      /\ \A i \in Parts : IF i < k THEN Placed(t, i) ELSE Written(t, i, w)
  BY ZenonT(60), <1>1 DEF WorkerInv, MapWorker, JobTypeOK
<1>3. temp \in DOMAIN tmp /\ tmp[temp] = MapOutput(t)
  BY ZenonT(60), <1>2, PartOrder DEF Written
<1>4. /\ DOMAIN tmp' = (DOMAIN tmp \ {temp}) \cup {name}
      /\ tmp'[name] = MapOutput(t)
      /\ \A n \in DOMAIN tmp \ {temp, name} : tmp'[n] = tmp[n]
  <2>1. tmp' = Put(Without(tmp, {temp}), {name}, tmp[temp])
    BY <1>3 DEF RenameTemp
  <2> QED
    BY ZenonT(60), <1>3, <2>1 DEF Put, Without, Restrict
<1>5. /\ name \in DirNames
      /\ \A u \in MapTasks, i \in Parts : MapName(u.Index, i) # temp
      /\ \A u \in MapTasks, i \in Parts : MapName(u.Index, i) = name => u = t /\ i = k
      /\ \A v \in Workers, u \in MapTasks, i \in Parts :
           /\ TempName(u.Index, i, v) # name
           /\ TempName(u.Index, i, v) = temp => v = w /\ i = k
      /\ \A v \in Workers, r \in Parts : OutName(r, v) \notin {temp, name}
  <2>1. name \in DirNames
    BY <1>1, <1>2 DEF DirNames, MapNames
  <2>2. t \in MapTasks /\ k \in Parts
    BY ZenonT(60), <1>1, <1>2
  <2>3. /\ \A u \in MapTasks, i \in Parts : MapName(u.Index, i) = name => u = t /\ i = k
        /\ \A u \in MapTasks, i \in Parts, v \in Workers : TempName(u.Index, i, v) # name
        /\ \A r \in Parts, v \in Workers : OutName(r, v) # name
    BY ZenonT(60), <2>2, MapApart
  <2>4. /\ \A u \in MapTasks, i \in Parts, v \in Workers : TempName(u.Index, i, v) = temp => v = w /\ i = k
        /\ \A u \in MapTasks, i \in Parts : MapName(u.Index, i) # temp
        /\ \A r \in Parts, v \in Workers : OutName(r, v) # temp
    BY ZenonT(60), <2>2, TempApart
  <2> QED
    BY ZenonT(60), <2>1, <2>3, <2>4
<1>6. Monotone
  BY ZenonT(60), <1>1, <1>4, <1>5 DEF Monotone, Placed
<1>7. \A v \in Workers \ {w} : SameWorker(v) /\ SameFiles(v)
  <2>1. \A v \in Workers \ {w} : SameWorker(v)
    BY <1>1 DEF SameWorker, JobTypeOK, vars
  <2>2. ASSUME NEW v \in Workers \ {w} PROVE SameFiles(v)
    BY ZenonT(60), <1>1, <1>4, <1>5 DEF SameFiles
  <2> QED
    BY <2>1, <2>2
<1>8. part' \in [Workers -> Parts] /\ (part'[w] = 0 => k = NReduce - 1)
      /\ (part'[w] # 0 => part'[w] = k + 1)
  <2>1. part'[w] = (k + 1) % NReduce /\ \A v \in Workers \ {w} : part'[v] = part[v]
    BY ZenonT(60), <1>1 DEF JobTypeOK
  <2>2. (k + 1) % NReduce = IF k = NReduce - 1 THEN 0 ELSE k + 1
    BY <1>2, SizeAssumption DEF Parts
  <2>3. (k + 1) % NReduce \in Parts
    BY <1>2, <2>2, SizeAssumption DEF Parts
  <2> QED
    BY <1>1, <1>2, <2>1, <2>2, <2>3, SizeAssumption DEF JobTypeOK, Parts
<1>9. JobTypeOK'
  <2>1. tmp' \in [DOMAIN tmp' -> Data] /\ DOMAIN tmp' \subseteq DirNames
    <3>1. tmp' = Put(Without(tmp, {temp}), {name}, tmp[temp])
      BY <1>3 DEF RenameTemp
    <3> QED
      BY ZenonT(60), <1>3, <1>5, <3>1, PutType, WithoutType DEF JobTypeOK
  <2> QED
    BY ZenonT(60), <1>1, <1>8, <2>1 DEF JobTypeOK
<1>10. WorkerInv(w)'
  <2>1. /\ \A i \in Parts : i <= k => Placed(t, i)'
        /\ \A i \in Parts : i > k => Written(t, i, w)'
    <3>1. ASSUME NEW i \in Parts, i <= k PROVE Placed(t, i)'
      <4>1. MapName(t.Index, i) \in DOMAIN tmp'
        <5>1. i < k \/ i = k
          BY <1>2, <3>1 DEF Parts
        <5> QED
          BY ZenonT(60), <1>1, <1>2, <1>4, <1>5, <5>1 DEF Placed
      <4> QED
        BY ZenonT(60), <1>1, <4>1 DEF Placed, vars, MapName
    <3>2. ASSUME NEW i \in Parts, i > k PROVE Written(t, i, w)'
      <4>1. TempName(t.Index, i, w) \in DOMAIN tmp' /\ tmp'[TempName(t.Index, i, w)] = MapOutput(t)
        <5>1. ~(i < k) /\ i # k
          BY <1>2, <3>2 DEF Parts
        <5> QED
          BY ZenonT(60), <1>1, <1>2, <1>4, <1>5, <5>1 DEF Written
      <4>2. MapOutput(t)' = MapOutput(t)
        BY ZenonT(60), <1>1 DEF MapOutput, vars, coordVars
      <4> QED
        BY ZenonT(60), <1>1, <4>1, <4>2 DEF Written, vars, TempName
    <3> QED
      BY ZenonT(60), <3>1, <3>2
  <2>2. /\ stage'[w] = IF part'[w] = 0 THEN "finished" ELSE "renaming"
        /\ tmpDir' /\ pc'[w] = "working" /\ working'[w] = t
    BY <1>1, <1>2 DEF JobTypeOK, vars
  <2>3. MapWorker(w, t)'
    <3>1. CASE part'[w] = 0
      <4>0. k = NReduce - 1
        BY ZenonT(60), <1>8, <3>1
      <4>1. \A i \in Parts : i <= k
        BY <4>0, PartOrder
      <4>2. \A i \in Parts : Placed(t, i)'
        BY ZenonT(60), <2>1, <4>1
      <4> QED
        BY ZenonT(60), <2>2, <3>1, <4>2 DEF MapWorker
    <3>2. CASE part'[w] # 0
      <4>1. stage'[w] = "renaming"
        BY ZenonT(60), <2>2, <3>2
      <4>2. \A i \in Parts : (i < part'[w] => i <= k) /\ (~(i < part'[w]) => i > k)
        BY ZenonT(60), <1>2, <1>8, <3>2, PartOrder
      <4>3. \A i \in Parts : (i < part'[w] => Placed(t, i)') /\ (~(i < part'[w]) => Written(t, i, w)')
        BY ZenonT(60), <2>1, <4>2
      <4> QED
        BY ZenonT(60), <2>2, <4>1, <4>2, <4>3 DEF MapWorker
    <3> QED
      BY ZenonT(60), <3>1, <3>2
  <2> QED
    BY ZenonT(60), <1>1, <2>2, <2>3, TaskSets DEF WorkerInv, vars
<1>11. \A u \in MapTasks, i \in Parts :
         Placed(u, i)' => tmp'[MapName(u.Index, i)] = MapOutput(u)
  BY ZenonT(60), <1>1, <1>4, <1>5 DEF FileInv, Placed
<1> QED
  BY ZenonT(60), <1>1, <1>2, <1>6, <1>7, <1>9, <1>10, <1>11, FileStepJInv

(* The pattern of doReduce finds the outputs of the maps, and no others. *)
LEMMA GlobIsSources ==
  ASSUME FreshJob, JInv, NEW w \in Workers, working[w] \in ReduceTasks
  PROVE  Glob(working[w].Index) = Sources(working[w].Index)
<1> DEFINE r == working[w].Index
<1>1. r \in Parts
  BY ZenonT(60), ReduceReady
<1>2. ASSUME NEW n \in Glob(r) PROVE n \in Sources(r)
  <2>1. n \in DirNames /\ Suffix(n) = r
    BY ZenonT(60), <1>2 DEF Glob, JInv, JobTypeOK
  <2>2. n \notin TempNames
    BY <1>1, <2>1, Name, Index DEF TempNames
  <2>3. n \notin OutNames
    BY <1>1, <2>1, Name, Index DEF OutNames
  <2>4. PICK t \in MapTasks, i \in Parts : n = MapName(t.Index, i)
    <3>1. n \in MapNames
      BY ZenonT(60), <2>1, <2>2, <2>3 DEF DirNames
    <3> QED
      BY <3>1 DEF MapNames
  <2>5. i = r
    BY <2>1, <2>4, Name, Index
  <2> QED
    BY <2>4, <2>5 DEF Sources
<1>3. ASSUME NEW t \in MapTasks PROVE MapName(t.Index, r) \in Glob(r)
  <2>1. MapName(t.Index, r) \in DOMAIN tmp
    BY ZenonT(60), <1>1, ReduceReady DEF Placed
  <2>2. Suffix(MapName(t.Index, r)) = r
    BY ZenonT(60), <1>1, Name, Index
  <2> QED
    BY <2>1, <2>2 DEF Glob
<1> QED
  BY <1>2, <1>3 DEF Sources

LEMMA SameVars ==
  ASSUME UNCHANGED vars
  PROVE  /\ \A t \in MapTasks : MapOutput(t)' = MapOutput(t)
         /\ \A r \in Parts : Sequential(r)' = Sequential(r)
BY ZenonT(60) DEF vars, coordVars, MapOutput, Sequential

(* The reduce steps that only read. *)
LEMMA ReadJInv ==
  ASSUME FreshJob, JInv, NEW w \in Workers, ListFiles(w) \/ ReadFiles(w)
  PROVE  JInv'
<1> USE DEF JInv
<1> DEFINE r == working[w].Index
<1>1. /\ pc[w] = "working" /\ working[w] \in ReduceTasks
      /\ UNCHANGED <<vars, boot, fileVars, part>>
  BY ZenonT(60) DEF ListFiles, ReadFiles, At
<1>2. /\ tmpDir /\ r \in Parts
      /\ \A t \in MapTasks, i \in Parts : Placed(t, i) /\ tmp[MapName(t.Index, i)] = MapOutput(t)
  BY ZenonT(60), <1>1, ReduceReady
<1>3. ReduceWorker(w, r)
  BY ZenonT(60), <1>1 DEF WorkerInv
<1>4. /\ Monotone /\ \A v \in Workers : SameFiles(v)
      /\ \A t \in MapTasks, i \in Parts : tmp'[MapName(t.Index, i)] = MapOutput(t)
  BY ZenonT(60), <1>1, <1>2 DEF Monotone, SameFiles, Placed, fileVars
<1>5. CASE ListFiles(w)
  <2>1. /\ files' = [files EXCEPT ![w] = Glob(r)]
        /\ stage' = [stage EXCEPT ![w] = "listed"]
        /\ UNCHANGED input
    BY ZenonT(60), <1>5 DEF ListFiles, SetStage
  <2>2. Glob(r) = Sources(r)
    BY ZenonT(60), <1>1, GlobIsSources
  <2>3. Sources(r) \subseteq DirNames
    BY ZenonT(60), <1>2, SourceNames
  <2>4. JobTypeOK'
    BY ZenonT(60), <1>1, <2>1, <2>2, <2>3 DEF JobTypeOK, fileVars
  <2>5. \A v \in Workers \ {w} : SameWorker(v)
    BY ZenonT(60), <1>1, <2>1 DEF SameWorker, JobTypeOK, vars
  <2>6. stage'[w] = "listed" /\ files'[w] = Sources(r) /\ part'[w] = 0
    BY ZenonT(60), <1>1, <1>3, <2>1, <2>2 DEF JobTypeOK, ReduceWorker
  <2>7. ReduceWorker(w, r)'
    BY ZenonT(60), <1>1, <2>6 DEF ReduceWorker, vars, Sources
  <2>8. WorkerInv(w)'
    BY ZenonT(60), <1>1, <2>7, TaskSets DEF WorkerInv, vars
  <2> QED
    BY ZenonT(60), <1>1, <1>2, <1>4, <2>4, <2>5, <2>8, FileStepJInv DEF fileVars
<1>6. CASE ReadFiles(w)
  <2>1. stage[w] = "listed" /\ files[w] = Sources(r)
    BY ZenonT(60), <1>3, <1>6 DEF ReadFiles, At, ReduceWorker
  <2> DEFINE found == files[w] \cap DOMAIN tmp
  <2>2. found = Sources(r)
    BY ZenonT(60), <1>2, <2>1 DEF Sources, Placed
  <2>3. \A n \in found : n.kind # "out" /\ tmp[n] # "cut"
    <3>1. \A t \in MapTasks : MapOutput(t) # "cut"
      BY ZenonT(60) DEF MapOutput
    <3>2. \A t \in MapTasks : MapName(t.Index, r).kind # "out"
      BY ZenonT(60), <1>2, MapApart
    <3> QED
      BY ZenonT(60), <1>2, <2>2, <3>1, <3>2 DEF Sources
  <2>4. {<<n, tmp[n]>> : n \in found} = Sequential(r)
    <3>1. ASSUME NEW x \in {<<n, tmp[n]>> : n \in found} PROVE x \in Sequential(r)
      <4>1. PICK n \in found : x = <<n, tmp[n]>>
        BY ZenonT(60), <3>1
      <4>2. PICK t \in MapTasks : n = MapName(t.Index, r)
        BY ZenonT(60), <2>2, <4>1 DEF Sources
      <4>3. tmp[MapName(t.Index, r)] = MapOutput(t)
        BY ZenonT(60), <1>2
      <4> QED
        BY ZenonT(60), <4>1, <4>2, <4>3 DEF Sequential
    <3>2. ASSUME NEW x \in Sequential(r) PROVE x \in {<<n, tmp[n]>> : n \in found}
      <4>1. PICK t \in MapTasks : x = <<MapName(t.Index, r), MapOutput(t)>>
        BY ZenonT(60), <3>2 DEF Sequential
      <4>2. MapName(t.Index, r) \in found /\ tmp[MapName(t.Index, r)] = MapOutput(t)
        BY ZenonT(60), <1>2, <2>2 DEF Sources
      <4> QED
        BY ZenonT(60), <4>1, <4>2
    <3> QED
      BY ZenonT(60), <3>1, <3>2
  <2>5. /\ input' = [input EXCEPT ![w] = {<<n, tmp[n]>> : n \in found}]
        /\ stage' = [stage EXCEPT ![w] = "read"]
        /\ files' = [files EXCEPT ![w] = {}]
    BY ZenonT(60), <1>6, <2>3 DEF ReadFiles, SetStage
  <2>6. Sequential(r) \subseteq DirNames \X Data
    BY ZenonT(60), <1>2, SourceNames
  <2>7. JobTypeOK'
    BY <1>1, <2>4, <2>5, <2>6 DEF JobTypeOK, fileVars
  <2>8. \A v \in Workers \ {w} : SameWorker(v)
    BY ZenonT(60), <1>1, <2>5 DEF SameWorker, JobTypeOK, vars
  <2>9. stage'[w] = "read" /\ input'[w] = Sequential(r) /\ part'[w] = 0
    BY <1>1, <1>3, <2>4, <2>5 DEF JobTypeOK, ReduceWorker
  <2>10. ReduceWorker(w, r)'
    BY ZenonT(60), <1>1, <1>2, <2>9, SameVars DEF ReduceWorker, vars
  <2>11. WorkerInv(w)'
    BY ZenonT(60), <1>1, <2>10, TaskSets DEF WorkerInv, vars
  <2> QED
    BY ZenonT(60), <1>1, <1>2, <1>4, <2>7, <2>8, <2>11, FileStepJInv DEF fileVars
<1> QED
  BY ZenonT(60), <1>5, <1>6

(* A reduce output is written under a name of its own. *)
LEMMA CreateOutJInv ==
  ASSUME FreshJob, JInv, NEW w \in Workers, CreateOut(w)
  PROVE  JInv'
<1> USE DEF JInv
<1> DEFINE r == working[w].Index
           name == OutName(r, w)
<1>1. /\ pc[w] = "working" /\ working[w] \in ReduceTasks /\ stage[w] = "read"
      /\ stage' = [stage EXCEPT ![w] = "created"]
      /\ UNCHANGED <<vars, boot, tmpDir, out, part, files, input>>
  BY DEF CreateOut, At, SetStage
<1>2. /\ tmpDir /\ r \in Parts
      /\ input[w] = Sequential(r) /\ part[w] = 0
  BY ZenonT(60), <1>1, ReduceReady DEF WorkerInv, ReduceWorker
<1>3. tmp' = Put(tmp, {name}, "whole")
  BY ZenonT(60), <1>2 DEF CreateOut
<1>4. /\ DOMAIN tmp' = DOMAIN tmp \cup {name}
      /\ \A n \in DOMAIN tmp \ {name} : tmp'[n] = tmp[n]
  BY ZenonT(60), <1>3 DEF Put
<1>5. /\ name \in DirNames
      /\ \A t \in MapTasks, i \in Parts : MapName(t.Index, i) # name
      /\ \A v \in Workers, t \in MapTasks, i \in Parts : TempName(t.Index, i, v) # name
  <2>1. name \in DirNames
    BY <1>2 DEF DirNames, OutNames
  <2>2. \A t \in MapTasks : t.Index \in Nat
    BY ZenonT(60), Index
  <2>3. ASSUME NEW a \in Nat, NEW i \in Parts, NEW v \in Workers
        PROVE  MapName(a, i) # name /\ TempName(a, i, v) # name
    BY <1>2, Name
  <2> QED
    BY ZenonT(60), <2>1, <2>2, <2>3
<1>6. Monotone
  BY ZenonT(60), <1>1, <1>4, <1>5 DEF Monotone, Placed
<1>7. \A v \in Workers \ {w} : SameWorker(v) /\ SameFiles(v)
  BY ZenonT(60), <1>1, <1>4, <1>5 DEF SameWorker, SameFiles, JobTypeOK, vars
<1>8. JobTypeOK'
  <2>1. tmp' \in [DOMAIN tmp' -> Data] /\ DOMAIN tmp' \subseteq DirNames
    BY <1>3, <1>5, PutType DEF JobTypeOK, Data
  <2> QED
    BY ZenonT(60), <1>1, <2>1 DEF JobTypeOK
<1>9. WorkerInv(w)'
  <2>1. stage'[w] = "created" /\ input'[w] = Sequential(r) /\ part'[w] = 0 /\ name \in DOMAIN tmp'
    BY <1>1, <1>2, <1>4 DEF JobTypeOK
  <2>2. ReduceWorker(w, r)'
    BY ZenonT(60), <1>1, <1>2, <2>1, SameVars DEF ReduceWorker, vars, OutName
  <2> QED
    BY ZenonT(60), <1>1, <2>2, TaskSets DEF WorkerInv, vars
<1>10. \A t \in MapTasks, i \in Parts :
         Placed(t, i)' => tmp'[MapName(t.Index, i)] = MapOutput(t)
  BY ZenonT(60), <1>4, <1>5 DEF FileInv, Placed
<1> QED
  BY ZenonT(60), <1>1, <1>2, <1>6, <1>7, <1>8, <1>9, <1>10, FileStepJInv

(* It replaces a file that is absent or equal. *)
LEMMA RenameOutJInv ==
  ASSUME FreshJob, JInv, NEW w \in Workers, RenameOut(w)
  PROVE  JInv'
<1> USE DEF JInv
<1> DEFINE r == working[w].Index
           name == OutName(r, w)
<1>1. /\ pc[w] = "working" /\ working[w] \in ReduceTasks /\ stage[w] = "created"
      /\ stage' = [stage EXCEPT ![w] = "finished"]
      /\ input' = [input EXCEPT ![w] = {}]
      /\ UNCHANGED <<vars, boot, tmpDir, part, files>>
  BY ZenonT(60) DEF RenameOut, At, SetStage
<1>2. /\ tmpDir /\ r \in Parts
      /\ input[w] = Sequential(r) /\ part[w] = 0 /\ name \in DOMAIN tmp
  BY ZenonT(60), <1>1, ReduceReady DEF WorkerInv, ReduceWorker
<1>3. /\ tmp' = Without(tmp, {name})
      /\ out' = [out EXCEPT ![r] = File(Sequential(r))]
  BY ZenonT(60), <1>2 DEF RenameOut
<1>4. /\ DOMAIN tmp' = DOMAIN tmp \ {name}
      /\ \A n \in DOMAIN tmp \ {name} : tmp'[n] = tmp[n]
      /\ out'[r] = File(Sequential(r))
      /\ \A s \in Parts \ {r} : out'[s] = out[s]
  BY <1>2, <1>3 DEF Without, Restrict, JobTypeOK
<1>5. /\ \A t \in MapTasks, i \in Parts : MapName(t.Index, i) # name
      /\ \A v \in Workers, t \in MapTasks, i \in Parts : TempName(t.Index, i, v) # name
      /\ \A v \in Workers \ {w}, s \in Parts : OutName(s, v) # name
  <2>1. r \in Parts
    BY ZenonT(60), <1>2
  <2>2. \A t \in MapTasks, i \in Parts : MapName(t.Index, i) # name
    BY ZenonT(60), <2>1, OutApart
  <2>3. \A v \in Workers, t \in MapTasks, i \in Parts : TempName(t.Index, i, v) # name
    BY ZenonT(60), <2>1, OutApart
  <2>4. \A v \in Workers \ {w}, s \in Parts : OutName(s, v) # name
    BY ZenonT(60), <2>1, OutApart
  <2> QED
    BY ZenonT(60), <2>2, <2>3, <2>4
<1>6. Monotone
  <2>1. \A t \in MapTasks, i \in Parts : Placed(t, i) => Placed(t, i)'
    BY ZenonT(60), <1>4, <1>5 DEF Placed
  <2> QED
    BY ZenonT(60), <1>4, <2>1 DEF Monotone
<1>7. \A v \in Workers \ {w} : SameWorker(v) /\ SameFiles(v)
  BY ZenonT(60), <1>1, <1>4, <1>5 DEF SameWorker, SameFiles, JobTypeOK, vars
<1>8. JobTypeOK'
  <2>1. tmp' \in [DOMAIN tmp' -> Data] /\ DOMAIN tmp' \subseteq DirNames
    BY ZenonT(60), <1>3, WithoutType DEF JobTypeOK
  <2>2. out' = [s \in Parts |-> out'[s]]
    BY ZenonT(60), <1>3 DEF JobTypeOK
  <2> QED
    BY ZenonT(60), <1>1, <2>1, <2>2 DEF JobTypeOK
<1>9. WorkerInv(w)'
  <2>1. stage'[w] = "finished" /\ part'[w] = 0
    BY <1>1, <1>2 DEF JobTypeOK
  <2>2. ReduceWorker(w, r)'
    BY ZenonT(60), <1>1, <1>2, <1>4, <2>1, SameVars DEF ReduceWorker, vars, File
  <2> QED
    BY ZenonT(60), <1>1, <2>2, TaskSets DEF WorkerInv, vars
<1>10. \A t \in MapTasks, i \in Parts :
         Placed(t, i)' => tmp'[MapName(t.Index, i)] = MapOutput(t)
  BY ZenonT(60), <1>4, <1>5 DEF FileInv, Placed
<1>11. \A s \in Parts : out'[s] \in {out[s], File(Sequential(s))}
  BY <1>4
<1> QED
  BY ZenonT(60), <1>1, <1>2, <1>6, <1>7, <1>8, <1>9, <1>10, <1>11, FileStepJInv

----------------------------------------------------------------------------
LEMMA NextJInv == FreshJob /\ JInv /\ [JobNext]_jobVars => JInv'
<1> SUFFICES ASSUME FreshJob, JInv, [JobNext]_jobVars PROVE JInv'
  OBVIOUS
<1>1. CASE UNCHANGED jobVars
  <2>1. [Next]_vars /\ IInv'
    BY <1>1, NextIInv DEF jobVars, JInv
  <2>2. \A w \in Workers : ~CompleteTask(w)
    BY ZenonT(60), <1>1 DEF jobVars, vars, CompleteTask, MoveTo, JInv, IInv, TypeOK
  <2>3. FileInv' /\ BootInv' /\ Monotone /\ \A w \in Workers : SameFiles(w)
    BY ZenonT(60), <1>1, <2>1, <2>2, QuietFiles DEF jobVars, fileVars
  <2>4. JobTypeOK'
    BY <1>1 DEF jobVars, fileVars, taskVars, JInv, JobTypeOK
  <2>5. \A w \in Workers : SameWorker(w)
    BY <1>1 DEF jobVars, vars, taskVars, SameWorker
  <2> QED
    BY <2>1, <2>3, <2>4, <2>5, WorkerKept DEF JInv
<1>2. CASE Boot
  BY <1>2, BootJInv
<1>3. CASE CoordinatorStep
  BY ZenonT(60), <1>3, CoordinatorStepJInv
<1>4. ASSUME NEW w \in Workers, FileStep(w) PROVE JInv'
  <2>1. CASE CreateTemps(w) /\ tmpDir
    BY <2>1, CreateTempsJInv
  <2>2. CASE CreateTemps(w) /\ ~tmpDir
    <3>1. Crash(w) /\ UNCHANGED <<boot, fileVars, taskVars>>
      BY <2>2 DEF CreateTemps, At, Crash, fileVars, taskVars
    <3> QED
      BY ZenonT(60), <3>1, CrashJInv
  <2> QED
    BY <1>4, <2>1, <2>2, FlushJInv, RenameTempJInv, ReadJInv, CreateOutJInv, RenameOutJInv DEF FileStep
<1>5. ASSUME NEW w \in Workers, CallStep(w) PROVE JInv'
  BY <1>5, CallStepJInv
<1>6. ASSUME NEW w \in Workers, CrashStep(w) PROVE JInv'
  BY <1>6, CrashJInv DEF CrashStep
<1> QED
  BY <1>1, <1>2, <1>3, <1>4, <1>5, <1>6 DEF JobNext

(* The invariant of a job that starts in a fresh directory. *)
THEOREM JobInvariance == FreshJob /\ JobSpec => []JInv
<1>1. FreshJob => FreshJob'
  BY DEF FreshJob
<1> QED
  BY <1>1, InitJInv, NextJInv, PTL DEF JobSpec

----------------------------------------------------------------------------
(* The properties that matter *)

(* A map task that CompleteTask accepted has all its parts in tmp, whole,  *)
(* whichever other attempts at it doMap cuts short or finishes late.       *)
THEOREM MapsAreWhole == FreshJob /\ JobSpec => []CompletedMapsAreWhole
<1>1. JInv => CompletedMapsAreWhole
  <2> SUFFICES ASSUME JInv, NEW t \in Completed(MapTasks), NEW i \in Parts
               PROVE  /\ MapName(t.Index, i) \in DOMAIN tmp
                      /\ tmp[MapName(t.Index, i)] = MapOutput(t)
    BY ZenonT(60) DEF CompletedMapsAreWhole
  <2> QED
    BY DEF JInv, FileInv, Placed, Completed
<1> QED
  BY <1>1, JobInvariance, PTL

(* When Done answers true every mr-out-<r> is there and was computed from  *)
(* part r of every map, each once: the output of mrsequential.go.          *)
THEOREM OutputCorrect == FreshJob /\ JobSpec => []OutputIsSequential
<1>1. JInv => OutputIsSequential
  <2> SUFFICES ASSUME JInv, main # "polling", NEW r \in Parts
               PROVE  out[r] = File(Sequential(r))
    BY ZenonT(60) DEF OutputIsSequential
  <2>1. Completed(Tasks) = Tasks
    BY DEF JInv, IInv, ExitInv
  <2>2. PICK t \in ReduceTasks : t.Index = r
    BY Index
  <2>3. t \in Completed(ReduceTasks)
    BY <2>1 DEF Completed, Tasks
  <2> QED
    BY <2>2, <2>3 DEF JInv, FileInv
<1> QED
  BY <1>1, JobInvariance, PTL

(* Once a worker has left its loop no mr-out-<r> changes: a worker that    *)
(* was given up renames an equal file into place.                          *)
THEOREM FrozenCorrect == FreshJob /\ JobSpec => OutputFrozen
<1>1. JInv /\ JInv' /\ [JobNext]_jobVars =>
        [(\E w \in Workers : pc[w] = "exited") => out' = out]_jobVars
  <2> SUFFICES ASSUME JInv, JInv', [JobNext]_jobVars, NEW w \in Workers, pc[w] = "exited"
               PROVE  out' = out
    OBVIOUS
  <2>1. [Next]_vars
    BY JobStepIsStep
  <2>2. Completed(Tasks) = Tasks
    BY ZenonT(60) DEF JInv, IInv, ExitInv
  <2>3. \A t \in Tasks : StatusIs(t, "Completed")'
    <3>1. \A t \in Tasks : StatusIs(t, "Completed") /\ tasks'[t] = tasks[t]
      BY ZenonT(60), <2>1, <2>2, CompletedKept DEF JInv, Completed
    <3> QED
      BY <3>1 DEF StatusIs
  <2>4. \A r \in Parts : out[r] = File(Sequential(r)) /\ out'[r] = File(Sequential(r)')
    <3> SUFFICES ASSUME NEW r \in Parts
                 PROVE  out[r] = File(Sequential(r)) /\ out'[r] = File(Sequential(r)')
      BY ZenonT(60)
    <3>1. PICK t \in ReduceTasks : t.Index = r
      BY Index
    <3>2. t \in Completed(ReduceTasks) /\ t \in Completed(ReduceTasks)'
      BY <2>2, <2>3 DEF Completed, Tasks
    <3> QED
      BY ZenonT(60), <3>1, <3>2 DEF JInv, FileInv, File
  <2>5. \A r \in Parts : out'[r] = out[r]
    BY ZenonT(60), <2>1, <2>4, SourceKept DEF JInv
  <2> QED
    BY <2>5 DEF JInv, JobTypeOK
<1> QED
  BY <1>1, JobInvariance, PTL DEF JobSpec, OutputFrozen
=============================================================================
