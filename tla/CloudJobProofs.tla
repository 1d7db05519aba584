--------------------------- MODULE CloudJobProofs ---------------------------
(***************************************************************************)
(* Proofs about CloudJob for every number of workers, maps and parts, and  *)
(* any trials: what becomes of the files on the server while handlers of   *)
(* POST take them away and write them anew.  The coordinator's part of the *)
(* argument is the invariant IInv of MapReduceProofs.                      *)
(***************************************************************************)
EXTENDS CloudJob, MapReduceProofs

Maps == MapIds \X {"old", "new"}
Files == [exists : BOOLEAN, whole : BOOLEAN, from : SUBSET Maps]

CloudTypeOK ==
  /\ trial \in Trials
  /\ up \in BOOLEAN
  /\ store \in [Names -> Files]
  /\ post \in [Workers -> {"none", "stat", "remove", "create", "write"}]
  /\ linked \in [Workers -> BOOLEAN]
  /\ stage \in [Workers -> {"begin", "listed", "hung", "uploading", "finished"}]
  /\ part \in [Workers -> Parts]
  /\ files \in [Workers -> SUBSET MapIds]
  /\ input \in [Workers -> SUBSET Maps]
  /\ fetch \in [busy : BOOLEAN, todo : SUBSET Parts]
  /\ result \in [Parts -> Files]

(* A handler of POST serves an upload of a worker that waits or has died;  *)
(* a worker that has no task has nothing half done.                        *)
PostInv(w) ==
  /\ post[w] # "none" => /\ up /\ stage[w] = "uploading"
                         /\ pc[w] \in {"working", "crashed"} /\ working[w] \in Tasks
  /\ pc[w] \in {"start", "idle", "requesting"} => stage[w] = "begin"
  /\ stage[w] # "uploading" => part[w] = 0

(* A name that was there is there, or about to be created again. *)
Kept(n) ==
  \/ store[n].exists
  \/ \E w \in Workers : post[w] = "create" /\ Target(w) = n

(* Whoever removes the file of map m goes on to write it, or one who       *)
(* removed it later.                                                       *)
New(m) == File({<<m, "new">>})
Ready(m, i) ==
  \/ store[MapName(m, i)] = New(m)
  \/ \E w \in Workers : /\ post[w] = "create" \/ (post[w] = "write" /\ linked[w])
                        /\ Target(w) = MapName(m, i)

(* A handler that lost its file to another may finish without it. *)
HandlerInv(w) ==
  /\ post[w] = "remove" => Kept(Target(w))
  /\ post[w] = "write" /\ ~linked[w] /\ working[w] \in MapTasks => Ready(working[w].Index, part[w])

(* What a worker has uploaded or found in the list. *)
WorkerInv(w) ==
  pc[w] = "working" =>
    /\ working[w] \in MapTasks =>
         \A i \in Parts : stage[w] = "finished" \/ (stage[w] = "uploading" /\ i < part[w])
                            => Ready(working[w].Index, i)
    /\ working[w] \in ReduceTasks /\ stage[w] = "listed" =>
         \A m \in files[w] : Kept(MapName(m, working[w].Index))

(* What the coordinator relies on. *)
JobInv ==
  /\ \A t \in Completed(MapTasks), i \in Parts : Ready(t.Index, i)
  /\ \A r \in fetch.todo : Kept(OutName(r))

CInv ==
  /\ IInv
  /\ CloudTypeOK
  /\ \A w \in Workers : PostInv(w)
  /\ up => JobInv /\ \A w \in Workers : HandlerInv(w) /\ WorkerInv(w)

----------------------------------------------------------------------------
(* Tidy trials: nobody is given up while they work, so nobody shares a     *)
(* task, and what doMap and doReduce ask for is there.                     *)

OwnerInv ==
  \A w \in Workers : pc[w] = "working" =>
    /\ Accepts(w, working[w])
    /\ \A v \in Workers : pc[v] = "working" /\ working[v] = working[w] => v = w

UploadInv ==
  \A w \in Workers : post[w] # "none" =>
    /\ pc[w] = "working"
    /\ post[w] = "remove" => store[Target(w)].exists
    /\ post[w] = "write" => linked[w]

(* The maps of the job are all that a reduce can find. *)
JobMaps == 0 .. NMap - 1
StoreInv == \A m \in MapIds \ JobMaps, i \in Parts : ~store[MapName(m, i)].exists

Right(r) == store[OutName(r)] = File(Sequential)
ReduceInv ==
  \A w \in Workers : pc[w] = "working" /\ working[w] \in ReduceTasks =>
    /\ stage[w] = "listed" => /\ files[w] \subseteq JobMaps
                              /\ input[w] = {<<m, "new">> : m \in JobMaps \ files[w]}
    /\ stage[w] = "uploading" => input[w] = Sequential
    /\ stage[w] = "finished" => Right(working[w].Index)

FetchInv ==
  /\ \A t \in Completed(ReduceTasks) : Right(t.Index)
  /\ ~fetch.busy => fetch.todo = {}
  /\ fetch.busy => /\ Completed(Tasks) = Tasks
                   /\ \A r \in Parts \ fetch.todo : result[r] = File(Sequential)
  /\ main = "done" => \A r \in Parts : result[r] = File(Sequential)

TidyInv == up /\ OwnerInv /\ UploadInv /\ StoreInv /\ ReduceInv /\ FetchInv
TInv == Tidy => TidyInv

----------------------------------------------------------------------------
(* Names, files and the steps of the job *)

LEMMA Index ==
  /\ \A t \in MapTasks : t.Index \in JobMaps
  /\ \A t, u \in MapTasks : t.Index = u.Index => t = u
  /\ \A m \in JobMaps : \E t \in MapTasks : t.Index = m
  /\ \A t \in ReduceTasks : t.Index \in Parts
  /\ \A t, u \in ReduceTasks : t.Index = u.Index => t = u
  /\ \A r \in Parts : \E t \in ReduceTasks : t.Index = r
  /\ JobMaps \subseteq MapIds
<1>1. \A m \in JobMaps : [Type |-> "MapTask", Index |-> m] \in MapTasks
  BY DEF MapTasks, JobMaps
<1>2. \A r \in Parts : [Type |-> "ReduceTask", Index |-> r] \in ReduceTasks
  BY DEF ReduceTasks, Parts
<1>3. /\ \A m \in JobMaps : \E t \in MapTasks : t.Index = m
      /\ \A r \in Parts : \E t \in ReduceTasks : t.Index = r
  BY ZenonT(60), <1>1, <1>2
<1>4. JobMaps \subseteq MapIds
  BY DEF JobMaps, MapIds
<1>5. /\ \A t \in MapTasks : t.Index \in JobMaps
      /\ \A t, u \in MapTasks : t.Index = u.Index => t = u
  BY DEF MapTasks, JobMaps
<1>6. /\ \A t \in ReduceTasks : t.Index \in Parts
      /\ \A t, u \in ReduceTasks : t.Index = u.Index => t = u
  BY DEF ReduceTasks, Parts
<1> QED BY ZenonT(60), <1>3, <1>4, <1>5, <1>6

LEMMA FileFacts ==
  /\ Absent \in Files /\ Cut \in Files /\ \A S \in SUBSET Maps : File(S) \in Files
  /\ ~Absent.exists /\ Cut.exists /\ \A S : File(S).exists
  /\ \A S : File(S).from = S
BY DEF Absent, Cut, File, Files

(* Where a worker with a task uploads to, and what. *)
LEMMA TargetFacts ==
  ASSUME CloudTypeOK, NEW w \in Workers, working[w] \in Tasks
  PROVE  /\ Target(w) \in Names /\ Content(w) \in Files /\ Content(w).exists
         /\ working[w] \in MapTasks => /\ Target(w) = MapName(working[w].Index, part[w])
                                      /\ Content(w) = New(working[w].Index)
         /\ working[w] \in ReduceTasks => /\ Target(w) = OutName(working[w].Index)
                                         /\ Content(w) = File(input[w])
<1>1. part[w] \in Parts /\ input[w] \in SUBSET Maps
  BY DEF CloudTypeOK
<1>2. CASE working[w] \in MapTasks
  <2>1. Target(w) = MapName(working[w].Index, part[w]) /\ Content(w) = New(working[w].Index)
    BY ZenonT(60), <1>2 DEF Target, Content, New
  <2>2. working[w].Index \in MapIds
    BY ZenonT(60), <1>2, Index
  <2>3. {<<working[w].Index, "new">>} \in SUBSET Maps
    BY <2>2 DEF Maps
  <2>4. Target(w) \in Names
    BY <1>1, <2>1, <2>2 DEF Names
  <2>5. Content(w) \in Files /\ Content(w).exists
    BY ZenonT(60), <2>1, <2>3, FileFacts DEF New
  <2>6. working[w] \notin ReduceTasks
    BY ZenonT(60), <1>2, TaskSets
  <2> QED BY ZenonT(60), <2>1, <2>4, <2>5, <2>6
<1>3. CASE working[w] \in ReduceTasks
  <2>1. working[w] \notin MapTasks
    BY ZenonT(60), <1>3, TaskSets
  <2>2. Target(w) = OutName(working[w].Index) /\ Content(w) = File(input[w])
    BY ZenonT(60), <2>1 DEF Target, Content
  <2>3. Target(w) \in Names
    BY <1>3, <2>2, Index DEF Names
  <2> QED BY ZenonT(60), <1>1, <2>1, <2>2, <2>3, FileFacts
<1> QED BY ZenonT(60), <1>2, <1>3 DEF Tasks

(* The steps of the job are steps of the coordinator and its workers. *)
LEMMA JobStepIsStep ==
  ASSUME [JobNext]_jobVars
  PROVE  [Next]_vars
<1>1. CASE UNCHANGED jobVars
  BY ZenonT(60), <1>1 DEF jobVars
<1>2. ASSUME NEW w \in Workers, ServerLost(w) \/ NoTempDir(w) PROVE [Next]_vars
  <2>1. Crash(w)
    BY <1>2 DEF ServerLost, NoTempDir, At, Crash
  <2> QED BY ZenonT(60), <2>1 DEF Next
<1>3. ASSUME NEW w \in Workers, FileStep(w) PROVE [Next]_vars
  BY ZenonT(60), <1>2, <1>3 DEF FileStep, StartPost, GetInput, NoTempDir, ListFiles, GetFails, GetFile, WriteOut, WriteNothing
<1>4. ASSUME NEW w \in Workers, PostStep(w) PROVE [Next]_vars
  BY ZenonT(60), <1>4 DEF PostStep, PostStat, PostRemove, PostCreate, CreateFails, PostWrite, PostBroken
<1>5. ASSUME NEW w \in Workers, CallStep(w) \/ DispatchStep(w) \/ CrashStep(w) PROVE [Next]_vars
  BY ZenonT(60), <1>5 DEF CallStep, DispatchStep, CrashStep, Next
<1>6. ASSUME NEW t \in Tasks, TimerStep(t) PROVE [Next]_vars
  BY ZenonT(60), <1>6 DEF TimerStep, Next
<1>7. CASE DoneStep \/ ExitStep
  BY ZenonT(60), <1>7 DEF DoneStep, ExitStep, StartDone, Download, FinishDone, DoneFails, Next
<1> QED BY ZenonT(60), <1>1, <1>3, <1>4, <1>5, <1>6, <1>7 DEF JobNext

(* Who takes part in an upload. *)
LEMMA Poster ==
  ASSUME CInv, NEW w \in Workers, post[w] # "none"
  PROVE  /\ up /\ stage[w] = "uploading" /\ pc[w] \in {"working", "crashed"} /\ working[w] \in Tasks
         /\ Target(w) \in Names /\ Content(w) \in Files /\ Content(w).exists
BY ZenonT(60), TargetFacts DEF CInv, PostInv

(* log.Fatal in a handler leaves the types. *)
LEMMA ServerEndsType ==
  ASSUME CloudTypeOK, ServerEnds, UNCHANGED <<part, trial>>,
         stage' = stage, files' = files, input' = input, result' = result,
         fetch' \in [busy : BOOLEAN, todo : SUBSET Parts]
  PROVE  CloudTypeOK'
BY ZenonT(60) DEF CloudTypeOK, ServerEnds

LEMMA OldOutputType ==
  ASSUME trial \in Trials
  PROVE  OldOutput \in SUBSET Maps
<1>1. \A m \in 0 .. trial.oldMaps - 1 : m \in MapIds
  BY ZenonT(60) DEF MapIds
<1>2. ASSUME NEW x \in OldOutput PROVE x \in Maps
  <2>1. PICK m \in 0 .. trial.oldMaps - 1 : x = <<m, "old">>
    BY ZenonT(60), <1>2 DEF OldOutput
  <2>2. m \in MapIds
    BY ZenonT(60), <1>1
  <2> QED BY <2>1, <2>2 DEF Maps
<1> QED BY ZenonT(60), <1>2

LEMMA FileStepType ==
  ASSUME CInv, NEW w \in Workers, FileStep(w)
  PROVE  CloudTypeOK'
<1> USE DEF SetPost, SetStage, serverVars, taskVars, doneVars
<1>0. CloudTypeOK
  BY ZenonT(60) DEF CInv
<1>1. CASE StartPost(w)
  BY <1>0, <1>1 DEF StartPost, CloudTypeOK
<1>2. CASE GetInput(w) \/ WriteOut(w)
  BY <1>0, <1>2 DEF GetInput, WriteOut, CloudTypeOK
<1>3. CASE ListFiles(w)
  <2>1. Listed(working[w].Index) \in SUBSET MapIds
    BY ZenonT(60) DEF Listed
  <2> QED BY <1>0, <1>3, <2>1 DEF ListFiles, CloudTypeOK
<1>4. CASE GetFile(w)
  <2>1. UNCHANGED <<vars, part, doneVars>> /\ working[w] \in ReduceTasks
    BY ZenonT(60), <1>4 DEF GetFile, At
  <2>2. PICK m \in files[w] :
          LET f == store[MapName(m, working[w].Index)] IN
            IF f.exists
            THEN /\ \/ /\ input' = [input EXCEPT ![w] = @ \cup f.from]
                       /\ files' = [files EXCEPT ![w] = @ \ {m}]
                       /\ UNCHANGED stage
                    \/ /\ ~f.whole
                       /\ SetStage(w, "hung")
                       /\ UNCHANGED <<input, files>>
                 /\ UNCHANGED serverVars
            ELSE ServerEnds /\ UNCHANGED <<input, files, stage>>
    BY ZenonT(60), <1>4 DEF GetFile
  <2> DEFINE n == MapName(m, working[w].Index)
  <2>3. n \in Names
    <3>1. working[w].Index \in Parts /\ m \in MapIds
      BY ZenonT(60), <1>0, <2>1, Index DEF CloudTypeOK
    <3> QED BY <3>1 DEF Names
  <2>4. store[n].from \in SUBSET Maps
    BY ZenonT(60), <1>0, <2>3 DEF CloudTypeOK, Files
  <2> HIDE DEF n
  <2>5. CASE /\ input' = [input EXCEPT ![w] = @ \cup store[n].from]
             /\ files' = [files EXCEPT ![w] = @ \ {m}]
             /\ UNCHANGED <<stage, serverVars>>
    BY <1>0, <2>1, <2>4, <2>5 DEF CloudTypeOK
  <2>6. CASE stage' = [stage EXCEPT ![w] = "hung"] /\ UNCHANGED <<input, files, serverVars>>
    BY <1>0, <2>1, <2>6 DEF CloudTypeOK
  <2>7. CASE ServerEnds /\ UNCHANGED <<input, files, stage>>
    <3>1. fetch' \in [busy : BOOLEAN, todo : SUBSET Parts]
      BY ZenonT(60), <1>0, <2>1 DEF CloudTypeOK
    <3> QED BY ZenonT(60), <1>0, <2>1, <2>7, <3>1, ServerEndsType
  <2> QED BY ZenonT(60), <2>2, <2>5, <2>6, <2>7 DEF n
<1>5. CASE ServerLost(w) \/ NoTempDir(w)
  BY ZenonT(60), <1>0, <1>5 DEF ServerLost, NoTempDir, CloudTypeOK
<1>6. CASE GetFails(w)
  <2>1. ServerEnds /\ UNCHANGED <<vars, taskVars, doneVars>>
    BY ZenonT(60), <1>6 DEF GetFails
  <2>2. fetch' \in [busy : BOOLEAN, todo : SUBSET Parts]
    BY ZenonT(60), <1>0, <2>1 DEF CloudTypeOK
  <2> QED BY ZenonT(60), <1>0, <2>1, <2>2, ServerEndsType
<1>7. CASE WriteNothing(w)
  <2>1. PICK left \in {{}, OldOutput} : input' = [input EXCEPT ![w] = left]
    BY ZenonT(60), <1>7 DEF WriteNothing
  <2>2. left \in SUBSET Maps
    BY ZenonT(60), <1>0, OldOutputType DEF CloudTypeOK
  <2>3. input' \in [Workers -> SUBSET Maps]
    BY ZenonT(60), <1>0, <2>1, <2>2 DEF CloudTypeOK
  <2> QED BY <1>0, <1>7, <2>3 DEF WriteNothing, CloudTypeOK
<1> QED BY ZenonT(60), <1>1, <1>2, <1>3, <1>4, <1>5, <1>6, <1>7 DEF FileStep

LEMMA PostStepType ==
  ASSUME CInv, NEW w \in Workers, PostStep(w)
  PROVE  CloudTypeOK'
<1> USE DEF SetPost, SetStage, serverVars, taskVars, doneVars
<1>0. CloudTypeOK /\ post[w] # "none"
  BY ZenonT(60) DEF CInv, PostStep, PostStat, PostRemove, PostCreate, CreateFails, PostWrite, PostBroken
<1>1. Target(w) \in Names /\ Content(w) \in Files /\ working[w] \in Tasks
  BY ZenonT(60), <1>0, Poster
<1>2. ASSUME ServerEnds, UNCHANGED <<vars, taskVars, doneVars>> PROVE CloudTypeOK'
  <2>1. fetch' \in [busy : BOOLEAN, todo : SUBSET Parts]
    BY ZenonT(60), <1>0, <1>2 DEF CloudTypeOK
  <2> QED BY ZenonT(60), <1>0, <1>2, <2>1, ServerEndsType
<1>3. CASE PostStat(w)
  BY <1>0, <1>3 DEF PostStat, CloudTypeOK
<1>4. CASE PostRemove(w)
  <2>1. CASE ServerEnds
    BY ZenonT(60), <1>2, <1>4, <2>1 DEF PostRemove
  <2>2. CASE /\ store' = [store EXCEPT ![Target(w)] = Absent]
             /\ linked' = [v \in Workers |-> linked[v] /\ Target(v) # Target(w)]
             /\ post' = [post EXCEPT ![w] = "create"]
             /\ UNCHANGED up
    <3>1. linked' \in [Workers -> BOOLEAN]
      BY ZenonT(60), <2>2
    <3>2. store' \in [Names -> Files]
      BY <1>0, <1>1, <2>2, FileFacts DEF CloudTypeOK
    <3> QED BY <1>0, <1>4, <2>2, <3>1, <3>2 DEF PostRemove, CloudTypeOK
  <2> QED BY ZenonT(60), <1>4, <2>1, <2>2 DEF PostRemove
<1>5. CASE PostCreate(w)
  <2>1. store' \in [Names -> Files]
    BY <1>0, <1>1, <1>5, FileFacts DEF PostCreate, CloudTypeOK
  <2> QED BY <1>0, <1>5, <2>1 DEF PostCreate, CloudTypeOK
<1>6. CASE PostWrite(w)
  <2>1. store' \in [Names -> Files]
    BY <1>0, <1>1, <1>6 DEF PostWrite, Written, CloudTypeOK
  <2>2. part' \in [Workers -> Parts]
    <3>1. CASE pc[w] # "working"
      BY ZenonT(60), <1>0, <1>6, <3>1 DEF PostWrite, CloudTypeOK
    <3>2. CASE pc[w] = "working"
      <4>1. PICK last \in BOOLEAN : /\ part[w] = NReduce - 1 => last
                                    /\ part' = [part EXCEPT ![w] = IF last THEN 0 ELSE @ + 1]
        BY ZenonT(60), <1>6, <3>2 DEF PostWrite
      <4>2. (IF last THEN 0 ELSE part[w] + 1) \in Parts
        BY <1>0, <4>1, SizeAssumption DEF CloudTypeOK, Parts
      <4> QED BY <1>0, <4>1, <4>2 DEF CloudTypeOK
    <3> QED BY ZenonT(60), <3>1, <3>2
  <2>3. stage' \in [Workers -> {"begin", "listed", "hung", "uploading", "finished"}]
    <3>1. CASE pc[w] # "working"
      BY ZenonT(60), <1>0, <1>6, <3>1 DEF PostWrite, CloudTypeOK
    <3>2. CASE pc[w] = "working"
      <4>1. stage' = [stage EXCEPT ![w] = "finished"] \/ stage' = [stage EXCEPT ![w] = "uploading"]
        BY ZenonT(60), <1>6, <3>2 DEF PostWrite
      <4> QED BY <1>0, <4>1 DEF CloudTypeOK
    <3> QED BY ZenonT(60), <3>1, <3>2
  <2>4. post' \in [Workers -> {"none", "stat", "remove", "create", "write"}] /\ linked' \in [Workers -> BOOLEAN]
    BY <1>0, <1>6 DEF PostWrite, CloudTypeOK
  <2> QED BY ZenonT(60), <1>0, <1>6, <2>1, <2>2, <2>3, <2>4 DEF PostWrite, CloudTypeOK
<1>7. CASE PostBroken(w) \/ CreateFails(w)
  BY ZenonT(60), <1>2, <1>7 DEF PostBroken, CreateFails
<1> QED BY ZenonT(60), <1>3, <1>4, <1>5, <1>6, <1>7 DEF PostStep

LEMMA TypeKept ==
  ASSUME CInv, [JobNext]_jobVars
  PROVE  CloudTypeOK'
<1> USE DEF SetPost, SetStage, serverVars, taskVars, doneVars
<1>0. CloudTypeOK
  BY ZenonT(60) DEF CInv
<1>1. CASE UNCHANGED jobVars
  BY ZenonT(60), <1>0, <1>1 DEF jobVars, CloudTypeOK
<1>2. ASSUME NEW w \in Workers, CallStep(w) PROVE CloudTypeOK'
  BY <1>0, <1>2 DEF CallStep, CloudTypeOK
<1>3. ASSUME NEW w \in Workers, DispatchStep(w) \/ CrashStep(w) PROVE CloudTypeOK'
  BY ZenonT(60), <1>0, <1>3 DEF DispatchStep, CrashStep, CloudTypeOK
<1>4. ASSUME NEW t \in Tasks, TimerStep(t) PROVE CloudTypeOK'
  BY ZenonT(60), <1>0, <1>4 DEF TimerStep, CloudTypeOK
<1>5. CASE StartDone
  BY <1>0, <1>5 DEF StartDone, CloudTypeOK
<1>6. CASE Download
  <2>1. PICK r \in fetch.todo :
          /\ fetch' = [fetch EXCEPT !.todo = @ \ {r}]
          /\ IF store[OutName(r)].exists
             THEN result' = [result EXCEPT ![r] = store[OutName(r)]] /\ UNCHANGED serverVars
             ELSE ServerEnds /\ UNCHANGED result
    BY ZenonT(60), <1>6 DEF Download
  <2>2. UNCHANGED <<vars, taskVars, trial>>
    BY ZenonT(60), <1>6 DEF Download
  <2>3. r \in Parts /\ fetch' \in [busy : BOOLEAN, todo : SUBSET Parts]
    BY <1>0, <2>1 DEF CloudTypeOK
  <2>4. store[OutName(r)] \in Files
    BY <1>0, <2>3 DEF CloudTypeOK, Names
  <2>5. CASE result' = [result EXCEPT ![r] = store[OutName(r)]] /\ UNCHANGED serverVars
    BY <1>0, <2>2, <2>3, <2>4, <2>5 DEF CloudTypeOK
  <2>6. CASE ServerEnds /\ UNCHANGED result
    BY ZenonT(60), <1>0, <2>2, <2>3, <2>6, ServerEndsType
  <2> QED BY ZenonT(60), <2>1, <2>5, <2>6
<1>7. CASE FinishDone \/ DoneFails
  <2>1. Idle \in [busy : BOOLEAN, todo : SUBSET Parts]
    BY DEF Idle
  <2> QED BY ZenonT(60), <1>0, <1>7, <2>1 DEF FinishDone, DoneFails, CloudTypeOK
<1>8. CASE ExitStep
  BY ZenonT(60), <1>0, <1>8 DEF ExitStep, CloudTypeOK
<1> QED BY ZenonT(60), <1>1, <1>2, <1>3, <1>4, <1>5, <1>6, <1>7, <1>8, FileStepType, PostStepType DEF JobNext, DoneStep

----------------------------------------------------------------------------
(* A step of one worker or of its handler leaves the others alone, but for *)
(* the end of the server, which is the end of all handlers.                *)

Stays(v) ==
  /\ pc'[v] = pc[v] /\ working'[v] = working[v] /\ stage'[v] = stage[v]
  /\ part'[v] = part[v] /\ files'[v] = files[v] /\ input'[v] = input[v]
Serves(v) == (up' = up /\ post'[v] = post[v]) \/ ServerEnds

LEMMA FileStepAlone ==
  ASSUME CInv, NEW w \in Workers, NEW v \in Workers \ {w}, FileStep(w)
  PROVE  Stays(v) /\ Serves(v)
<1> USE DEF SetPost, SetStage, MoveTo, serverVars, taskVars, vars, Stays, Serves
<1>0. CloudTypeOK /\ pc \in [Workers -> {"start", "idle", "requesting", "working", "exited", "fatal", "crashed"}]
  BY ZenonT(60) DEF CInv, IInv, TypeOK
<1>1. CASE StartPost(w)
  BY <1>0, <1>1 DEF StartPost, CloudTypeOK
<1>2. CASE GetInput(w) \/ WriteOut(w)
  BY <1>0, <1>2 DEF GetInput, WriteOut, CloudTypeOK
<1>3. CASE ListFiles(w)
  BY <1>0, <1>3 DEF ListFiles, CloudTypeOK
<1>4. CASE GetFile(w)
  <2>1. UNCHANGED <<vars, part>>
    BY ZenonT(60), <1>4 DEF GetFile
  <2>2. \/ \E S, T : /\ input' = [input EXCEPT ![w] = S] /\ files' = [files EXCEPT ![w] = T]
                     /\ UNCHANGED <<stage, serverVars>>
        \/ stage' = [stage EXCEPT ![w] = "hung"] /\ UNCHANGED <<input, files, serverVars>>
        \/ ServerEnds /\ UNCHANGED <<input, files, stage>>
    BY ZenonT(60), <1>4 DEF GetFile
  <2> QED BY ZenonT(60), <1>0, <2>1, <2>2 DEF CloudTypeOK
<1>5. CASE ServerLost(w) \/ NoTempDir(w)
  BY <1>0, <1>5 DEF ServerLost, NoTempDir, coordVars
<1>6. CASE GetFails(w)
  BY ZenonT(60), <1>6 DEF GetFails
<1>7. CASE WriteNothing(w)
  <2>1. PICK left : input' = [input EXCEPT ![w] = left]
    BY ZenonT(60), <1>7 DEF WriteNothing
  <2> QED BY <1>0, <1>7, <2>1 DEF WriteNothing, CloudTypeOK
<1> QED BY ZenonT(60), <1>1, <1>2, <1>3, <1>4, <1>5, <1>6, <1>7 DEF FileStep

LEMMA PostStepAlone ==
  ASSUME CInv, NEW w \in Workers, NEW v \in Workers \ {w}, PostStep(w)
  PROVE  Stays(v) /\ Serves(v)
<1> USE DEF SetPost, SetStage, taskVars, vars, Stays, Serves
<1>0. CloudTypeOK
  BY ZenonT(60) DEF CInv
<1>1. CASE PostStat(w)
  BY <1>0, <1>1 DEF PostStat, CloudTypeOK
<1>2. CASE PostRemove(w)
  BY ZenonT(60), <1>0, <1>2 DEF PostRemove, CloudTypeOK
<1>3. CASE PostCreate(w)
  BY <1>0, <1>3 DEF PostCreate, CloudTypeOK
<1>4. CASE PostWrite(w)
  <2>1. /\ UNCHANGED <<vars, up, files, input>> /\ post' = [post EXCEPT ![w] = "none"]
        /\ part' = part \/ \E i : part' = [part EXCEPT ![w] = i]
        /\ stage' = stage \/ \E s : stage' = [stage EXCEPT ![w] = s]
    BY ZenonT(60), <1>4 DEF PostWrite
  <2> QED BY ZenonT(60), <1>0, <2>1 DEF CloudTypeOK
<1>5. CASE PostBroken(w) \/ CreateFails(w)
  BY ZenonT(60), <1>5 DEF PostBroken, CreateFails
<1> QED BY ZenonT(60), <1>1, <1>2, <1>3, <1>4, <1>5 DEF PostStep

LEMMA CallStepAlone ==
  ASSUME CInv, NEW w \in Workers, NEW v \in Workers \ {w}, CallStep(w) \/ DispatchStep(w) \/ CrashStep(w)
  PROVE  Stays(v) /\ Serves(v)
<1> USE DEF SetStage, serverVars, taskVars, Stays, Serves
<1>0. /\ CloudTypeOK /\ working \in [Workers -> Tasks \cup {Nothing}]
      /\ pc \in [Workers -> {"start", "idle", "requesting", "working", "exited", "fatal", "crashed"}]
  BY ZenonT(60) DEF CInv, IInv, TypeOK
<1>1. /\ pc' = pc \/ \E l : pc' = [pc EXCEPT ![w] = l]
      /\ working' = working \/ \E t : working' = [working EXCEPT ![w] = t]
  <2>1. CASE CrashStep(w)
    BY ZenonT(60), <2>1 DEF CrashStep, Crash, MoveTo
  <2>2. CASE DispatchStep(w)
    BY ZenonT(60), <2>2 DEF DispatchStep, DispatchTask, TakeReply, MoveTo
  <2>3. CASE CallStep(w)
    BY ZenonT(60), <2>3 DEF CallStep, WorkerStep, GetNReduce, RequestTask, RequestBroken, CompleteTask, DialFails, MoveTo
  <2> QED BY ZenonT(60), <2>1, <2>2, <2>3
<1>2. pc'[v] = pc[v] /\ working'[v] = working[v]
  BY ZenonT(60), <1>0, <1>1
<1>3. /\ stage'[v] = stage[v] /\ input'[v] = input[v]
      /\ UNCHANGED <<up, post, part, files>>
  BY <1>0 DEF CallStep, DispatchStep, CrashStep, CloudTypeOK
<1> QED BY ZenonT(60), <1>2, <1>3

LEMMA WorkerAlone ==
  ASSUME CInv, NEW w \in Workers, NEW v \in Workers \ {w},
         FileStep(w) \/ PostStep(w) \/ CallStep(w) \/ DispatchStep(w) \/ CrashStep(w)
  PROVE  Stays(v) /\ Serves(v)
BY ZenonT(60), FileStepAlone, PostStepAlone, CallStepAlone

(* The other steps leave all of them alone. *)
LEMMA AllAlone ==
  ASSUME (\E t \in Tasks : TimerStep(t)) \/ DoneStep \/ ExitStep \/ UNCHANGED jobVars, NEW v \in Workers
  PROVE  Stays(v) /\ Serves(v)
<1>1. UNCHANGED <<pc, working, taskVars>> /\ (UNCHANGED <<up, post>> \/ ServerEnds)
  BY ZenonT(60) DEF TimerStep, waitForTask, DoneStep, StartDone, Download, FinishDone, DoneFails, ExitStep, Done, Exit,
               jobVars, vars, serverVars
<1> QED BY ZenonT(60), <1>1 DEF Stays, Serves, taskVars

(* A handler of POST serves a worker that waits or has died. *)
LEMMA PostKept ==
  ASSUME CInv, [JobNext]_jobVars, NEW v \in Workers
  PROVE  PostInv(v)'
<1> USE DEF SetPost, SetStage, MoveTo, serverVars, taskVars
<1>0. /\ CloudTypeOK /\ PostInv(v) /\ working \in [Workers -> Tasks \cup {Nothing}]
      /\ pc \in [Workers -> {"start", "idle", "requesting", "working", "exited", "fatal", "crashed"}]
      /\ pc[v] = "working" => working[v] \in Tasks
  BY ZenonT(60) DEF CInv, IInv, TypeOK, LoopInv
<1>1. ASSUME Stays(v), Serves(v) PROVE PostInv(v)'
  BY ZenonT(60), <1>0, <1>1 DEF Stays, Serves, ServerEnds, PostInv
<1>2. CASE FileStep(v)
  <2>1. CASE StartPost(v)
    BY <1>0, <2>1 DEF StartPost, Uploading, PostInv, CloudTypeOK, vars
  <2>2. CASE GetInput(v) \/ ListFiles(v) \/ WriteOut(v) \/ WriteNothing(v)
    <3>1. /\ pc[v] = "working" /\ stage[v] # "uploading" /\ UNCHANGED <<pc, working, post, part>>
          /\ \E s \in {"listed", "uploading"} : stage' = [stage EXCEPT ![v] = s]
      BY ZenonT(60), <2>2 DEF GetInput, ListFiles, WriteOut, WriteNothing, At, vars
    <3>2. pc'[v] = "working" /\ post'[v] = "none" /\ part'[v] = 0
      BY ZenonT(60), <1>0, <3>1 DEF PostInv
    <3> QED BY ZenonT(60), <3>2 DEF PostInv
  <2>3. CASE GetFile(v) \/ GetFails(v)
    <3>1. /\ pc[v] = "working" /\ stage[v] # "uploading" /\ UNCHANGED <<pc, working, part>>
          /\ UNCHANGED post \/ ServerEnds
      BY ZenonT(60), <2>3 DEF GetFile, GetFails, At, vars
    <3>2. pc'[v] = "working" /\ post'[v] = "none" /\ part'[v] = 0
      BY ZenonT(60), <1>0, <3>1 DEF PostInv, ServerEnds
    <3> QED BY ZenonT(60), <3>2 DEF PostInv
  <2>4. CASE ServerLost(v) \/ NoTempDir(v)
    <3>1. pc'[v] = "crashed" /\ UNCHANGED <<working, post, stage, part, up>>
      BY <1>0, <2>4 DEF ServerLost, NoTempDir
    <3> QED BY ZenonT(60), <1>0, <3>1 DEF PostInv
  <2> QED BY ZenonT(60), <1>2, <2>1, <2>2, <2>3, <2>4 DEF FileStep
<1>3. CASE PostStep(v)
  <2>1. UNCHANGED <<pc, working>> /\ post[v] # "none"
    BY ZenonT(60), <1>3 DEF PostStep, PostStat, PostRemove, PostCreate, CreateFails, PostWrite, PostBroken, vars
  <2>2. /\ pc'[v] \in {"working", "crashed"} /\ working'[v] \in Tasks /\ up /\ stage[v] = "uploading"
    BY ZenonT(60), <1>0, <2>1 DEF PostInv
  <2>3. CASE UNCHANGED <<stage, part, up>> \/ (ServerEnds /\ UNCHANGED <<stage, part>>)
    BY ZenonT(60), <2>2, <2>3 DEF PostInv, ServerEnds
  <2>4. CASE PostWrite(v)
    <3>1. /\ post'[v] = "none"
          /\ \/ UNCHANGED <<stage, part>>
             \/ \E i : part' = [part EXCEPT ![v] = i] /\ stage' = [stage EXCEPT ![v] = "uploading"]
             \/ part' = [part EXCEPT ![v] = 0] /\ stage' = [stage EXCEPT ![v] = "finished"]
      BY ZenonT(60), <1>0, <2>4 DEF PostWrite, CloudTypeOK
    <3>2. stage'[v] = "uploading" \/ part'[v] = 0
      BY ZenonT(60), <1>0, <2>2, <3>1 DEF CloudTypeOK
    <3> QED BY ZenonT(60), <2>2, <3>1, <3>2 DEF PostInv
  <2> QED BY ZenonT(60), <1>3, <2>3, <2>4 DEF PostStep, PostStat, PostRemove, PostCreate, CreateFails, PostBroken
<1>4. CASE CallStep(v)
  <2>1. stage'[v] = "begin" /\ UNCHANGED <<post, part>> /\ stage[v] # "uploading"
    <3>1. stage' = [stage EXCEPT ![v] = "begin"] /\ UNCHANGED <<post, part>>
      BY ZenonT(60), <1>4 DEF CallStep
    <3>2. pc[v] \in {"start", "idle", "requesting"} \/ stage[v] = "finished"
      BY ZenonT(60), <1>4 DEF CallStep, WorkerStep, GetNReduce, RequestTask, RequestBroken, CompleteTask, DialFails, Reports
    <3> QED BY ZenonT(60), <1>0, <3>1, <3>2 DEF PostInv, CloudTypeOK
  <2> QED BY ZenonT(60), <1>0, <2>1 DEF PostInv
<1>5. CASE DispatchStep(v)
  <2>1. UNCHANGED <<post, part, stage, up>>
    BY ZenonT(60), <1>5 DEF DispatchStep
  <2>2. \/ UNCHANGED <<pc, working>>
        \/ pc[v] = "requesting"
    BY ZenonT(60), <1>5 DEF DispatchStep, DispatchTask, TakeReply
  <2> QED BY ZenonT(60), <1>0, <2>1, <2>2 DEF PostInv
<1>6. CASE CrashStep(v)
  <2>1. pc'[v] = "crashed" /\ UNCHANGED <<working, post, stage, part, up>>
    BY <1>0, <1>6 DEF CrashStep, Crash
  <2> QED BY ZenonT(60), <1>0, <2>1 DEF PostInv
<1>7. ASSUME NEW w \in Workers \ {v}, FileStep(w) \/ PostStep(w) \/ CallStep(w) \/ DispatchStep(w) \/ CrashStep(w)
      PROVE  PostInv(v)'
  BY ZenonT(60), <1>1, <1>7, WorkerAlone
<1>8. CASE (\E t \in Tasks : TimerStep(t)) \/ DoneStep \/ ExitStep \/ UNCHANGED jobVars
  BY ZenonT(60), <1>1, <1>8, AllAlone
<1> QED BY ZenonT(60), <1>2, <1>3, <1>4, <1>5, <1>6, <1>7, <1>8 DEF JobNext

----------------------------------------------------------------------------
(* What was on the server stays, or comes back. *)

(* A handler keeps its name to the end. *)
LEMMA TargetKept ==
  ASSUME CInv, [JobNext]_jobVars, NEW v \in Workers, post'[v] # "none"
  PROVE  working'[v] = working[v] /\ part'[v] = part[v] /\ Target(v)' = Target(v)
<1> SUFFICES working'[v] = working[v] /\ part'[v] = part[v]
  BY ZenonT(60) DEF Target
<1>1. ASSUME Stays(v) PROVE working'[v] = working[v] /\ part'[v] = part[v]
  BY ZenonT(60), <1>1 DEF Stays
<1>2. stage'[v] = "uploading" /\ pc'[v] \in {"working", "crashed"}
  BY ZenonT(60), PostKept DEF PostInv
<1>3. CASE FileStep(v)
  BY ZenonT(60), <1>3 DEF FileStep, StartPost, GetInput, NoTempDir, ListFiles, GetFails, GetFile, WriteOut, WriteNothing, ServerLost, vars, taskVars
<1>4. CASE PostStep(v)
  <2>1. CASE PostWrite(v)
    BY ZenonT(60), <2>1 DEF PostWrite, SetPost, CInv, CloudTypeOK
  <2> QED BY ZenonT(60), <1>4, <2>1 DEF PostStep, PostStat, PostRemove, PostCreate, CreateFails, PostBroken, vars, taskVars
<1>5. CASE CallStep(v)
  BY <1>2, <1>5 DEF CallStep, SetStage, CInv, CloudTypeOK
<1>6. CASE DispatchStep(v)
  <2>1. UNCHANGED <<post, part>> /\ (working' = working \/ pc[v] = "requesting")
    BY ZenonT(60), <1>6 DEF DispatchStep, DispatchTask, TakeReply, serverVars, taskVars
  <2>2. pc[v] # "requesting"
    BY ZenonT(60), <2>1, Poster
  <2> QED BY ZenonT(60), <2>1, <2>2
<1>7. CASE CrashStep(v)
  BY ZenonT(60), <1>7 DEF CrashStep, Crash, taskVars
<1>8. ASSUME NEW w \in Workers \ {v}, FileStep(w) \/ PostStep(w) \/ CallStep(w) \/ DispatchStep(w) \/ CrashStep(w)
      PROVE  working'[v] = working[v] /\ part'[v] = part[v]
  BY ZenonT(60), <1>1, <1>8, WorkerAlone
<1>9. CASE (\E t \in Tasks : TimerStep(t)) \/ DoneStep \/ ExitStep \/ UNCHANGED jobVars
  BY ZenonT(60), <1>1, <1>9, AllAlone
<1> QED BY ZenonT(60), <1>3, <1>4, <1>5, <1>6, <1>7, <1>8, <1>9 DEF JobNext

(* Only three steps of a handler touch the files. *)
Touches(w) == PostRemove(w) \/ PostCreate(w) \/ PostWrite(w)

LEMMA Untouched ==
  ASSUME CInv, [JobNext]_jobVars, up', \A w \in Workers : ~Touches(w)
  PROVE  /\ UNCHANGED <<store, linked>>
         /\ \A v \in Workers : post[v] \in {"remove", "create", "write"} => post'[v] = post[v]
<1>0. post \in [Workers -> {"none", "stat", "remove", "create", "write"}] /\ ~ServerEnds
  BY ZenonT(60) DEF CInv, CloudTypeOK, ServerEnds
<1>1. ASSUME UNCHANGED serverVars
      PROVE  /\ UNCHANGED <<store, linked>>
             /\ \A v \in Workers : post[v] \in {"remove", "create", "write"} => post'[v] = post[v]
  BY ZenonT(60), <1>1 DEF serverVars
<1>2. ASSUME NEW w \in Workers, StartPost(w) \/ PostStat(w)
      PROVE  /\ UNCHANGED <<store, linked>>
             /\ \A v \in Workers : post[v] \in {"remove", "create", "write"} => post'[v] = post[v]
  <2>1. UNCHANGED <<store, linked>> /\ post[w] \in {"none", "stat"} /\ \E s : post' = [post EXCEPT ![w] = s]
    BY ZenonT(60), <1>2 DEF StartPost, PostStat, Uploading, SetPost
  <2> QED BY ZenonT(60), <1>0, <2>1
<1>3. ASSUME NEW w \in Workers, FileStep(w), ~StartPost(w) PROVE UNCHANGED serverVars
  BY ZenonT(60), <1>0, <1>3 DEF FileStep, GetInput, NoTempDir, ListFiles, GetFails, GetFile, WriteOut, WriteNothing, ServerLost
<1>4. ASSUME NEW w \in Workers, PostStep(w) PROVE PostStat(w)
  BY ZenonT(60), <1>0, <1>4 DEF PostStep, Touches, PostBroken, CreateFails
<1>5. ASSUME NEW w \in Workers, CallStep(w) \/ DispatchStep(w) \/ CrashStep(w) PROVE UNCHANGED serverVars
  BY ZenonT(60), <1>5 DEF CallStep, DispatchStep, CrashStep
<1>6. ASSUME NEW t \in Tasks, TimerStep(t) PROVE UNCHANGED serverVars
  BY ZenonT(60), <1>6 DEF TimerStep
<1>7. CASE DoneStep \/ ExitStep \/ UNCHANGED jobVars
  <2>1. UNCHANGED serverVars
    BY ZenonT(60), <1>0, <1>7 DEF DoneStep, ExitStep, StartDone, Download, FinishDone, DoneFails, jobVars
  <2> QED BY ZenonT(60), <1>1, <2>1
<1> QED BY ZenonT(60), <1>1, <1>2, <1>3, <1>4, <1>5, <1>6, <1>7 DEF JobNext

(* What the three do while the server runs. *)
LEMMA RemoveStep ==
  ASSUME CInv, NEW w \in Workers, PostRemove(w), up'
  PROVE  /\ post[w] = "remove" /\ Target(w) \in Names /\ store[Target(w)].exists
         /\ store'[Target(w)] = Absent /\ \A n \in Names \ {Target(w)} : store'[n] = store[n]
         /\ \A v \in Workers : linked'[v] <=> linked[v] /\ Target(v) # Target(w)
         /\ post'[w] = "create" /\ \A v \in Workers \ {w} : post'[v] = post[v]
         /\ UNCHANGED <<vars, up, taskVars, doneVars>>
<1>1. /\ post[w] = "remove" /\ store[Target(w)].exists /\ UNCHANGED <<vars, up, taskVars, doneVars>>
      /\ store' = [store EXCEPT ![Target(w)] = Absent]
      /\ linked' = [v \in Workers |-> linked[v] /\ Target(v) # Target(w)]
      /\ post' = [post EXCEPT ![w] = "create"]
  BY ZenonT(60) DEF PostRemove, ServerEnds, SetPost
<1>2. Target(w) \in Names
  BY ZenonT(60), <1>1, Poster
<1>3. store \in [Names -> Files] /\ post \in [Workers -> {"none", "stat", "remove", "create", "write"}]
  BY ZenonT(60) DEF CInv, CloudTypeOK
<1>4. \A v \in Workers : linked'[v] <=> linked[v] /\ Target(v) # Target(w)
  BY ZenonT(60), <1>1
<1> QED BY ZenonT(60), <1>1, <1>2, <1>3, <1>4

LEMMA CreateStep ==
  ASSUME CInv, NEW w \in Workers, PostCreate(w)
  PROVE  /\ post[w] = "create" /\ Target(w) \in Names
         /\ store'[Target(w)] = Cut /\ \A n \in Names \ {Target(w)} : store'[n] = store[n]
         /\ linked'[w] /\ \A v \in Workers \ {w} : linked'[v] = linked[v]
         /\ post'[w] = "write" /\ \A v \in Workers \ {w} : post'[v] = post[v]
         /\ UNCHANGED <<vars, up, taskVars, doneVars>>
<1>1. /\ post[w] = "create" /\ UNCHANGED <<vars, up, taskVars, doneVars>>
      /\ store' = [store EXCEPT ![Target(w)] = Cut]
      /\ linked' = [linked EXCEPT ![w] = TRUE]
      /\ post' = [post EXCEPT ![w] = "write"]
  BY ZenonT(60) DEF PostCreate, SetPost
<1>2. Target(w) \in Names
  BY ZenonT(60), <1>1, Poster
<1>3. /\ store \in [Names -> Files] /\ post \in [Workers -> {"none", "stat", "remove", "create", "write"}]
      /\ linked \in [Workers -> BOOLEAN]
  BY ZenonT(60) DEF CInv, CloudTypeOK
<1> QED BY ZenonT(60), <1>1, <1>2, <1>3

LEMMA WriteStep ==
  ASSUME CInv, NEW w \in Workers, PostWrite(w)
  PROVE  /\ post[w] = "write" /\ Target(w) \in Names /\ working[w] \in Tasks
         /\ store'[Target(w)] = IF linked[w] THEN Content(w) ELSE store[Target(w)]
         /\ \A n \in Names \ {Target(w)} : store'[n] = store[n]
         /\ ~linked'[w] /\ \A v \in Workers \ {w} : linked'[v] = linked[v]
         /\ post'[w] = "none" /\ \A v \in Workers \ {w} : post'[v] = post[v]
         /\ UNCHANGED <<vars, up, files, input, doneVars>>
<1>1. /\ post[w] = "write" /\ UNCHANGED <<vars, up, files, input, doneVars>>
      /\ store' = IF linked[w] THEN [store EXCEPT ![Target(w)] = Content(w)] ELSE store
      /\ linked' = [linked EXCEPT ![w] = FALSE]
      /\ post' = [post EXCEPT ![w] = "none"]
  BY ZenonT(60) DEF PostWrite, Written, SetPost
<1>2. Target(w) \in Names /\ working[w] \in Tasks
  BY ZenonT(60), <1>1, Poster
<1>3. /\ store \in [Names -> Files] /\ post \in [Workers -> {"none", "stat", "remove", "create", "write"}]
      /\ linked \in [Workers -> BOOLEAN]
  BY ZenonT(60) DEF CInv, CloudTypeOK
<1>4. /\ store'[Target(w)] = IF linked[w] THEN Content(w) ELSE store[Target(w)]
      /\ \A n \in Names \ {Target(w)} : store'[n] = store[n]
  BY ZenonT(60), <1>1, <1>2, <1>3
<1> QED BY ZenonT(60), <1>1, <1>2, <1>3, <1>4

LEMMA KeptStays ==
  ASSUME CInv, [JobNext]_jobVars, up', NEW n \in Names, Kept(n)
  PROVE  Kept(n)'
<1>1. ASSUME NEW v \in Workers, post'[v] = "create", Target(v) = n PROVE Kept(n)'
  BY ZenonT(60), <1>1, TargetKept DEF Kept
<1>2. ASSUME store'[n].exists PROVE Kept(n)'
  BY ZenonT(60), <1>2 DEF Kept
<1>3. ASSUME NEW w \in Workers, PostRemove(w) PROVE Kept(n)'
  BY ZenonT(60), <1>1, <1>2, <1>3, RemoveStep DEF Kept
<1>4. ASSUME NEW w \in Workers, PostCreate(w) PROVE Kept(n)'
  <2>1. store'[Target(w)].exists
    BY ZenonT(60), <1>4, CreateStep, FileFacts
  <2>2. /\ n # Target(w) => store'[n] = store[n]
        /\ \A v \in Workers \ {w} : post'[v] = post[v]
    BY ZenonT(60), <1>4, CreateStep
  <2> QED BY ZenonT(60), <1>1, <1>2, <2>1, <2>2 DEF Kept
<1>5. ASSUME NEW w \in Workers, PostWrite(w) PROVE Kept(n)'
  <2>1. post[w] = "write" /\ Content(w).exists
    BY ZenonT(60), <1>5, WriteStep, TargetFacts DEF CInv
  <2>2. store[n].exists => store'[n].exists
    BY ZenonT(60), <1>5, <2>1, WriteStep
  <2>3. \A v \in Workers : post[v] = "create" => post'[v] = "create"
    BY ZenonT(60), <1>5, <2>1, WriteStep
  <2> QED BY ZenonT(60), <1>1, <1>2, <2>2, <2>3 DEF Kept
<1>6. CASE \A w \in Workers : ~Touches(w)
  BY ZenonT(60), <1>1, <1>2, <1>6, Untouched DEF Kept
<1> QED BY ZenonT(60), <1>3, <1>4, <1>5, <1>6 DEF Touches

LEMMA ReadyStays ==
  ASSUME CInv, [JobNext]_jobVars, up', NEW m \in MapIds, NEW i \in Parts, Ready(m, i)
  PROVE  Ready(m, i)'
<1> DEFINE n == MapName(m, i)
<1>0. n \in Names
  BY DEF Names
<1>1. ASSUME NEW v \in Workers, post'[v] = "create" \/ (post'[v] = "write" /\ linked'[v]), Target(v) = n
      PROVE  Ready(m, i)'
  BY ZenonT(60), <1>1, TargetKept DEF Ready, MapName
<1>2. ASSUME store'[n] = New(m) PROVE Ready(m, i)'
  BY ZenonT(60), <1>2 DEF Ready, New, File, MapName
<1> HIDE DEF n
<1>3. \/ store[n] = New(m)
      \/ \E v \in Workers : (post[v] = "create" \/ (post[v] = "write" /\ linked[v])) /\ Target(v) = n
  BY ZenonT(60) DEF Ready, n
<1>4. ASSUME NEW w \in Workers, PostRemove(w) PROVE Ready(m, i)'
  <2>1. CASE Target(w) = n
    BY ZenonT(60), <1>1, <1>4, <2>1, RemoveStep
  <2>2. CASE Target(w) # n
    <3>1. /\ store'[n] = store[n] /\ post[w] = "remove"
          /\ \A v \in Workers \ {w} : post'[v] = post[v]
          /\ \A v \in Workers : Target(v) = n /\ linked[v] => linked'[v]
      BY ZenonT(60), <1>0, <1>4, <2>2, RemoveStep
    <3> QED BY ZenonT(60), <1>1, <1>2, <1>3, <3>1
  <2> QED BY ZenonT(60), <2>1, <2>2
<1>5. ASSUME NEW w \in Workers, PostCreate(w) PROVE Ready(m, i)'
  BY ZenonT(60), <1>0, <1>1, <1>2, <1>3, <1>5, CreateStep
<1>6. ASSUME NEW w \in Workers, PostWrite(w) PROVE Ready(m, i)'
  <2>1. Target(w) = n => Content(w) = New(m)
    <3>1. CloudTypeOK /\ working[w] \in Tasks
      BY ZenonT(60), <1>6, WriteStep DEF CInv
    <3>2. CASE working[w] \in MapTasks
      <4>1. Target(w) = MapName(working[w].Index, part[w]) /\ Content(w) = New(working[w].Index)
        BY ZenonT(60), <3>1, <3>2, TargetFacts
      <4>2. MapName(working[w].Index, part[w]) = MapName(m, i) => working[w].Index = m
        BY DEF MapName
      <4> QED BY ZenonT(60), <4>1, <4>2 DEF n
    <3>3. CASE working[w] \in ReduceTasks
      <4>1. Target(w) = OutName(working[w].Index)
        BY ZenonT(60), <3>1, <3>3, TargetFacts
      <4>2. OutName(working[w].Index) # MapName(m, i)
        BY DEF MapName, OutName
      <4> QED BY ZenonT(60), <4>1, <4>2 DEF n
    <3> QED BY ZenonT(60), <3>1, <3>2, <3>3 DEF Tasks
  <2>2. store[n] = New(m) => store'[n] = New(m)
    BY ZenonT(60), <1>0, <1>6, <2>1, WriteStep
  <2>3. Target(w) = n /\ linked[w] => store'[n] = New(m)
    BY ZenonT(60), <1>6, <2>1, WriteStep
  <2>4. \A v \in Workers \ {w} : post'[v] = post[v] /\ linked'[v] = linked[v]
    BY ZenonT(60), <1>6, WriteStep
  <2>5. post[w] = "write"
    BY ZenonT(60), <1>6, WriteStep
  <2> QED BY ZenonT(60), <1>1, <1>2, <1>3, <2>2, <2>3, <2>4, <2>5
<1>7. CASE \A w \in Workers : ~Touches(w)
  BY ZenonT(60), <1>1, <1>2, <1>3, <1>7, Untouched
<1> QED BY ZenonT(60), <1>4, <1>5, <1>6, <1>7 DEF Touches

----------------------------------------------------------------------------
(* What handlers, workers and the coordinator rely on *)

LEMMA UpFalls ==
  ASSUME CInv, [JobNext]_jobVars, up'
  PROVE  up /\ ~ServerEnds
<1>1. ~ServerEnds
  BY ZenonT(60) DEF ServerEnds
<1>2. ASSUME NEW w \in Workers, FileStep(w) PROVE up' = up
  BY ZenonT(60), <1>1, <1>2 DEF FileStep, StartPost, GetInput, NoTempDir, ListFiles, GetFails, GetFile, WriteOut, WriteNothing, ServerLost, serverVars
<1>3. ASSUME NEW w \in Workers, PostStep(w) PROVE up' = up
  BY ZenonT(60), <1>1, <1>3 DEF PostStep, PostStat, PostRemove, PostCreate, CreateFails, PostWrite, PostBroken
<1>4. ASSUME NEW w \in Workers, CallStep(w) \/ DispatchStep(w) \/ CrashStep(w) PROVE up' = up
  BY ZenonT(60), <1>4 DEF CallStep, DispatchStep, CrashStep, serverVars
<1>5. ASSUME NEW t \in Tasks, TimerStep(t) PROVE up' = up
  BY ZenonT(60), <1>5 DEF TimerStep, serverVars
<1>6. CASE DoneStep \/ ExitStep \/ UNCHANGED jobVars
  <2>1. up' = up
    BY ZenonT(60), <1>1, <1>6 DEF DoneStep, StartDone, Download, FinishDone, DoneFails, ExitStep, jobVars, serverVars
  <2> QED BY ZenonT(60), <1>1, <2>1
<1> QED BY ZenonT(60), <1>1, <1>2, <1>3, <1>4, <1>5, <1>6 DEF JobNext

(* Only its own steps move a handler. *)
LEMMA PostMoves ==
  ASSUME CInv, [JobNext]_jobVars, up', NEW v \in Workers, post'[v] # post[v]
  PROVE  StartPost(v) \/ PostStep(v)
<1>1. ~ServerEnds
  BY ZenonT(60), UpFalls
<1>2. ASSUME NEW w \in Workers \ {v}, FileStep(w) \/ PostStep(w) \/ CallStep(w) \/ DispatchStep(w) \/ CrashStep(w)
      PROVE  FALSE
  BY ZenonT(60), <1>1, <1>2, WorkerAlone DEF Serves
<1>3. CASE FileStep(v)
  BY ZenonT(60), <1>1, <1>3 DEF FileStep, GetInput, NoTempDir, ListFiles, GetFails, GetFile, WriteOut, WriteNothing, ServerLost, serverVars
<1>4. CASE CallStep(v) \/ DispatchStep(v) \/ CrashStep(v)
  BY ZenonT(60), <1>4 DEF CallStep, DispatchStep, CrashStep, serverVars
<1>5. CASE (\E t \in Tasks : TimerStep(t)) \/ DoneStep \/ ExitStep \/ UNCHANGED jobVars
  BY ZenonT(60), <1>1, <1>5, AllAlone DEF Serves
<1> QED BY ZenonT(60), <1>2, <1>3, <1>4, <1>5 DEF JobNext

LEMMA HandlerKept ==
  ASSUME CInv, [JobNext]_jobVars, up', NEW v \in Workers
  PROVE  HandlerInv(v)'
<1>0. HandlerInv(v)
  BY ZenonT(60), UpFalls DEF CInv
<1>1. ASSUME post'[v] = "remove" PROVE Kept(Target(v))'
  <2>1. post[v] # "none" /\ Kept(Target(v))
    <3>1. CASE post[v] = "remove"
      BY ZenonT(60), <1>0, <3>1 DEF HandlerInv
    <3>2. CASE post[v] # "remove"
      <4>1. StartPost(v) \/ PostStep(v)
        BY ZenonT(60), <1>1, <3>2, PostMoves
      <4>2. post \in [Workers -> {"none", "stat", "remove", "create", "write"}]
        BY ZenonT(60) DEF CInv, CloudTypeOK
      <4>3. PostStat(v)
        BY ZenonT(60), <1>1, <3>2, <4>1, <4>2, UpFalls
           DEF StartPost, PostStep, PostRemove, PostCreate, CreateFails, PostWrite, PostBroken, SetPost
      <4>4. post[v] = "stat" /\ store[Target(v)].exists
        BY ZenonT(60), <1>1, <4>2, <4>3 DEF PostStat, SetPost
      <4> QED BY ZenonT(60), <4>4 DEF Kept
    <3> QED BY ZenonT(60), <3>1, <3>2
  <2>2. PICK n \in Names : n = Target(v)
    BY ZenonT(60), <2>1, Poster
  <2>3. Kept(n)'
    BY ZenonT(60), <2>1, <2>2, KeptStays
  <2>4. Target(v)' = n
    BY ZenonT(60), <1>1, <2>2, TargetKept
  <2> QED BY ZenonT(60), <2>3, <2>4
<1>2. ASSUME post'[v] = "write", ~linked'[v], working'[v] \in MapTasks PROVE Ready(working[v].Index, part[v])'
  <2>1. working'[v] = working[v] /\ part'[v] = part[v]
    BY ZenonT(60), <1>2, TargetKept
  <2>2. PICK m \in MapIds, i \in Parts : m = working[v].Index /\ i = part[v]
    BY ZenonT(60), <1>2, <2>1, Index DEF CInv, CloudTypeOK
  <2> SUFFICES Ready(m, i)'
    BY ZenonT(60), <2>1, <2>2
  <2>3. post[v] = "write"
    <3>1. SUFFICES ASSUME post[v] # "write" PROVE FALSE
      OBVIOUS
    <3>2. StartPost(v) \/ PostStep(v)
      BY ZenonT(60), <1>2, <3>1, PostMoves
    <3>3. post \in [Workers -> {"none", "stat", "remove", "create", "write"}] /\ linked \in [Workers -> BOOLEAN]
      BY ZenonT(60) DEF CInv, CloudTypeOK
    <3>4. CASE PostCreate(v)
      BY ZenonT(60), <1>2, <3>4, CreateStep
    <3> QED BY ZenonT(60), <1>2, <3>1, <3>2, <3>3, <3>4, UpFalls DEF StartPost, PostStep, PostStat, PostRemove, PostWrite, PostBroken, CreateFails, SetPost
  <2>4. CASE ~linked[v]
    BY ZenonT(60), <1>0, <1>2, <2>1, <2>2, <2>3, <2>4, ReadyStays DEF HandlerInv
  <2>5. CASE linked[v]
    <3>1. Target(v) = MapName(m, i)
      BY ZenonT(60), <1>2, <2>1, <2>2 DEF Target
    <3>2. PICK w \in Workers : Touches(w)
      BY ZenonT(60), <1>2, <2>5, Untouched
    <3>3. PostRemove(w)
      BY ZenonT(60), <1>2, <2>5, <3>2, CreateStep, WriteStep DEF Touches
    <3>4. Target(v) = Target(w)
      BY ZenonT(60), <1>2, <2>5, <3>3, RemoveStep
    <3>5. post'[w] = "create" /\ Target(w)' = Target(w)
      BY ZenonT(60), <3>3, RemoveStep, TargetKept
    <3> QED BY ZenonT(60), <3>1, <3>4, <3>5 DEF Ready, MapName
  <2> QED BY ZenonT(60), <2>4, <2>5
<1> QED BY ZenonT(60), <1>1, <1>2 DEF HandlerInv

(* A worker that goes on with its task is left alone, or takes a step of   *)
(* doMap or doReduce, or has just been given the task.                     *)
LEMMA WorkerMoves ==
  ASSUME CInv, [JobNext]_jobVars, up', NEW v \in Workers, pc'[v] = "working"
  PROVE  \/ Stays(v)
         \/ GetInput(v) \/ ListFiles(v) \/ GetFile(v) \/ WriteOut(v) \/ WriteNothing(v) \/ PostWrite(v)
         \/ stage'[v] = "begin"
<1> USE DEF taskVars, vars
<1>0. CloudTypeOK /\ pc \in [Workers -> {"start", "idle", "requesting", "working", "exited", "fatal", "crashed"}]
  BY ZenonT(60) DEF CInv, IInv, TypeOK
<1>1. CASE FileStep(v)
  <2>1. ~ServerLost(v) /\ ~GetFails(v)
    BY ZenonT(60), UpFalls DEF ServerLost, GetFails
  <2>3. ~NoTempDir(v)
    BY <1>0 DEF NoTempDir, MoveTo
  <2>2. StartPost(v) => Stays(v)
    BY ZenonT(60) DEF StartPost, Stays
  <2> QED BY ZenonT(60), <1>1, <2>1, <2>2, <2>3 DEF FileStep
<1>2. CASE PostStep(v)
  BY ZenonT(60), <1>2 DEF PostStep, PostStat, PostRemove, PostCreate, CreateFails, PostBroken, Stays
<1>3. CASE CallStep(v)
  BY ZenonT(60), <1>0, <1>3 DEF CallStep, SetStage, CloudTypeOK
<1>4. CASE DispatchStep(v)
  <2>1. UNCHANGED <<stage, part, files, input>> /\ (UNCHANGED <<pc, working>> \/ pc[v] = "requesting")
    BY ZenonT(60), <1>4 DEF DispatchStep, DispatchTask, TakeReply
  <2>2. pc[v] = "requesting" => stage[v] = "begin"
    BY ZenonT(60) DEF CInv, PostInv
  <2> QED BY ZenonT(60), <2>1, <2>2 DEF Stays
<1>5. CASE CrashStep(v)
  BY <1>0, <1>5 DEF CrashStep, Crash, MoveTo
<1>6. ASSUME NEW w \in Workers \ {v}, FileStep(w) \/ PostStep(w) \/ CallStep(w) \/ DispatchStep(w) \/ CrashStep(w)
      PROVE  Stays(v)
  BY ZenonT(60), <1>6, WorkerAlone
<1>7. CASE (\E t \in Tasks : TimerStep(t)) \/ DoneStep \/ ExitStep \/ UNCHANGED jobVars
  BY ZenonT(60), <1>7, AllAlone
<1> QED BY ZenonT(60), <1>1, <1>2, <1>3, <1>4, <1>5, <1>6, <1>7 DEF JobNext

(* What a map has uploaded. *)
LEMMA UploadsKept ==
  ASSUME CInv, [JobNext]_jobVars, up', NEW v \in Workers, pc'[v] = "working", working'[v] \in MapTasks,
         NEW i \in Parts, stage'[v] = "finished" \/ (stage'[v] = "uploading" /\ i < part'[v])
  PROVE  Ready(working[v].Index, i)'
<1>0. WorkerInv(v) /\ CloudTypeOK /\ PostInv(v)
  BY ZenonT(60), UpFalls DEF CInv
<1>1. ASSUME working'[v] = working[v], Ready(working[v].Index, i) PROVE Ready(working[v].Index, i)'
  <2>1. PICK m \in MapIds : m = working[v].Index
    BY ZenonT(60), <1>1, Index
  <2>2. Ready(m, i)'
    BY ZenonT(60), <1>1, <2>1, ReadyStays
  <2> QED BY ZenonT(60), <1>1, <2>1, <2>2
<1>2. CASE Stays(v)
  BY ZenonT(60), <1>0, <1>1, <1>2 DEF Stays, WorkerInv
<1>3. CASE GetInput(v)
  <2>1. stage'[v] = "uploading" /\ part'[v] = 0
    BY <1>0, <1>3 DEF GetInput, At, SetStage, PostInv, CloudTypeOK
  <2>2. ~(i < 0)
    BY DEF Parts
  <2> QED BY ZenonT(60), <2>1, <2>2
<1>4. CASE ListFiles(v) \/ GetFile(v) \/ WriteOut(v) \/ WriteNothing(v)
  <2>1. working'[v] \in ReduceTasks
    BY ZenonT(60), <1>4 DEF ListFiles, GetFile, WriteOut, WriteNothing, At, vars
  <2> QED BY ZenonT(60), <2>1, TaskSets
<1>5. CASE PostWrite(v)
  <2>1. UNCHANGED <<pc, working>> /\ post[v] = "write" /\ stage[v] = "uploading"
    BY ZenonT(60), <1>5, WriteStep, Poster DEF vars
  <2>2. PICK k \in Parts : k = part[v]
    BY ZenonT(60), <1>0 DEF CloudTypeOK
  <2>3. i < k \/ i = k
    <3>1. working[v] \notin ReduceTasks
      BY ZenonT(60), <2>1, TaskSets
    <3>2. CASE k = NReduce - 1
      BY <3>2, SizeAssumption DEF Parts
    <3>3. CASE k # NReduce - 1
      <4>1. part'[v] = k + 1 /\ stage'[v] = "uploading"
        BY <1>0, <1>5, <2>1, <2>2, <3>1, <3>3 DEF PostWrite, SetStage, CloudTypeOK
      <4> QED BY <4>1 DEF Parts
    <3> QED BY ZenonT(60), <3>2, <3>3
  <2>4. CASE i < k
    BY ZenonT(60), <1>0, <1>1, <2>1, <2>2, <2>4 DEF WorkerInv
  <2>5. CASE i = k /\ ~linked[v]
    BY ZenonT(60), <1>1, <2>1, <2>2, <2>5, UpFalls DEF CInv, HandlerInv
  <2>6. CASE i = k /\ linked[v]
    <3>1. Target(v) = MapName(working[v].Index, k) /\ Content(v) = New(working[v].Index)
      BY ZenonT(60), <2>1, <2>2 DEF Target, Content, New
    <3>2. store'[MapName(working[v].Index, k)] = New(working[v].Index)
      BY ZenonT(60), <1>5, <2>6, <3>1, WriteStep
    <3> QED BY ZenonT(60), <2>1, <2>6, <3>2 DEF Ready, New, File, MapName
  <2> QED BY ZenonT(60), <2>3, <2>4, <2>5, <2>6
<1> QED BY ZenonT(60), <1>2, <1>3, <1>4, <1>5, WorkerMoves

(* What a reduce has found in the list. *)
LEMMA ListKept ==
  ASSUME CInv, [JobNext]_jobVars, up', NEW v \in Workers, pc'[v] = "working", working'[v] \in ReduceTasks,
         stage'[v] = "listed", NEW m \in files'[v]
  PROVE  Kept(MapName(m, working[v].Index))'
<1>0. WorkerInv(v) /\ CloudTypeOK /\ CloudTypeOK'
  BY ZenonT(60), UpFalls, TypeKept DEF CInv
<1>1. PICK r \in Parts : r = working'[v].Index
  BY ZenonT(60), Index
<1>2. MapName(m, r) \in Names
  BY <1>0 DEF CloudTypeOK, Names
<1>3. SUFFICES Kept(MapName(m, r))
  <2>1. PICK n \in Names : n = MapName(m, r)
    BY ZenonT(60), <1>2
  <2>2. Kept(n)'
    BY ZenonT(60), <1>3, <2>1, KeptStays
  <2> QED BY ZenonT(60), <1>1, <2>1, <2>2
<1>4. CASE Stays(v)
  BY ZenonT(60), <1>0, <1>1, <1>4 DEF Stays, WorkerInv
<1>5. CASE GetInput(v) \/ WriteOut(v) \/ WriteNothing(v)
  <2>1. stage' = [stage EXCEPT ![v] = "uploading"]
    BY ZenonT(60), <1>5 DEF GetInput, WriteOut, WriteNothing, SetStage
  <2> QED BY ZenonT(60), <1>0, <2>1 DEF CloudTypeOK
<1>6. CASE ListFiles(v)
  <2>1. files'[v] = Listed(working[v].Index) /\ working'[v] = working[v]
    BY ZenonT(60), <1>0, <1>6 DEF ListFiles, CloudTypeOK, vars
  <2> QED BY ZenonT(60), <1>1, <2>1 DEF Listed, Kept
<1>7. CASE GetFile(v)
  <2>1. pc[v] = "working" /\ working'[v] = working[v] /\ working[v] \in ReduceTasks /\ stage[v] = "listed"
    BY ZenonT(60), <1>7 DEF GetFile, At, vars
  <2>2. files' = files \/ \E k : files' = [files EXCEPT ![v] = @ \ {k}]
    BY ZenonT(60), <1>7 DEF GetFile
  <2>3. m \in files[v]
    BY <1>0, <2>2 DEF CloudTypeOK
  <2> QED BY ZenonT(60), <1>0, <1>1, <2>1, <2>3 DEF WorkerInv
<1>8. CASE PostWrite(v)
  <2>1. stage[v] = "uploading"
    BY ZenonT(60), <1>8, WriteStep, Poster
  <2>2. stage' = stage \/ stage' = [stage EXCEPT ![v] = "uploading"] \/ stage' = [stage EXCEPT ![v] = "finished"]
    BY ZenonT(60), <1>8 DEF PostWrite, SetStage
  <2> QED BY ZenonT(60), <1>0, <2>1, <2>2 DEF CloudTypeOK
<1> QED BY ZenonT(60), <1>4, <1>5, <1>6, <1>7, <1>8, WorkerMoves

(* A task is Completed by the report of a worker that has finished it. *)
LEMMA Completes ==
  ASSUME CInv, [JobNext]_jobVars, NEW t \in Tasks, StatusIs(t, "Completed")', ~StatusIs(t, "Completed")
  PROVE  \E w \in Workers : /\ pc[w] = "working" /\ working[w] = t /\ stage[w] = "finished"
                            /\ Accepts(w, t) /\ CallStep(w)
<1>1. IInv /\ [Next]_vars
  BY ZenonT(60), JobStepIsStep DEF CInv
<1>2. PICK w \in Workers : CompleteTask(w) /\ Accepts(w, t) /\ working[w] = t
  BY ZenonT(60), <1>1, OthersComplete
<1>3. tasks' # tasks
  BY ZenonT(60) DEF StatusIs
<1>4. pc[w] = "working" /\ pc'[w] # pc[w]
  <2>1. pc[w] = "working" /\ \E l \in {"exited", "idle"} : pc' = [pc EXCEPT ![w] = l]
    BY ZenonT(60), <1>2 DEF CompleteTask, MoveTo
  <2> QED BY ZenonT(60), <1>1, <2>1 DEF IInv, TypeOK
<1>5. CASE CallStep(w)
  <2>1. stage[w] = "finished"
    BY ZenonT(60), <1>4, <1>5 DEF CallStep, Reports
  <2> QED BY ZenonT(60), <1>2, <1>4, <1>5, <2>1
<1>6. CASE FileStep(w) \/ PostStep(w) \/ CrashStep(w)
  BY ZenonT(60), <1>3, <1>6 DEF FileStep, StartPost, GetInput, NoTempDir, ListFiles, GetFails, GetFile, WriteOut, WriteNothing, ServerLost, PostStep,
     PostStat, PostRemove, PostCreate, CreateFails, PostWrite, PostBroken, CrashStep, Crash, vars, coordVars
<1>7. CASE DispatchStep(w)
  BY ZenonT(60), <1>4, <1>7 DEF DispatchStep, DispatchTask, TakeReply
<1>8. ASSUME NEW v \in Workers \ {w}, FileStep(v) \/ PostStep(v) \/ CallStep(v) \/ DispatchStep(v) \/ CrashStep(v)
      PROVE  FALSE
  BY ZenonT(60), <1>4, <1>8, WorkerAlone DEF Stays
<1>9. CASE (\E u \in Tasks : TimerStep(u)) \/ DoneStep \/ ExitStep \/ UNCHANGED jobVars
  BY ZenonT(60), <1>4, <1>9, AllAlone DEF Stays
<1> QED BY ZenonT(60), <1>5, <1>6, <1>7, <1>8, <1>9 DEF JobNext

(* Only Done fetches the output, and nobody changes the trial. *)
LEMMA FetchMoves ==
  ASSUME [JobNext]_jobVars
  PROVE  trial' = trial /\ (UNCHANGED <<fetch, result>> \/ DoneStep)
<1>1. ASSUME NEW w \in Workers, FileStep(w) PROVE UNCHANGED doneVars
  BY ZenonT(60), <1>1 DEF FileStep, StartPost, GetInput, NoTempDir, ListFiles, GetFails, GetFile, WriteOut, WriteNothing, ServerLost
<1>2. ASSUME NEW w \in Workers, PostStep(w) PROVE UNCHANGED doneVars
  BY ZenonT(60), <1>2 DEF PostStep, PostStat, PostRemove, PostCreate, CreateFails, PostWrite, PostBroken
<1>3. ASSUME NEW w \in Workers, CallStep(w) \/ DispatchStep(w) \/ CrashStep(w) PROVE UNCHANGED doneVars
  BY ZenonT(60), <1>3 DEF CallStep, DispatchStep, CrashStep
<1>4. ASSUME NEW t \in Tasks, TimerStep(t) PROVE UNCHANGED doneVars
  BY ZenonT(60), <1>4 DEF TimerStep
<1>5. DoneStep => trial' = trial
  BY ZenonT(60) DEF DoneStep, StartDone, Download, FinishDone, DoneFails, doneVars
<1>6. ExitStep \/ UNCHANGED jobVars => UNCHANGED doneVars
  BY ZenonT(60) DEF ExitStep, jobVars
<1> QED BY ZenonT(60), <1>1, <1>2, <1>3, <1>4, <1>5, <1>6 DEF JobNext, doneVars

(* What the coordinator relies on. *)
LEMMA JobKept ==
  ASSUME CInv, [JobNext]_jobVars, up'
  PROVE  JobInv'
<1>0. JobInv /\ CloudTypeOK /\ \A w \in Workers : WorkerInv(w)
  BY ZenonT(60), UpFalls DEF CInv
<1>1. ASSUME NEW t \in MapTasks, StatusIs(t, "Completed")', NEW i \in Parts PROVE Ready(t.Index, i)'
  <2>1. Ready(t.Index, i)
    <3>1. CASE StatusIs(t, "Completed")
      BY ZenonT(60), <1>0, <3>1 DEF JobInv, Completed
    <3>2. CASE ~StatusIs(t, "Completed")
      <4>1. t \in Tasks
        BY ZenonT(60) DEF Tasks
      <4>2. PICK w \in Workers : pc[w] = "working" /\ working[w] = t /\ stage[w] = "finished"
        BY ZenonT(60), <1>1, <3>2, <4>1, Completes
      <4> QED BY ZenonT(60), <1>0, <4>2 DEF WorkerInv
    <3> QED BY ZenonT(60), <3>1, <3>2
  <2>2. t.Index \in MapIds
    BY ZenonT(60), Index
  <2> QED BY ZenonT(60), <2>1, <2>2, ReadyStays
<1>2. ASSUME NEW r \in fetch'.todo PROVE Kept(OutName(r))'
  <2>1. r \in Parts
    <3>1. fetch' \in [busy : BOOLEAN, todo : SUBSET Parts]
      BY ZenonT(60), TypeKept DEF CloudTypeOK
    <3> QED BY <1>2, <3>1
  <2>2. OutName(r) \in Names
    BY <2>1 DEF Names
  <2>3. SUFFICES Kept(OutName(r))
    BY ZenonT(60), <2>2, <2>3, KeptStays DEF OutName
  <2>4. CASE fetch' = fetch
    BY ZenonT(60), <1>0, <1>2, <2>4 DEF JobInv
  <2>5. CASE StartDone
    <3>1. r \in {s \in Parts : store[OutName(s)].exists}
      <4>1. fetch' = [busy |-> TRUE, todo |-> {s \in Parts : store[OutName(s)].exists}]
        BY ZenonT(60), <2>5 DEF StartDone
      <4> QED BY <1>2, <4>1
    <3> QED BY ZenonT(60), <3>1 DEF Kept
  <2>6. CASE Download
    <3>1. \E s : fetch' = [fetch EXCEPT !.todo = @ \ {s}]
      BY ZenonT(60), <2>6 DEF Download
    <3>2. r \in fetch.todo
      BY <1>0, <1>2, <3>1 DEF CloudTypeOK
    <3> QED BY ZenonT(60), <1>0, <3>2 DEF JobInv
  <2>7. CASE FinishDone \/ DoneFails
    <3>1. fetch' = Idle
      BY ZenonT(60), <2>7 DEF FinishDone, DoneFails
    <3> QED BY <1>2, <3>1 DEF Idle
  <2> QED BY ZenonT(60), <2>4, <2>5, <2>6, <2>7, FetchMoves DEF DoneStep
<1> QED BY ZenonT(60), <1>1, <1>2 DEF JobInv, Completed, MapTasks

LEMMA NextCInv ==
  ASSUME CInv, [JobNext]_jobVars
  PROVE  CInv'
<1>1. IInv'
  BY ZenonT(60), JobStepIsStep, NextIInv DEF CInv
<1>2. CloudTypeOK' /\ \A w \in Workers : PostInv(w)'
  BY ZenonT(60), TypeKept, PostKept
<1>3. ASSUME up', NEW w \in Workers PROVE WorkerInv(w)'
  BY ZenonT(60), <1>3, UploadsKept, ListKept DEF WorkerInv
<1>4. up' => JobInv' /\ \A w \in Workers : HandlerInv(w)' /\ WorkerInv(w)'
  BY ZenonT(60), <1>3, JobKept, HandlerKept
<1> QED BY ZenonT(60), <1>1, <1>2, <1>4 DEF CInv

(* At the start the server holds whole files of the earlier job. *)
LEMMA OldFiles ==
  ASSUME trial \in Trials, NEW n \in Names
  PROVE  OldFile(n, trial.oldMaps) \in Files
<1>1. trial.oldMaps \in Nat /\ 0 .. trial.oldMaps - 1 \subseteq MapIds
  BY TrialAssumption DEF MapIds
<1>2. PICK k : k = trial.oldMaps
  OBVIOUS
<1>3. CASE \E m \in MapIds, i \in Parts : n = MapName(m, i)
  <2>1. n[1] = "tmp" /\ n[2] \in MapIds
    BY <1>3 DEF MapName
  <2>2. OldFile(n, k) = IF n[2] < k THEN File({<<n[2], "old">>}) ELSE Absent
    BY <2>1 DEF OldFile
  <2>3. {<<n[2], "old">>} \in SUBSET Maps
    BY <2>1 DEF Maps
  <2> QED BY ZenonT(60), <1>2, <2>2, <2>3, FileFacts
<1>4. CASE \E r \in Parts : n = OutName(r)
  <2>1. n[1] = "out"
    BY <1>4 DEF OutName
  <2>2. OldFile(n, k) = IF k > 0 THEN File({<<m, "old">> : m \in 0 .. k - 1}) ELSE Absent
    BY <2>1 DEF OldFile
  <2>3. {<<m, "old">> : m \in 0 .. k - 1} \in SUBSET Maps
    BY <1>1, <1>2 DEF Maps
  <2> QED BY ZenonT(60), <1>2, <2>2, <2>3, FileFacts
<1> QED BY <1>3, <1>4 DEF Names

LEMMA InitCInv == JobInit => CInv
<1> SUFFICES ASSUME JobInit PROVE CInv
  OBVIOUS
<1>1. IInv
  BY ZenonT(60), InitIInv DEF JobInit
<1>2. 0 \in Parts
  BY SizeAssumption DEF Parts
<1>3. store \in [Names -> Files]
  BY ZenonT(60), OldFiles DEF JobInit
<1>4. fetch \in [busy : BOOLEAN, todo : SUBSET Parts] /\ fetch.todo = {}
  BY DEF JobInit, Idle
<1>5. result \in [Parts -> Files]
  BY ZenonT(60), FileFacts DEF JobInit
<1>6. CloudTypeOK
  BY <1>2, <1>3, <1>4, <1>5 DEF CloudTypeOK, JobInit
<1>7. \A w \in Workers : post[w] = "none" /\ stage[w] = "begin" /\ part[w] = 0
  BY ZenonT(60) DEF JobInit
<1>8. Completed(MapTasks) = {}
  <2>1. PICK file \in [MapTasks -> FileNames] :
          tasks = [t \in Tasks |->
                    [Status |-> "NotStarted", WorkerId |-> NoWorker,
                     File |-> IF t \in MapTasks THEN file[t] ELSE ""]]
    BY ZenonT(60) DEF JobInit, Init
  <2> QED BY ZenonT(60), <2>1 DEF Completed, StatusIs, Tasks
<1>9. JobInv
  BY ZenonT(60), <1>4, <1>8 DEF JobInv
<1>10. \A w \in Workers : PostInv(w) /\ HandlerInv(w) /\ WorkerInv(w)
  BY ZenonT(60), <1>7 DEF PostInv, HandlerInv, WorkerInv
<1> QED BY ZenonT(60), <1>1, <1>6, <1>9, <1>10 DEF CInv

----------------------------------------------------------------------------
(* The properties that need no hypotheses *)

(* Whatever workers upload, late or half, the inductive invariant holds. *)
THEOREM CloudInvariance == JobSpec => []CInv
BY InitCInv, NextCInv, PTL DEF JobSpec

(* The requests to the file server hide inside the steps of coordinator.go *)
(* and of the worker's loop: what these implement, the job in the cloud    *)
(* implements, each task finished once and maps before reduces.            *)
THEOREM CloudJobImplementsJob == JobSpec => ImplementsJob
<1>1. JobInit => Init
  BY DEF JobInit
<1>2. [JobNext]_jobVars => [Next]_vars
  BY JobStepIsStep
<1>3. JobSpec => Spec
  BY <1>1, <1>2, PTL DEF JobSpec, Spec
<1> QED BY <1>3, Refinement, PTL

(* getFile takes a file away before it writes it anew: the parts of a      *)
(* Completed map are whole on the server, or on their way, however many    *)
(* late uploads of given-up attempts meet there.                           *)
THEOREM MapsReturn == JobSpec => []CompletedMapsReturn
<1>1. CInv => CompletedMapsReturn
  <2> SUFFICES ASSUME CInv, up, NEW t \in Completed(MapTasks), NEW i \in Parts
               PROVE  \/ store[MapName(t.Index, i)] = File({<<t.Index, "new">>})
                      \/ \E w \in Workers : /\ post[w] \in {"create", "write"}
                                            /\ Target(w) = MapName(t.Index, i)
    BY ZenonT(60) DEF CompletedMapsReturn
  <2>1. Ready(t.Index, i)
    BY ZenonT(60) DEF CInv, JobInv
  <2> QED BY ZenonT(60), <2>1 DEF Ready, New
<1> QED BY <1>1, CloudInvariance, PTL

(* On a server that has root/tmp and the inputs, the log.Fatal calls are   *)
(* reached only when uploads meet on a name, when a file is read while it  *)
(* is written anew, or when a client dies in the middle of its upload.     *)
THEOREM EndsOnOverlap == JobSpec => ServerEndsOnOverlap
<1>1. ASSUME CInv, [JobNext]_jobVars, Stocked, up, ~up'
      PROVE  \E w \in Workers : post[w] # "none" /\ (pc[w] = "crashed" \/ Shared(w))
  <2>0. CloudTypeOK /\ JobInv /\ \A w \in Workers : HandlerInv(w) /\ WorkerInv(w)
    BY ZenonT(60), <1>1 DEF CInv
  <2>1. ASSUME NEW w \in Workers, PostStep(w)
        PROVE  \E v \in Workers : post[v] # "none" /\ (pc[v] = "crashed" \/ Shared(v))
    <3>1. CASE PostBroken(w)
      BY ZenonT(60), <3>1 DEF PostBroken
    <3>2. CASE PostRemove(w)
      <4>1. post[w] = "remove" /\ ~store[Target(w)].exists
        BY ZenonT(60), <1>1, <3>2 DEF PostRemove
      <4>2. PICK v \in Workers : post[v] = "create" /\ Target(v) = Target(w)
        BY ZenonT(60), <2>0, <4>1 DEF HandlerInv, Kept
      <4> QED BY ZenonT(60), <4>1, <4>2 DEF Shared
    <3>3. ~CreateFails(w)
      BY ZenonT(60), <1>1 DEF CreateFails, DirectoryMissing, Stocked
    <3> QED BY ZenonT(60), <1>1, <2>1, <3>1, <3>2, <3>3 DEF PostStep, PostStat, PostCreate, PostWrite
  <2>2. ASSUME NEW w \in Workers, FileStep(w)
        PROVE  \E v \in Workers : post[v] # "none" /\ (pc[v] = "crashed" \/ Shared(v))
    <3>0. ~GetFails(w)
      BY ZenonT(60), <1>1 DEF GetFails, InputMissing, Stocked
    <3>1. GetFile(w)
      BY ZenonT(60), <1>1, <2>2, <3>0 DEF FileStep, StartPost, GetInput, NoTempDir, ListFiles, WriteOut, WriteNothing, ServerLost, serverVars
    <3>2. pc[w] = "working" /\ working[w] \in ReduceTasks /\ stage[w] = "listed"
      BY ZenonT(60), <3>1 DEF GetFile, At
    <3>3. PICK m \in files[w] : ~store[MapName(m, working[w].Index)].exists
      BY ZenonT(60), <1>1, <3>1 DEF GetFile, serverVars
    <3>4. PICK v \in Workers : post[v] = "create" /\ Target(v) = MapName(m, working[w].Index)
      BY ZenonT(60), <2>0, <3>2, <3>3 DEF WorkerInv, Kept
    <3> QED BY ZenonT(60), <3>2, <3>4 DEF Shared
  <2>3. CASE DoneStep
    <3>1. Download
      BY ZenonT(60), <1>1, <2>3 DEF DoneStep, StartDone, FinishDone, DoneFails, serverVars
    <3>2. PICK r \in fetch.todo : ~store[OutName(r)].exists
      BY ZenonT(60), <1>1, <3>1 DEF Download, serverVars
    <3>3. PICK v \in Workers : post[v] = "create" /\ Target(v) = OutName(r)
      BY ZenonT(60), <2>0, <3>2 DEF JobInv, Kept
    <3> QED BY ZenonT(60), <3>3 DEF Shared
  <2>4. ASSUME NEW w \in Workers, CallStep(w) \/ DispatchStep(w) \/ CrashStep(w) PROVE FALSE
    BY ZenonT(60), <1>1, <2>4 DEF CallStep, DispatchStep, CrashStep, serverVars
  <2>5. ASSUME NEW t \in Tasks, TimerStep(t) PROVE FALSE
    BY ZenonT(60), <1>1, <2>5 DEF TimerStep, serverVars
  <2>6. ~ExitStep /\ ~UNCHANGED jobVars
    BY ZenonT(60), <1>1 DEF ExitStep, jobVars, serverVars
  <2> QED BY ZenonT(60), <1>1, <2>1, <2>2, <2>3, <2>4, <2>5, <2>6 DEF JobNext
<1>2. CInv /\ [JobNext]_jobVars =>
        [Stocked /\ up /\ ~up' => \E w \in Workers : post[w] # "none" /\ (pc[w] = "crashed" \/ Shared(w))]_jobVars
  BY ZenonT(60), <1>1
<1> QED BY <1>2, CloudInvariance, PTL DEF JobSpec, ServerEndsOnOverlap

----------------------------------------------------------------------------
(* Tidy trials *)

(* A worker works on what it had, or on what RequestTask just gave it. *)
LEMMA Takes ==
  ASSUME IInv, [Next]_vars, NEW v \in Workers, pc'[v] = "working"
  PROVE  \/ pc[v] = "working" /\ working'[v] = working[v]
         \/ /\ DispatchTask(v) /\ pc[v] = "requesting" /\ handler[v] \in Tasks
            /\ working'[v] = handler[v]
<1>0. /\ pc \in [Workers -> {"start", "idle", "requesting", "working", "exited", "fatal", "crashed"}]
      /\ working \in [Workers -> Tasks \cup {Nothing}]
      /\ handler \in [Workers -> Tasks \cup {NoTask, ExitTask, Nothing}]
  BY ZenonT(60) DEF IInv, TypeOK
<1>1. CASE UNCHANGED <<pc, working>>
  BY ZenonT(60), <1>1
<1>2. ASSUME NEW w \in Workers, NEW l, l # "working", pc' = [pc EXCEPT ![w] = l], UNCHANGED working
      PROVE  pc[v] = "working" /\ working'[v] = working[v]
  BY ZenonT(60), <1>0, <1>2
<1>3. ASSUME NEW w \in Workers, WorkerStep(w) \/ Crash(w), UNCHANGED working
      PROVE  pc[v] = "working" /\ working'[v] = working[v]
  <2>1. \E l : l # "working" /\ pc' = [pc EXCEPT ![w] = l]
    BY ZenonT(60), <1>3 DEF WorkerStep, Crash, GetNReduce, RequestTask, RequestBroken, CompleteTask, DialFails, MoveTo
  <2> QED BY ZenonT(60), <1>2, <1>3, <2>1
<1>4. ASSUME NEW w \in Workers, CompleteTask(w)
      PROVE  pc[v] = "working" /\ working'[v] = working[v]
  <2>1. /\ \E l \in {"exited", "idle"} : pc' = [pc EXCEPT ![w] = l]
        /\ working' = [working EXCEPT ![w] = Nothing]
    BY ZenonT(60), <1>4 DEF CompleteTask, MoveTo
  <2> QED BY ZenonT(60), <1>0, <2>1
<1>5. ASSUME NEW w \in Workers, WorkerStep(w) \/ Crash(w)
      PROVE  pc[v] = "working" /\ working'[v] = working[v]
  BY ZenonT(60), <1>3, <1>4, <1>5 DEF WorkerStep, Crash, GetNReduce, RequestTask, RequestBroken, DialFails
<1>6. ASSUME NEW w \in Workers \ {v}, DispatchTask(w) PROVE pc[v] = "working" /\ working'[v] = working[v]
  <2>1. \/ UNCHANGED <<pc, working>>
        \/ \E l, t : pc' = [pc EXCEPT ![w] = l] /\ working' = [working EXCEPT ![w] = t]
    BY ZenonT(60), <1>6 DEF DispatchTask, TakeReply, MoveTo
  <2> QED BY ZenonT(60), <1>0, <2>1
<1>7. CASE DispatchTask(v) /\ pc[v] # "requesting"
  BY ZenonT(60), <1>7 DEF DispatchTask, TakeReply
<1>8. CASE DispatchTask(v) /\ pc[v] = "requesting"
  <2> DEFINE t == handler[v]
             skip == t = NoTask \/ (t \in MapTasks /\ tasks[t].File = "")
  <2>1. /\ pc' = [pc EXCEPT ![v] = IF t = ExitTask THEN "exited" ELSE IF skip THEN "idle" ELSE "working"]
        /\ working' = [working EXCEPT ![v] = IF t \in Tasks /\ ~skip THEN t ELSE Nothing]
        /\ t # Nothing
    BY ZenonT(60), <1>8 DEF DispatchTask, TakeReply, MoveTo
  <2>2. t \in Tasks \cup {NoTask, ExitTask, Nothing}
    BY ZenonT(60), <1>0
  <2> HIDE DEF t
  <2>3. t # ExitTask /\ ~skip
    BY ZenonT(60), <1>0, <2>1
  <2>4. t \in Tasks /\ working'[v] = t
    BY ZenonT(60), <1>0, <2>1, <2>2, <2>3
  <2> QED BY ZenonT(60), <1>8, <2>4 DEF t
<1>9. (\E t \in Tasks : waitForTask(t)) \/ Done \/ Exit \/ UNCHANGED vars => UNCHANGED <<pc, working>>
  BY ZenonT(60) DEF waitForTask, Done, Exit, vars
<1> QED BY ZenonT(60), <1>1, <1>5, <1>6, <1>7, <1>8, <1>9 DEF Next

(* Only CompleteTask and the timer would change the task of a worker that  *)
(* is at it: the handlers hold tasks that nobody owns.                     *)
LEMMA OwnTask ==
  ASSUME CInv, Tidy, OwnerInv, [JobNext]_jobVars,
         NEW v \in Workers, pc[v] = "working", pc'[v] = "working"
  PROVE  tasks'[working[v]] = tasks[working[v]]
<1>0. /\ pc \in [Workers -> {"start", "idle", "requesting", "working", "exited", "fatal", "crashed"}]
      /\ tasks \in TaskTable /\ OneTimerPerAttempt
  BY ZenonT(60) DEF CInv, IInv, TypeOK, TaskTable
<1> DEFINE t == working[v]
<1>1. t \in Tasks /\ StatusIs(t, "InProgress") /\ tasks[t].WorkerId = Pid[v]
  BY ZenonT(60) DEF CInv, IInv, LoopInv, OwnerInv, Accepts
<1>2. tasks[t].WorkerId # NoWorker
  BY <1>1, PidAssumption DEF NoWorker
<1> HIDE DEF t
<1>3. ASSUME NEW u \in Tasks \ {t}, NEW x, tasks' = [tasks EXCEPT ![u] = x] PROVE tasks'[t] = tasks[t]
  BY ZenonT(60), <1>0, <1>1, <1>3 DEF TaskTable
<1>4. ASSUME NEW w \in Workers, RequestTask(w) PROVE tasks'[t] = tasks[t]
  <2>1. ASSUME NEW u \in Tasks, Selectable(u), tasks' = [tasks EXCEPT ![u].Status = "InProgress"]
        PROVE  tasks'[t] = tasks[t]
    <3>1. u # t
      BY <1>1, <2>1 DEF Selectable, FirstNotStarted, StatusIs
    <3> QED BY ZenonT(60), <1>3, <2>1, <3>1
  <2> QED BY ZenonT(60), <1>4, <2>1 DEF RequestTask, selectTask
<1>5. ASSUME NEW w \in Workers, DispatchTask(w) PROVE tasks'[t] = tasks[t]
  <2>1. CASE handler[w] \in Tasks
    <3>1. tasks' = [tasks EXCEPT ![handler[w]].WorkerId = Pid[w]]
      BY ZenonT(60), <1>5, <2>1 DEF DispatchTask
    <3>2. handler[w] # t
      <4>1. Pending(t) = {}
        BY <1>0, <1>1, <1>2 DEF OneTimerPerAttempt
      <4> QED BY ZenonT(60), <4>1 DEF Pending
    <3> QED BY ZenonT(60), <1>3, <2>1, <3>1, <3>2
  <2> QED BY ZenonT(60), <1>5, <2>1 DEF DispatchTask
<1>6. ASSUME NEW w \in Workers, CompleteTask(w) PROVE tasks'[t] = tasks[t]
  <2>1. /\ pc[w] = "working" /\ \E l \in {"exited", "idle"} : pc' = [pc EXCEPT ![w] = l]
        /\ UNCHANGED tasks \/ tasks' = [tasks EXCEPT ![working[w]].Status = "Completed"]
    BY ZenonT(60), <1>6 DEF CompleteTask, MoveTo
  <2>2. w # v
    BY ZenonT(60), <1>0, <2>1
  <2>3. working[w] \in Tasks \ {t}
    BY ZenonT(60), <2>1, <2>2 DEF OwnerInv, CInv, IInv, LoopInv, t
  <2> QED BY ZenonT(60), <1>3, <2>1, <2>3
<1>7. ASSUME NEW w \in Workers, WorkerStep(w) \/ DispatchTask(w) \/ Crash(w) PROVE tasks'[t] = tasks[t]
  BY ZenonT(60), <1>4, <1>5, <1>6, <1>7 DEF WorkerStep, GetNReduce, RequestBroken, DialFails, Crash, coordVars
<1>8. ASSUME NEW u \in Tasks, TimerStep(u) PROVE tasks'[t] = tasks[t]
  <2>1. UNCHANGED tasks \/ tasks' = [tasks EXCEPT ![u] = Release(@)]
    BY ZenonT(60), <1>8 DEF TimerStep, waitForTask
  <2>2. u # t
    <3>1. ~Overtakes(u)
      BY ZenonT(60), <1>8 DEF TimerStep, Tidy
    <3>2. Overtakes(working[v])
      BY ZenonT(60) DEF Overtakes, OwnerInv
    <3> QED BY ZenonT(60), <3>1, <3>2 DEF t
  <2> QED BY ZenonT(60), <1>3, <2>1, <2>2
<1>9. ASSUME NEW w \in Workers, FileStep(w) \/ PostStep(w) PROVE tasks'[t] = tasks[t]
  BY ZenonT(60), <1>9 DEF FileStep, StartPost, GetInput, NoTempDir, ListFiles, GetFails, GetFile, WriteOut, WriteNothing, ServerLost, PostStep,
     PostStat, PostRemove, PostCreate, CreateFails, PostWrite, PostBroken, vars, coordVars
<1>10. DoneStep \/ ExitStep \/ UNCHANGED jobVars => UNCHANGED tasks
  BY ZenonT(60) DEF DoneStep, StartDone, Download, FinishDone, DoneFails, Done, ExitStep, Exit, jobVars, vars, coordVars
<1> QED BY ZenonT(60), <1>7, <1>8, <1>9, <1>10 DEF JobNext, CallStep, DispatchStep, CrashStep, t

(* Every attempt has one worker, whose report will be accepted. *)
LEMMA OwnersKept ==
  ASSUME CInv, Tidy, OwnerInv, [JobNext]_jobVars
  PROVE  OwnerInv'
<1>0. /\ IInv /\ [Next]_vars /\ IInv'
      /\ tasks \in TaskTable /\ OneTimerPerAttempt
  BY ZenonT(60), JobStepIsStep, NextIInv DEF CInv, IInv, TypeOK, TaskTable
<1> DEFINE Had(v) == pc[v] = "working" /\ working'[v] = working[v]
           Gets(v) == DispatchTask(v) /\ handler[v] \in Tasks /\ working'[v] = handler[v]
<1>1. ASSUME NEW v \in Workers, pc'[v] = "working" PROVE Had(v) \/ Gets(v)
  BY ZenonT(60), <1>0, <1>1, Takes
<1>2. ASSUME NEW v \in Workers, Gets(v)
      PROVE  /\ Accepts(v, working[v])'
             /\ \A u \in Workers : pc[u] = "working" => working[u] # working'[v]
  <2> DEFINE t == handler[v]
  <2>1. t \in Tasks /\ working'[v] = t /\ tasks' = [tasks EXCEPT ![t].WorkerId = Pid[v]]
    BY ZenonT(60), <1>2 DEF DispatchTask
  <2>2. v \in Pending(t)
    BY ZenonT(60) DEF Pending
  <2> HIDE DEF t
  <2>3. tasks[t].Status \in {"NotStarted", "InProgress", "Completed"}
    BY ZenonT(60), <1>0, <2>1 DEF TaskTable
  <2>4. Pending(t) # {}
    BY ZenonT(60), <2>2
  <2>5. StatusIs(t, "InProgress") /\ tasks[t].WorkerId = NoWorker
    BY <1>0, <2>1, <2>3, <2>4 DEF OneTimerPerAttempt, StatusIs
  <2>6. tasks'[t].Status = "InProgress" /\ tasks'[t].WorkerId = Pid[v]
    BY ZenonT(60), <1>0, <2>1, <2>5 DEF TaskTable, StatusIs
  <2>7. ASSUME NEW u \in Workers, pc[u] = "working" PROVE working[u] # t
    <3>1. tasks[working[u]].WorkerId = Pid[u]
      BY ZenonT(60), <2>7 DEF OwnerInv, Accepts
    <3>2. Pid[u] # NoWorker
      BY PidAssumption DEF NoWorker
    <3> QED BY ZenonT(60), <2>5, <3>1, <3>2
  <2> QED BY ZenonT(60), <2>1, <2>6, <2>7 DEF Accepts, StatusIs
<1>3. ASSUME NEW v \in Workers, pc'[v] = "working", Had(v) PROVE Accepts(v, working[v])'
  <2>1. tasks'[working[v]] = tasks[working[v]]
    BY ZenonT(60), <1>3, OwnTask
  <2> QED BY ZenonT(60), <1>3, <2>1 DEF OwnerInv, Accepts, StatusIs
<1>4. ASSUME NEW v \in Workers, NEW u \in Workers, Gets(v), Gets(u) PROVE u = v
  <2>1. handler' = [handler EXCEPT ![u] = Nothing] /\ handler' = [handler EXCEPT ![v] = Nothing]
    BY ZenonT(60), <1>4 DEF DispatchTask
  <2>2. handler \in [Workers -> Tasks \cup {NoTask, ExitTask, Nothing}] /\ handler[u] # Nothing
    BY ZenonT(60), <1>0, <1>4 DEF IInv, TypeOK, DispatchTask
  <2> QED BY ZenonT(60), <2>1, <2>2
<1>5. ASSUME NEW v \in Workers, pc'[v] = "working", NEW u \in Workers, pc'[u] = "working",
             working'[u] = working'[v]
      PROVE  u = v
  <2>1. CASE Had(v) /\ Had(u)
    BY ZenonT(60), <1>5, <2>1 DEF OwnerInv
  <2>2. CASE Gets(v) /\ Had(u)
    BY ZenonT(60), <1>2, <1>5, <2>2
  <2>3. CASE Had(v) /\ Gets(u)
    BY ZenonT(60), <1>2, <1>5, <2>3
  <2> HIDE DEF Had, Gets
  <2> QED BY ZenonT(60), <1>1, <1>4, <1>5, <2>1, <2>2, <2>3
<1>6. ASSUME NEW v \in Workers, pc'[v] = "working" PROVE Accepts(v, working[v])'
  BY ZenonT(60), <1>1, <1>2, <1>3, <1>6
<1> QED BY ZenonT(60), <1>5, <1>6 DEF OwnerInv

(* Nobody uploads what another uploads. *)
LEMMA DistinctTargets ==
  ASSUME CInv, OwnerInv, UploadInv, NEW v \in Workers, NEW w \in Workers \ {v},
         post[v] # "none", post[w] # "none"
  PROVE  Target(v) # Target(w)
<1>1. working[v] \in Tasks /\ working[w] \in Tasks /\ working[v] # working[w]
  BY ZenonT(60), Poster DEF OwnerInv, UploadInv
<1>2. CloudTypeOK
  BY ZenonT(60) DEF CInv
<1>3. CASE working[v] \in MapTasks /\ working[w] \in MapTasks
  <2>1. working[v].Index # working[w].Index
    BY ZenonT(60), <1>1, <1>3, Index
  <2>2. Target(v) = MapName(working[v].Index, part[v]) /\ Target(w) = MapName(working[w].Index, part[w])
    BY ZenonT(60), <1>3 DEF Target
  <2> QED BY <2>1, <2>2 DEF MapName
<1>4. CASE working[v] \notin MapTasks /\ working[w] \notin MapTasks
  <2>1. working[v].Index # working[w].Index
    BY ZenonT(60), <1>1, <1>4, Index DEF Tasks
  <2>2. Target(v) = OutName(working[v].Index) /\ Target(w) = OutName(working[w].Index)
    BY ZenonT(60), <1>4 DEF Target
  <2> QED BY <2>1, <2>2 DEF OutName
<1>5. CASE (working[v] \in MapTasks) # (working[w] \in MapTasks)
  BY <1>5 DEF Target, MapName, OutName
<1> QED BY ZenonT(60), <1>3, <1>4, <1>5

(* Once the maps are Completed only reduces upload. *)
LEMMA ReducesUpload ==
  ASSUME CInv, OwnerInv, UploadInv, Completed(MapTasks) = MapTasks, NEW w \in Workers, post[w] # "none"
  PROVE  working[w] \in ReduceTasks /\ Target(w) = OutName(working[w].Index)
<1>1. working[w] \in Tasks /\ StatusIs(working[w], "InProgress")
  BY ZenonT(60), Poster DEF OwnerInv, UploadInv, Accepts
<1>2. working[w] \notin MapTasks
  BY <1>1 DEF Completed, StatusIs
<1> QED BY ZenonT(60), <1>1, <1>2 DEF Tasks, Target

(* What the reduces then find. *)
LEMMA MapFiles ==
  ASSUME CInv, up, OwnerInv, UploadInv, Completed(MapTasks) = MapTasks, NEW m \in JobMaps, NEW i \in Parts
  PROVE  store[MapName(m, i)] = New(m)
<1>1. PICK t \in MapTasks : t.Index = m
  BY ZenonT(60), Index
<1>2. Ready(m, i)
  BY ZenonT(60), <1>1 DEF CInv, JobInv
<1>3. ASSUME NEW w \in Workers, post[w] # "none" PROVE Target(w) # MapName(m, i)
  <2>1. Target(w) = OutName(working[w].Index)
    BY ZenonT(60), <1>3, ReducesUpload
  <2> QED BY <2>1 DEF MapName, OutName
<1>4. ASSUME NEW w \in Workers, post[w] = "create" \/ post[w] = "write" PROVE post[w] # "none"
  BY <1>4
<1> QED BY ZenonT(60), <1>2, <1>3, <1>4 DEF Ready

(* Files change only under the hands of a handler. *)
LEMMA Elsewhere ==
  ASSUME CInv, [JobNext]_jobVars, up', NEW n \in Names,
         \A w \in Workers : post[w] # "none" => Target(w) # n
  PROVE  store'[n] = store[n]
<1>1. CASE \A w \in Workers : ~Touches(w)
  BY ZenonT(60), <1>1, Untouched
<1>2. ASSUME NEW w \in Workers, Touches(w) PROVE store'[n] = store[n]
  <2>1. post[w] # "none"
    BY ZenonT(60), <1>2 DEF Touches, PostRemove, PostCreate, PostWrite
  <2>2. n \in Names \ {Target(w)}
    BY ZenonT(60), <2>1
  <2>3. CASE PostRemove(w)
    BY ZenonT(60), <2>2, <2>3, RemoveStep
  <2>4. CASE PostCreate(w)
    BY ZenonT(60), <2>2, <2>4, CreateStep
  <2>5. CASE PostWrite(w)
    BY ZenonT(60), <2>2, <2>5, WriteStep
  <2> QED BY ZenonT(60), <1>2, <2>3, <2>4, <2>5 DEF Touches
<1> QED BY ZenonT(60), <1>1, <1>2

(* The maps of a reduce that is being worked on are done. *)
LEMMA MapsDone ==
  ASSUME CInv, NEW w \in Workers, working[w] \in ReduceTasks
  PROVE  Completed(MapTasks) = MapTasks
BY ZenonT(60) DEF CInv, IInv, Barrier

(* No handler ends the server. *)
LEMMA UpKept ==
  ASSUME CInv, Tidy, TidyInv, [JobNext]_jobVars
  PROVE  up'
<1>0. /\ CloudTypeOK /\ JobInv /\ \A w \in Workers : WorkerInv(w)
      /\ up /\ OwnerInv /\ UploadInv /\ StoreInv /\ ReduceInv /\ FetchInv
  BY ZenonT(60) DEF CInv, TidyInv
<1>1. ASSUME NEW w \in Workers, PostStep(w) PROVE up' = up
  <2>1. ~PostBroken(w)
    <3>1. post[w] = "write" => pc[w] = "working"
      BY <1>0 DEF UploadInv
    <3> QED BY <3>1 DEF PostBroken
  <2>2. PostRemove(w) => up' = up
    <3>1. post[w] = "remove" => store[Target(w)].exists
      BY <1>0 DEF UploadInv
    <3> QED BY ZenonT(60), <3>1 DEF PostRemove
  <2>3. ~CreateFails(w)
    BY ZenonT(60) DEF CreateFails, DirectoryMissing, Tidy, Stocked
  <2> QED BY ZenonT(60), <1>1, <2>1, <2>2, <2>3 DEF PostStep, PostStat, PostCreate, PostWrite
<1>2. ASSUME NEW w \in Workers, GetFile(w) PROVE up' = up
  <2>1. pc[w] = "working" /\ working[w] \in ReduceTasks /\ stage[w] = "listed"
    BY ZenonT(60), <1>2 DEF GetFile, At
  <2>2. Completed(MapTasks) = MapTasks /\ files[w] \subseteq JobMaps /\ working[w].Index \in Parts
    BY ZenonT(60), <1>0, <2>1, MapsDone, Index DEF ReduceInv
  <2>3. ASSUME NEW m \in files[w] PROVE store[MapName(m, working[w].Index)].exists
    <3>1. m \in JobMaps
      BY ZenonT(60), <2>2
    <3>2. store[MapName(m, working[w].Index)] = New(m)
      BY ZenonT(60), <1>0, <2>2, <3>1, MapFiles
    <3> QED BY ZenonT(60), <3>2, FileFacts DEF New
  <2> QED BY ZenonT(60), <1>2, <2>3 DEF GetFile, serverVars
<1>3. ASSUME NEW w \in Workers, FileStep(w) PROVE up' = up
  <2>1. ~GetFails(w)
    BY ZenonT(60) DEF GetFails, InputMissing, Tidy, Stocked
  <2> QED BY ZenonT(60), <1>2, <1>3, <2>1 DEF FileStep, StartPost, GetInput, NoTempDir, ListFiles, WriteOut, WriteNothing, ServerLost, serverVars
<1>4. Download => up' = up
  <2>1. ASSUME NEW r \in fetch.todo PROVE store[OutName(r)].exists
    <3>1. fetch.busy
      BY ZenonT(60), <1>0 DEF FetchInv
    <3>2. r \in Parts
      BY <1>0 DEF CloudTypeOK
    <3>3. PICK t \in ReduceTasks : t.Index = r
      BY ZenonT(60), <3>2, Index
    <3>4. t \in Completed(ReduceTasks)
      BY ZenonT(60), <1>0, <3>1 DEF FetchInv, Completed, Tasks
    <3>5. store[OutName(r)] = File(Sequential)
      BY ZenonT(60), <1>0, <3>3, <3>4 DEF FetchInv, Right
    <3> QED BY ZenonT(60), <3>5, FileFacts
  <2> QED BY ZenonT(60), <2>1 DEF Download, serverVars
<1>5. DoneStep => up' = up
  BY ZenonT(60), <1>4 DEF DoneStep, StartDone, FinishDone, DoneFails, serverVars
<1>6. ASSUME NEW w \in Workers, CallStep(w) \/ DispatchStep(w) \/ CrashStep(w) PROVE up' = up
  BY ZenonT(60), <1>6 DEF CallStep, DispatchStep, CrashStep, serverVars
<1>7. (\E t \in Tasks : TimerStep(t)) \/ ExitStep \/ UNCHANGED jobVars => up' = up
  BY ZenonT(60) DEF TimerStep, ExitStep, jobVars, serverVars
<1> QED BY ZenonT(60), <1>0, <1>1, <1>3, <1>5, <1>6, <1>7 DEF JobNext

(* A worker stays with its upload. *)
LEMMA UploaderStays ==
  ASSUME CInv, Tidy, up, UploadInv, [JobNext]_jobVars, NEW v \in Workers, post[v] # "none"
  PROVE  pc'[v] = "working"
<1>0. pc[v] = "working" /\ stage[v] = "uploading"
  BY ZenonT(60), Poster DEF UploadInv
<1>1. ~CallStep(v) /\ ~CrashStep(v) /\ ~ServerLost(v) /\ ~NoTempDir(v)
  <2>1. ~CallStep(v)
    BY <1>0 DEF CallStep, Reports
  <2>2. ~NoTempDir(v)
    BY <1>0 DEF NoTempDir, At
  <2> QED BY ZenonT(60), <2>1, <2>2 DEF CrashStep, ServerLost, Tidy
<1>2. DispatchStep(v) => pc' = pc
  <2>1. pc[v] # "requesting"
    BY <1>0
  <2> QED BY ZenonT(60), <2>1 DEF DispatchStep, DispatchTask, TakeReply
<1>3. FileStep(v) \/ PostStep(v) => pc' = pc
  BY ZenonT(60), <1>1 DEF FileStep, StartPost, GetInput, NoTempDir, ListFiles, GetFails, GetFile, WriteOut, WriteNothing, PostStep,
     PostStat, PostRemove, PostCreate, CreateFails, PostWrite, PostBroken, vars
<1>4. ASSUME NEW w \in Workers \ {v}, FileStep(w) \/ PostStep(w) \/ CallStep(w) \/ DispatchStep(w) \/ CrashStep(w)
      PROVE  pc'[v] = pc[v]
  BY ZenonT(60), <1>4, WorkerAlone DEF Stays
<1>5. CASE (\E u \in Tasks : TimerStep(u)) \/ DoneStep \/ ExitStep \/ UNCHANGED jobVars
  BY ZenonT(60), <1>0, <1>5, AllAlone DEF Stays
<1> QED BY ZenonT(60), <1>0, <1>1, <1>2, <1>3, <1>4, <1>5 DEF JobNext

(* A handler finds the file it looked for, and writes to the name it made. *)
LEMMA UploadTidy ==
  ASSUME CInv, Tidy, TidyInv, [JobNext]_jobVars, NEW v \in Workers, post'[v] # "none"
  PROVE  /\ pc'[v] = "working"
         /\ post'[v] = "remove" => store'[Target(v)'].exists
         /\ post'[v] = "write" => linked'[v]
<1>0. /\ CloudTypeOK /\ up /\ up' /\ OwnerInv /\ UploadInv
  BY ZenonT(60), UpKept DEF CInv, TidyInv
<1>1. Target(v)' = Target(v)
  BY ZenonT(60), TargetKept
<1>2. CASE post'[v] # post[v]
  <2>1. StartPost(v) \/ PostStep(v)
    BY ZenonT(60), <1>0, <1>2, PostMoves
  <2>2. CASE StartPost(v)
    <3>1. pc[v] = "working" /\ pc' = pc /\ post' = [post EXCEPT ![v] = "stat"]
      BY ZenonT(60), <2>2 DEF StartPost, Uploading, SetPost, vars
    <3>2. post'[v] = "stat"
      BY ZenonT(60), <1>0, <3>1 DEF CloudTypeOK
    <3> QED BY <3>1, <3>2
  <2>3. CASE PostStep(v)
    <3>1. post[v] # "none"
      BY <2>3 DEF PostStep, PostStat, PostRemove, PostCreate, CreateFails, PostWrite, PostBroken
    <3>2. pc'[v] = "working"
      BY ZenonT(60), <1>0, <3>1, UploaderStays
    <3>3. CASE PostStat(v)
      <4>1. post'[v] = IF store[Target(v)].exists THEN "remove" ELSE "create"
        BY ZenonT(60), <1>0, <3>3 DEF PostStat, SetPost, CloudTypeOK
      <4>2. store' = store
        BY ZenonT(60), <3>3 DEF PostStat
      <4> QED BY <1>1, <3>2, <4>1, <4>2
    <3>4. CASE PostRemove(v)
      <4>1. post'[v] = "create"
        BY ZenonT(60), <1>0, <3>4, RemoveStep
      <4> QED BY <3>2, <4>1
    <3>5. CASE PostCreate(v)
      <4>1. post'[v] = "write" /\ linked'[v]
        BY ZenonT(60), <3>5, CreateStep
      <4> QED BY <3>2, <4>1
    <3>6. CASE PostWrite(v)
      BY ZenonT(60), <3>6, WriteStep
    <3>7. ~PostBroken(v) /\ ~CreateFails(v)
      <4>1. ~ServerEnds
        BY ZenonT(60), <1>0, UpFalls
      <4> QED BY ZenonT(60), <4>1 DEF PostBroken, CreateFails
    <3> QED BY ZenonT(60), <2>3, <3>3, <3>4, <3>5, <3>6, <3>7 DEF PostStep
  <2> QED BY ZenonT(60), <2>1, <2>2, <2>3
<1>3. CASE post'[v] = post[v]
  <2>1. post[v] # "none" /\ pc'[v] = "working"
    BY ZenonT(60), <1>0, <1>3, UploaderStays
  <2>2. Target(v) \in Names
    BY ZenonT(60), <2>1, Poster
  <2>3. CASE \A w \in Workers : ~Touches(w)
    <3>1. UNCHANGED <<store, linked>>
      BY ZenonT(60), <1>0, <2>3, Untouched
    <3> QED BY ZenonT(60), <1>0, <1>1, <1>3, <2>1, <3>1 DEF UploadInv
  <2>4. ASSUME NEW w \in Workers, Touches(w)
        PROVE  store'[Target(v)] = store[Target(v)] /\ (linked'[v] <=> linked[v])
    <3>1. post[w] # "none"
      BY <2>4 DEF Touches, PostRemove, PostCreate, PostWrite
    <3>2. w # v
      <4>1. PostRemove(v) => post[v] # post'[v]
        BY ZenonT(60), <1>0, RemoveStep
      <4>2. PostCreate(v) => post[v] # post'[v]
        BY CreateStep
      <4>3. PostWrite(v) => post[v] # post'[v]
        BY WriteStep
      <4> QED BY ZenonT(60), <1>3, <2>4, <4>1, <4>2, <4>3 DEF Touches
    <3>3. Target(v) # Target(w)
      BY ZenonT(60), <1>0, <2>1, <3>1, <3>2, DistinctTargets
    <3>4. Target(v) \in Names \ {Target(w)} /\ v \in Workers \ {w}
      BY ZenonT(60), <2>2, <3>2, <3>3
    <3>5. CASE PostRemove(w)
      BY ZenonT(60), <1>0, <3>3, <3>4, <3>5, RemoveStep
    <3>6. CASE PostCreate(w)
      BY ZenonT(60), <3>4, <3>6, CreateStep
    <3>7. CASE PostWrite(w)
      BY ZenonT(60), <3>4, <3>7, WriteStep
    <3> QED BY ZenonT(60), <2>4, <3>5, <3>6, <3>7 DEF Touches
  <2> QED BY ZenonT(60), <1>0, <1>1, <1>3, <2>1, <2>3, <2>4 DEF UploadInv
<1> QED BY ZenonT(60), <1>2, <1>3

(* The job uploads no maps but its own. *)
LEMMA StoreTidy ==
  ASSUME CInv, Tidy, TidyInv, [JobNext]_jobVars, NEW m \in MapIds \ JobMaps, NEW i \in Parts
  PROVE  ~store'[MapName(m, i)].exists
<1>1. MapName(m, i) \in Names /\ ~store[MapName(m, i)].exists /\ up'
  <2>1. MapName(m, i) \in Names
    BY DEF Names
  <2> QED BY ZenonT(60), <2>1, UpKept DEF TidyInv, StoreInv
<1>2. ASSUME NEW w \in Workers, post[w] # "none" PROVE Target(w) # MapName(m, i)
  <2>1. CASE working[w] \in MapTasks
    <3>1. working[w].Index # m /\ Target(w) = MapName(working[w].Index, part[w])
      BY ZenonT(60), <2>1, Index DEF Target
    <3> QED BY <3>1 DEF MapName
  <2>2. CASE working[w] \notin MapTasks
    BY <2>2 DEF Target, MapName, OutName
  <2> QED BY ZenonT(60), <2>1, <2>2
<1> QED BY ZenonT(60), <1>1, <1>2, Elsewhere

(* What the owner of a reduce has uploaded stays. *)
LEMMA RightStays ==
  ASSUME CInv, Tidy, TidyInv, [JobNext]_jobVars, NEW t \in ReduceTasks, Right(t.Index),
         \/ StatusIs(t, "Completed")
         \/ \E w \in Workers : pc[w] = "working" /\ working[w] = t /\ stage[w] = "finished"
  PROVE  Right(t.Index)'
<1>0. up' /\ OwnerInv /\ UploadInv
  BY ZenonT(60), UpKept DEF TidyInv
<1>1. OutName(t.Index) \in Names
  <2>1. t.Index \in Parts
    BY ZenonT(60), Index
  <2> QED BY <2>1 DEF Names
<1>2. ASSUME NEW v \in Workers, post[v] # "none", Target(v) = OutName(t.Index) PROVE FALSE
  <2>1. /\ pc[v] = "working" /\ stage[v] = "uploading" /\ working[v] \in Tasks
        /\ StatusIs(working[v], "InProgress")
    BY ZenonT(60), <1>0, <1>2, Poster DEF OwnerInv, UploadInv, Accepts
  <2>2. working[v] \notin MapTasks
    BY <1>2 DEF Target, MapName, OutName
  <2>3. working[v].Index = t.Index
    <3>1. OutName(working[v].Index) = OutName(t.Index)
      BY ZenonT(60), <1>2, <2>2 DEF Target
    <3> QED BY <3>1 DEF OutName
  <2>4. working[v] = t
    BY ZenonT(60), <2>1, <2>2, <2>3, Index DEF Tasks
  <2>5. ~StatusIs(t, "Completed")
    BY <2>1, <2>4 DEF StatusIs
  <2>6. PICK w \in Workers : pc[w] = "working" /\ working[w] = t /\ stage[w] = "finished"
    BY ZenonT(60), <2>5
  <2>7. w = v
    BY ZenonT(60), <1>0, <2>1, <2>4, <2>6 DEF OwnerInv
  <2> QED BY <2>1, <2>6, <2>7
<1>3. store'[OutName(t.Index)] = store[OutName(t.Index)]
  BY ZenonT(60), <1>0, <1>1, <1>2, Elsewhere
<1> QED BY ZenonT(60), <1>3 DEF Right, Sequential

(* A reduce reads the maps of the job, each once, and uploads what it read. *)
LEMMA ReduceTidy ==
  ASSUME CInv, Tidy, TidyInv, [JobNext]_jobVars, NEW w \in Workers, pc'[w] = "working", working'[w] \in ReduceTasks
  PROVE  /\ stage'[w] = "listed" => /\ files'[w] \subseteq JobMaps
                                    /\ input'[w] = {<<m, "new">> : m \in JobMaps \ files'[w]}
         /\ stage'[w] = "uploading" => input'[w] = Sequential
         /\ stage'[w] = "finished" => Right(working[w].Index)'
<1>0. CloudTypeOK /\ up /\ up' /\ OwnerInv /\ UploadInv /\ StoreInv /\ ReduceInv
  BY ZenonT(60), UpKept DEF CInv, TidyInv
<1> DEFINE t == working[w]
           r == t.Index
<1>1. CASE stage'[w] = "begin"
  BY <1>1
<1>2. CASE Stays(w)
  <2>1. /\ pc[w] = "working" /\ t \in ReduceTasks /\ working'[w] = t
        /\ stage'[w] = stage[w] /\ files'[w] = files[w] /\ input'[w] = input[w]
    BY ZenonT(60), <1>2 DEF Stays
  <2>2. stage[w] = "finished" => Right(t.Index)'
    BY ZenonT(60), <1>0, <2>1, RightStays DEF ReduceInv
  <2>3. stage[w] = "finished" => Right(working[w].Index)'
    BY ZenonT(60), <2>1, <2>2 DEF Right
  <2> QED BY ZenonT(60), <1>0, <2>1, <2>3 DEF ReduceInv, Sequential
<1>3. ASSUME t \in ReduceTasks, NEW m \in JobMaps PROVE store[MapName(m, r)] = New(m)
  <2>1. r \in Parts /\ Completed(MapTasks) = MapTasks
    BY ZenonT(60), <1>3, Index, MapsDone
  <2> QED BY ZenonT(60), <1>0, <1>3, <2>1, MapFiles
<1>4. CASE ListFiles(w)
  <2>1. /\ t \in ReduceTasks
        /\ files' = [files EXCEPT ![w] = Listed(r)] /\ input' = [input EXCEPT ![w] = {}]
        /\ stage' = [stage EXCEPT ![w] = "listed"]
    BY ZenonT(60), <1>4 DEF ListFiles, At, SetStage
  <2>2. files'[w] = Listed(r) /\ input'[w] = {} /\ stage'[w] = "listed"
    BY ZenonT(60), <1>0, <2>1 DEF CloudTypeOK
  <2>3. r \in Parts
    BY ZenonT(60), <2>1, Index
  <2>4. Listed(r) \subseteq JobMaps
    BY ZenonT(60), <1>0, <2>3 DEF Listed, StoreInv
  <2>5. ASSUME NEW m \in JobMaps PROVE m \in Listed(r)
    <3>1. store[MapName(m, r)].exists
      BY ZenonT(60), <1>3, <2>1, FileFacts DEF New
    <3>2. m \in MapIds
      BY ZenonT(60), Index
    <3> QED BY ZenonT(60), <3>1, <3>2 DEF Listed
  <2>6. JobMaps \ Listed(r) = {}
    BY ZenonT(60), <2>5
  <2> QED BY <2>2, <2>4, <2>6
<1>5. CASE GetFile(w)
  <2>1. /\ pc[w] = "working" /\ t \in ReduceTasks /\ stage[w] = "listed"
    BY ZenonT(60), <1>5 DEF GetFile, At
  <2>2. files[w] \subseteq JobMaps /\ input[w] = {<<m, "new">> : m \in JobMaps \ files[w]}
    BY ZenonT(60), <1>0, <2>1 DEF ReduceInv
  <2>3. \/ \E m \in files[w] : /\ input' = [input EXCEPT ![w] = @ \cup store[MapName(m, r)].from]
                               /\ files' = [files EXCEPT ![w] = @ \ {m}]
                               /\ UNCHANGED stage
        \/ stage' = [stage EXCEPT ![w] = "hung"]
    <3>1. ~ServerEnds
      BY ZenonT(60), <1>0, UpFalls
    <3> QED BY ZenonT(60), <1>5, <3>1 DEF GetFile, SetStage
  <2>4. CASE stage' = [stage EXCEPT ![w] = "hung"]
    <3>1. stage'[w] = "hung"
      BY ZenonT(60), <1>0, <2>4 DEF CloudTypeOK
    <3> QED BY <3>1
  <2>5. ASSUME NEW m \in files[w], input' = [input EXCEPT ![w] = @ \cup store[MapName(m, r)].from],
               files' = [files EXCEPT ![w] = @ \ {m}], UNCHANGED stage
        PROVE  /\ files'[w] \subseteq JobMaps /\ stage'[w] = "listed"
               /\ input'[w] = {<<k, "new">> : k \in JobMaps \ files'[w]}
    <3>1. store[MapName(m, r)] = New(m) /\ m \in JobMaps
      BY ZenonT(60), <1>3, <2>1, <2>2
    <3>2. store[MapName(m, r)].from = {<<m, "new">>}
      BY ZenonT(60), <3>1, FileFacts DEF New
    <3>3. input'[w] = input[w] \cup {<<m, "new">>} /\ files'[w] = files[w] \ {m}
      BY ZenonT(60), <1>0, <2>5, <3>2 DEF CloudTypeOK
    <3>4. JobMaps \ files'[w] = (JobMaps \ files[w]) \cup {m}
      BY ZenonT(60), <3>1, <3>3
    <3>5. {<<k, "new">> : k \in (JobMaps \ files[w]) \cup {m}} = input[w] \cup {<<m, "new">>}
      BY ZenonT(60), <2>2
    <3> QED BY ZenonT(60), <2>1, <2>2, <2>5, <3>3, <3>4, <3>5
  <2>6. stage'[w] = "listed" => stage'[w] # "uploading" /\ stage'[w] # "finished"
    OBVIOUS
  <2> QED BY ZenonT(60), <2>3, <2>4, <2>5, <2>6
<1>6. CASE WriteOut(w)
  <2>1. pc[w] = "working" /\ t \in ReduceTasks /\ stage[w] = "listed" /\ files[w] = {}
    BY ZenonT(60), <1>6 DEF WriteOut, At
  <2>2. input[w] = {<<m, "new">> : m \in JobMaps}
    BY ZenonT(60), <1>0, <2>1 DEF ReduceInv
  <2>3. input[w] = Sequential
    <3>1. ASSUME NEW x \in input[w] PROVE x \in Sequential
      <4>1. PICK m \in JobMaps : x = <<m, "new">>
        BY ZenonT(60), <2>2, <3>1
      <4>2. PICK u \in MapTasks : u.Index = m
        BY ZenonT(60), Index
      <4> QED BY ZenonT(60), <4>1, <4>2 DEF Sequential
    <3>2. ASSUME NEW x \in Sequential PROVE x \in input[w]
      <4>1. PICK u \in MapTasks : x = <<u.Index, "new">>
        BY ZenonT(60), <3>2 DEF Sequential
      <4>2. u.Index \in JobMaps
        BY ZenonT(60), Index
      <4> QED BY ZenonT(60), <2>2, <4>1, <4>2
    <3> QED BY ZenonT(60), <3>1, <3>2
  <2>4. stage'[w] = "uploading" /\ input' = input
    BY ZenonT(60), <1>0, <1>6 DEF WriteOut, SetStage, CloudTypeOK
  <2> QED BY <2>3, <2>4 DEF Sequential
<1>7. CASE PostWrite(w)
  <2>1. /\ post[w] = "write" /\ working' = working
        /\ store'[Target(w)] = IF linked[w] THEN Content(w) ELSE store[Target(w)]
    BY ZenonT(60), <1>7, WriteStep DEF vars
  <2>2. post[w] # "none" /\ t \in ReduceTasks
    BY <2>1
  <2>3. pc[w] = "working" /\ stage[w] = "uploading" /\ linked[w]
    BY ZenonT(60), <1>0, <2>1, <2>2, Poster DEF UploadInv
  <2>4. Target(w) = OutName(r) /\ Content(w) = File(input[w])
    <3>1. t \in Tasks
      BY ZenonT(60), <2>2 DEF Tasks
    <3> QED BY ZenonT(60), <1>0, <2>2, <3>1, TargetFacts
  <2>5. input[w] = Sequential
    BY ZenonT(60), <1>0, <2>2, <2>3 DEF ReduceInv
  <2>6. store'[OutName(r)] = File(Sequential)
    BY ZenonT(60), <2>1, <2>3, <2>4, <2>5
  <2>7. stage'[w] = "finished"
    BY ZenonT(60), <1>0, <1>7, <2>2, <2>3 DEF PostWrite, SetStage, CloudTypeOK
  <2>8. Right(working[w].Index)'
    BY ZenonT(60), <2>1, <2>6 DEF Right, Sequential
  <2> QED BY <2>7, <2>8
<1>8. ~GetInput(w)
  <2>1. GetInput(w) => working'[w] \in MapTasks
    BY ZenonT(60) DEF GetInput, At, vars
  <2> QED BY ZenonT(60), <2>1, TaskSets
<1>9. ~WriteNothing(w)
  BY ZenonT(60) DEF WriteNothing, Tidy
<1> QED BY ZenonT(60), <1>0, <1>1, <1>2, <1>4, <1>5, <1>6, <1>7, <1>8, <1>9, WorkerMoves

(* Only Done says that the job is done. *)
LEMMA OnlyDone ==
  ASSUME [JobNext]_jobVars, main # "done", main' = "done"
  PROVE  DoneStep
<1>1. ASSUME NEW w \in Workers, FileStep(w) \/ PostStep(w) PROVE main' = main
  BY ZenonT(60), <1>1 DEF FileStep, StartPost, GetInput, NoTempDir, ListFiles, GetFails, GetFile, WriteOut, WriteNothing, ServerLost, PostStep,
     PostStat, PostRemove, PostCreate, CreateFails, PostWrite, PostBroken, vars, coordVars
<1>2. ASSUME NEW w \in Workers, CallStep(w) PROVE main' = main
  BY ZenonT(60), <1>2 DEF CallStep, WorkerStep, GetNReduce, RequestTask, RequestBroken, CompleteTask, DialFails, coordVars
<1>3. ASSUME NEW w \in Workers, DispatchStep(w) \/ CrashStep(w) PROVE main' = main
  BY ZenonT(60), <1>3 DEF DispatchStep, CrashStep, DispatchTask, Crash, coordVars
<1>4. ASSUME NEW t \in Tasks, TimerStep(t) PROVE main' = main
  BY ZenonT(60), <1>4 DEF TimerStep, waitForTask
<1>5. ~ExitStep /\ ~UNCHANGED jobVars
  BY ZenonT(60) DEF ExitStep, Exit, jobVars, vars, coordVars
<1> QED BY ZenonT(60), <1>1, <1>2, <1>3, <1>4, <1>5 DEF JobNext

(* What Done fetches is what the reduces left. *)
LEMMA FetchTidy ==
  ASSUME CInv, Tidy, TidyInv, [JobNext]_jobVars
  PROVE  FetchInv'
<1>0. CloudTypeOK /\ CloudTypeOK' /\ up /\ ReduceInv /\ FetchInv /\ IInv /\ [Next]_vars
  BY ZenonT(60), TypeKept, JobStepIsStep DEF CInv, TidyInv
<1> DEFINE Good(r) == result[r] = File(Sequential)
<1>1. ASSUME NEW t \in ReduceTasks, StatusIs(t, "Completed")' PROVE Right(t.Index)'
  <2>1. CASE StatusIs(t, "Completed")
    <3>1. Right(t.Index)
      BY ZenonT(60), <1>0, <2>1 DEF FetchInv, Completed
    <3> QED BY ZenonT(60), <2>1, <3>1, RightStays
  <2>2. CASE ~StatusIs(t, "Completed")
    <3>1. t \in Tasks
      BY ZenonT(60) DEF Tasks
    <3>2. PICK w \in Workers : pc[w] = "working" /\ working[w] = t /\ stage[w] = "finished"
      BY ZenonT(60), <1>1, <2>2, <3>1, Completes
    <3>3. Right(t.Index)
      BY ZenonT(60), <1>0, <3>2 DEF ReduceInv
    <3> QED BY ZenonT(60), <3>2, <3>3, RightStays
  <2> QED BY ZenonT(60), <2>1, <2>2
<1>2. Completed(Tasks) = Tasks => Completed(Tasks)' = Tasks
  <2>1. ASSUME NEW t \in Tasks, StatusIs(t, "Completed") PROVE StatusIs(t, "Completed")'
    BY ZenonT(60), <1>0, <2>1, CompletedKept DEF StatusIs
  <2> QED BY ZenonT(60), <2>1 DEF Completed
<1>3. ASSUME Completed(Tasks) = Tasks, NEW r \in Parts PROVE store[OutName(r)] = File(Sequential)
  <2>1. PICK t \in ReduceTasks : t.Index = r
    BY ZenonT(60), Index
  <2>2. t \in Completed(ReduceTasks)
    BY ZenonT(60), <1>3 DEF Completed, Tasks
  <2> QED BY ZenonT(60), <1>0, <2>1, <2>2 DEF FetchInv, Right
<1>4. /\ ~fetch'.busy => fetch'.todo = {}
      /\ fetch'.busy => /\ Completed(Tasks)' = Tasks
                        /\ \A r \in Parts \ fetch'.todo : Good(r)'
      /\ (main = "done")' => \A r \in Parts : Good(r)'
  <2>1. CASE UNCHANGED <<fetch, result>> /\ ((main = "done")' => main = "done")
    BY ZenonT(60), <1>0, <1>2, <2>1 DEF FetchInv, Sequential
  <2>2. CASE StartDone
    <3>1. /\ main = "polling" /\ main' = main /\ CountersFull
          /\ fetch' = [busy |-> TRUE, todo |-> {r \in Parts : store[OutName(r)].exists}]
      BY ZenonT(60), <2>2 DEF StartDone, vars, coordVars
    <3>2. Completed(Tasks) = Tasks
      BY ZenonT(60), <1>0, <3>1, CountersTell DEF IInv
    <3>3. {r \in Parts : store[OutName(r)].exists} = Parts
      BY ZenonT(60), <1>3, <3>2, FileFacts
    <3>4. fetch'.busy /\ fetch'.todo = Parts
      BY <3>1, <3>3
    <3>5. (main = "done")' => FALSE
      BY <3>1
    <3> QED BY ZenonT(60), <1>2, <3>2, <3>4, <3>5
  <2>3. CASE Download
    <3>1. main = "polling" /\ main' = main
      BY ZenonT(60), <2>3 DEF Download, vars, coordVars
    <3>2. PICK r \in fetch.todo :
            /\ fetch' = [fetch EXCEPT !.todo = @ \ {r}]
            /\ store[OutName(r)].exists => result' = [result EXCEPT ![r] = store[OutName(r)]]
      BY ZenonT(60), <2>3 DEF Download
    <3>3. fetch.busy
      BY ZenonT(60), <1>0 DEF FetchInv
    <3>4. Completed(Tasks) = Tasks /\ \A s \in Parts \ fetch.todo : Good(s)
      BY ZenonT(60), <1>0, <3>3 DEF FetchInv
    <3>5. r \in Parts /\ fetch'.busy /\ fetch'.todo = fetch.todo \ {r}
      <4>1. fetch \in [busy : BOOLEAN, todo : SUBSET Parts]
        BY ZenonT(60), <1>0 DEF CloudTypeOK
      <4>2. fetch' = [fetch EXCEPT !.todo = @ \ {r}] /\ r \in fetch.todo
        BY ZenonT(60), <3>2
      <4> QED
        BY <3>3, <4>1, <4>2
    <3>6. result' = [result EXCEPT ![r] = File(Sequential)]
      BY ZenonT(60), <1>3, <3>2, <3>4, <3>5, FileFacts
    <3>7. ASSUME NEW s \in Parts \ fetch'.todo PROVE Good(s)'
      <4>1. s = r \/ Good(s)
        BY ZenonT(60), <3>4, <3>5, <3>7
      <4>2. result'[s] = File(Sequential)
        BY ZenonT(60), <1>0, <3>6, <4>1 DEF CloudTypeOK
      <4> QED BY ZenonT(60), <4>2 DEF Sequential
    <3>8. (main = "done")' => FALSE
      BY <3>1
    <3> QED BY ZenonT(60), <1>2, <3>4, <3>5, <3>7, <3>8
  <2>4. CASE FinishDone
    <3>1. fetch.busy /\ fetch.todo = {} /\ fetch' = Idle /\ result' = result
      BY ZenonT(60), <2>4 DEF FinishDone
    <3>2. \A r \in Parts : Good(r)
      BY ZenonT(60), <1>0, <3>1 DEF FetchInv
    <3>3. ~fetch'.busy /\ fetch'.todo = {}
      BY <3>1 DEF Idle
    <3> QED BY ZenonT(60), <3>1, <3>2, <3>3 DEF Sequential
  <2>5. ~DoneFails
    BY ZenonT(60), <1>0 DEF DoneFails
  <2> QED BY ZenonT(60), <2>1, <2>2, <2>3, <2>4, <2>5, FetchMoves, OnlyDone DEF DoneStep
<1> QED BY ZenonT(60), <1>1, <1>4 DEF FetchInv, Completed

LEMMA NextTInv ==
  ASSUME CInv, TInv, [JobNext]_jobVars
  PROVE  TInv'
<1> SUFFICES ASSUME Tidy' PROVE TidyInv'
  BY ZenonT(60) DEF TInv
<1>1. Tidy
  BY ZenonT(60), FetchMoves DEF Tidy, Stocked
<1>2. TidyInv
  BY ZenonT(60), <1>1 DEF TInv
<1>3. OwnerInv'
  BY ZenonT(60), <1>1, <1>2, OwnersKept DEF TidyInv
<1>4. UploadInv'
  BY ZenonT(60), <1>1, <1>2, UploadTidy DEF UploadInv
<1>5. StoreInv'
  BY ZenonT(60), <1>1, <1>2, StoreTidy DEF StoreInv, MapName
<1>6. ReduceInv'
  BY ZenonT(60), <1>1, <1>2, ReduceTidy DEF ReduceInv, Sequential
<1> QED BY ZenonT(60), <1>1, <1>2, <1>3, <1>4, <1>5, <1>6, UpKept, FetchTidy DEF TidyInv

LEMMA InitTInv == JobInit => TInv
<1> SUFFICES ASSUME JobInit, Tidy PROVE TidyInv
  BY ZenonT(60) DEF TInv
<1>1. \A w \in Workers : pc[w] = "start" /\ post[w] = "none"
  BY ZenonT(60) DEF JobInit, Init
<1>2. up /\ OwnerInv /\ UploadInv /\ ReduceInv
  BY <1>1 DEF JobInit, OwnerInv, UploadInv, ReduceInv
<1>3. FetchInv
  <2>1. Completed(ReduceTasks) = {}
    <3>1. PICK file \in [MapTasks -> FileNames] :
            tasks = [t \in Tasks |->
                      [Status |-> "NotStarted", WorkerId |-> NoWorker,
                       File |-> IF t \in MapTasks THEN file[t] ELSE ""]]
      BY ZenonT(60) DEF JobInit, Init
    <3> QED BY ZenonT(60), <3>1 DEF Completed, StatusIs, Tasks
  <2>2. ~fetch.busy /\ fetch.todo = {} /\ main # "done"
    BY ZenonT(60) DEF JobInit, Init, Idle
  <2> QED BY ZenonT(60), <2>1, <2>2 DEF FetchInv
<1>4. ASSUME NEW m \in MapIds \ JobMaps, NEW i \in Parts PROVE ~store[MapName(m, i)].exists
  <2> DEFINE n == MapName(m, i)
  <2>1. PICK k \in Nat : k = trial.oldMaps /\ k <= NMap
    BY TrialAssumption DEF JobInit, Tidy
  <2>2. n \in Names
    BY DEF Names
  <2>3. store[n] = OldFile(n, k)
    BY ZenonT(60), <2>1, <2>2 DEF JobInit
  <2>4. n[1] = "tmp" /\ n[2] = m
    BY ZenonT(60) DEF MapName
  <2>5. m \in Nat
    BY TrialAssumption, SizeAssumption DEF MapIds
  <2>6. ~(m < k)
    BY <2>1, <2>5, SizeAssumption DEF JobMaps
  <2> HIDE DEF n
  <2>7. OldFile(n, k) = Absent
    BY <2>4, <2>6 DEF OldFile
  <2> QED BY ZenonT(60), <2>3, <2>7, FileFacts DEF n
<1> QED BY ZenonT(60), <1>2, <1>3, <1>4 DEF TidyInv, StoreInv

(* In a tidy trial (the directories and the inputs are there, no timer     *)
(* overtakes a live worker and no upload is cut) nobody uploads beside     *)
(* another: the server never ends, and what Done downloads was             *)
(* computed from every map of the job and nothing else, for any number of  *)
(* workers that crash between uploads and of attempts that are repeated.   *)
THEOREM TidyInvariance == JobSpec => [](CInv /\ TInv)
<1>1. JobInit => CInv /\ TInv
  BY InitCInv, InitTInv
<1>2. (CInv /\ TInv) /\ [JobNext]_jobVars => (CInv /\ TInv)'
  BY NextCInv, NextTInv
<1> QED BY <1>1, <1>2, PTL DEF JobSpec

(* The files Done leaves are those of mrsequential.go, in a tidy trial. *)
THEOREM OutputCorrect == JobSpec => []OutputIsSequential
<1>1. CInv /\ TInv => OutputIsSequential
  BY ZenonT(60) DEF TInv, TidyInv, FetchInv, OutputIsSequential
<1> QED BY <1>1, TidyInvariance, PTL

(* In a tidy trial the server outlives the job: no request of a worker or  *)
(* of Done reaches one of its log.Fatal calls.                             *)
THEOREM ServerStaysUp == JobSpec => [](Tidy => up)
<1>1. CInv /\ TInv => (Tidy => up)
  BY ZenonT(60) DEF TInv, TidyInv
<1> QED BY <1>1, TidyInvariance, PTL
=============================================================================
