------------------------------ MODULE CloudJob ------------------------------
(***************************************************************************)
(* A MapReduce job whose workers are on different machines (position       *)
(* "cloud") and exchange files through the server of                       *)
(* FileServer/SimpleServer.go: the steps of MapReduce together with the    *)
(* requests of doMap and doReduce (mr/worker.go) and of Done               *)
(* (mr/coordinator.go), and the server's handlers step by step.            *)
(*                                                                         *)
(* A worker's own files are on its own machine, where no one else sees     *)
(* them.  Every log.Fatal of the server ends it, and is final.             *)
(***************************************************************************)
EXTENDS MapReduce

CONSTANT
  Trials     \* the circumstances to look at, records of:
             \*   oldMaps: maps of an earlier job whose files are on the server
             \*   faults: "late", a timer may overtake a live worker;
             \*           "cut", a worker may die in the middle of an upload
             \*   rootTmp: somebody has made root/tmp on the server
             \*   missing: inputs nobody has put on the server
             \*   bare: workers on whose machine nobody has made tmp

ASSUME TrialAssumption ==
  \A t \in Trials : /\ t.oldMaps \in Nat /\ t.faults \subseteq {"late", "cut"}
                    /\ t.rootTmp \in BOOLEAN /\ (t.oldMaps > 0 => t.rootTmp)
                    /\ t.missing \subseteq FileNames /\ t.bare \subseteq Workers

VARIABLES
  up,        \* the file server runs
  store,     \* its files
  post,      \* how far the POST handler of each worker's upload is
  linked,    \* the file it created is still the one of that name
  stage,     \* how far each worker is with its task
  part,      \* the map output it uploads next
  files,     \* the maps whose output doReduce has yet to get
  input,     \* what it got
  fetch,     \* what Done has yet to download; Idle outside it
  result,    \* the coordinator's copies of mr-out-<reduce>
  trial      \* chosen at the start

serverVars == <<up, store, post, linked>>
taskVars == <<stage, part, files, input>>
doneVars == <<fetch, result, trial>>
jobVars == <<vars, serverVars, taskVars, doneVars>>

Parts == 0 .. NReduce - 1
MapIds == (0 .. NMap - 1) \cup UNION {0 .. t.oldMaps - 1 : t \in Trials}
MapName(m, i) == <<"tmp", m, i>>
OutName(r) == <<"out", r, 0>>
Names == {MapName(m, i) : m \in MapIds, i \in Parts} \cup {OutName(r) : r \in Parts}

(* A file is the records it holds: whose maps, and of which job. *)
Absent == [exists |-> FALSE, whole |-> FALSE, from |-> {}]
Cut == [exists |-> TRUE, whole |-> FALSE, from |-> {}]
File(from) == [exists |-> TRUE, whole |-> TRUE, from |-> from]
Idle == [busy |-> FALSE, todo |-> {}]

OldFile(n, oldMaps) ==
  CASE n[1] = "tmp" /\ n[2] < oldMaps -> File({<<n[2], "old">>})
    [] n[1] = "out" /\ oldMaps > 0 -> File({<<m, "old">> : m \in 0 .. oldMaps - 1})
    [] OTHER -> Absent

JobInit ==
  /\ Init
  /\ trial \in Trials
  /\ up = TRUE
  /\ store = [n \in Names |-> OldFile(n, trial.oldMaps)]
  /\ post = [w \in Workers |-> "none"]
  /\ linked = [w \in Workers |-> FALSE]
  /\ stage = [w \in Workers |-> "begin"]
  /\ part = [w \in Workers |-> 0]
  /\ files = [w \in Workers |-> {}]
  /\ input = [w \in Workers |-> {}]
  /\ fetch = Idle
  /\ result = [r \in Parts |-> Absent]

At(w, S, s) == pc[w] = "working" /\ working[w] \in S /\ stage[w] = s
SetStage(w, s) == stage' = [stage EXCEPT ![w] = s]
SetPost(w, s) == post' = [post EXCEPT ![w] = s]

(* What w uploads, and under which name. *)
Target(w) == IF working[w] \in MapTasks
             THEN MapName(working[w].Index, part[w])
             ELSE OutName(working[w].Index)
Content(w) == IF working[w] \in MapTasks
              THEN File({<<working[w].Index, "new">>})
              ELSE File(input[w])

(* log.Fatal in a handler: the other handlers end with the server. *)
ServerEnds ==
  /\ up' = FALSE
  /\ post' = [w \in Workers |-> "none"]
  /\ linked' = [w \in Workers |-> FALSE]
  /\ UNCHANGED store

----------------------------------------------------------------------------
(* getFile, method POST *)

Uploading(w) == up /\ pc[w] = "working" /\ stage[w] = "uploading" /\ post[w] = "none"

StartPost(w) ==
  /\ Uploading(w)
  /\ SetPost(w, "stat")
  /\ UNCHANGED <<vars, up, store, linked, taskVars, doneVars>>

WrongPostStat(w) ==
  /\ post[w] = "stat"
  /\ SetPost(w, "remove")
  /\ UNCHANGED <<vars, up, store, linked, taskVars, doneVars>>
PostStat(w) ==
  /\ post[w] = "stat"
  /\ SetPost(w, IF store[Target(w)].exists THEN "remove" ELSE "create")
  /\ UNCHANGED <<vars, up, store, linked, taskVars, doneVars>>

(* os.Remove fails when another upload removed the file after os.Stat.     *)
(* A handler that still writes to the removed file writes to no name.      *)
PostRemove(w) ==
  /\ post[w] = "remove"
  /\ IF store[Target(w)].exists
     THEN /\ store' = [store EXCEPT ![Target(w)] = Absent]
          /\ linked' = [v \in Workers |-> linked[v] /\ Target(v) # Target(w)]
          /\ SetPost(w, "create")
          /\ UNCHANGED up
     ELSE ServerEnds
  /\ UNCHANGED <<vars, taskVars, doneVars>>

(* os.Create truncates a file that is there again, and makes no directory. *)
DirectoryMissing(w) == working[w] \in MapTasks /\ ~trial.rootTmp

PostCreate(w) ==
  /\ post[w] = "create"
  /\ ~DirectoryMissing(w)
  /\ store' = [store EXCEPT ![Target(w)] = Cut]
  /\ linked' = [linked EXCEPT ![w] = TRUE]
  /\ SetPost(w, "write")
  /\ UNCHANGED <<vars, up, taskVars, doneVars>>

CreateFails(w) ==
  /\ post[w] = "create"
  /\ DirectoryMissing(w)
  /\ ServerEnds
  /\ UNCHANGED <<vars, taskVars, doneVars>>

Written(w) == IF linked[w] THEN [store EXCEPT ![Target(w)] = Content(w)] ELSE store

(* The body is read, the file written, the answer sent.  A live client     *)
(* goes on with its next part; one that died may have sent its whole body. *)
PostWrite(w) ==
  /\ post[w] = "write"
  /\ store' = Written(w)
  /\ linked' = [linked EXCEPT ![w] = FALSE]
  /\ SetPost(w, "none")
  /\ IF pc[w] # "working"
     THEN UNCHANGED <<part, stage>>
     ELSE LET last == working[w] \in ReduceTasks \/ part[w] = NReduce - 1
          IN  /\ part' = [part EXCEPT ![w] = IF last THEN 0 ELSE @ + 1]
              /\ SetStage(w, IF last THEN "finished" ELSE "uploading")
  /\ UNCHANGED <<vars, up, files, input, doneVars>>

(* ioutil.ReadAll fails on the body of a client that died before its end.  *)
PostBroken(w) ==
  /\ post[w] = "write"
  /\ pc[w] = "crashed"
  /\ ServerEnds
  /\ UNCHANGED <<vars, taskVars, doneVars>>

----------------------------------------------------------------------------
(* doMap gets its input, which nobody writes; doReduce lists root/tmp and  *)
(* gets every file of its part.                                            *)

InputMissing(w) == tasks[working[w]].File \in trial.missing

GetInput(w) ==
  /\ At(w, MapTasks, "begin")
  /\ up
  /\ ~InputMissing(w)
  /\ w \notin trial.bare
  /\ SetStage(w, "uploading")
  /\ UNCHANGED <<vars, serverVars, part, files, input, doneVars>>

(* Without tmp os.Create gives no file, and its Name() panics. *)
NoTempDir(w) ==
  /\ At(w, MapTasks, "begin")
  /\ up
  /\ ~InputMissing(w)
  /\ w \in trial.bare
  /\ MoveTo(w, "crashed")
  /\ UNCHANGED <<coordVars, working, serverVars, taskVars, doneVars>>

WrongListed(r) == {m \in MapIds : store[MapName(m, r)].exists /\ m > 0}
Listed(r) == {m \in MapIds : store[MapName(m, r)].exists}

ListFiles(w) ==
  /\ At(w, ReduceTasks, "begin")
  /\ up
  /\ trial.rootTmp
  /\ files' = [files EXCEPT ![w] = Listed(working[w].Index)]
  /\ input' = [input EXCEPT ![w] = {}]
  /\ SetStage(w, "listed")
  /\ UNCHANGED <<vars, serverVars, part, doneVars>>

(* GET of an input or a directory that is not there ends the server. *)
GetFails(w) ==
  /\ \/ At(w, MapTasks, "begin") /\ InputMissing(w)
     \/ At(w, ReduceTasks, "begin") /\ ~trial.rootTmp
  /\ up
  /\ ServerEnds
  /\ UNCHANGED <<vars, taskVars, doneVars>>

(* GET of a file that is gone ends the server.  A file that is being       *)
(* written gives some of its records; cut within a record, it keeps the    *)
(* loop over decoder.More() going for ever.                                *)
GetFile(w) ==
  /\ At(w, ReduceTasks, "listed")
  /\ up
  /\ \E m \in files[w] :
       /\ \A n \in files[w] : m <= n
       /\ LET f == store[MapName(m, working[w].Index)] IN
            IF f.exists
            THEN /\ \/ /\ input' = [input EXCEPT ![w] = @ \cup f.from]
                       /\ files' = [files EXCEPT ![w] = @ \ {m}]
                       /\ UNCHANGED stage
                    \/ /\ ~f.whole
                       /\ SetStage(w, "hung")
                       /\ UNCHANGED <<input, files>>
                 /\ UNCHANGED serverVars
            ELSE ServerEnds /\ UNCHANGED <<input, files, stage>>
  /\ UNCHANGED <<vars, part, doneVars>>

WriteOut(w) ==
  /\ At(w, ReduceTasks, "listed")
  /\ files[w] = {}
  /\ w \notin trial.bare
  /\ SetStage(w, "uploading")
  /\ UNCHANGED <<vars, serverVars, part, files, input, doneVars>>

(* Without tmp nothing is written or renamed, and what is uploaded is an   *)
(* mr-out-<reduce> that an earlier job left in the directory, or nothing.  *)
OldOutput == {<<m, "old">> : m \in 0 .. trial.oldMaps - 1}

WriteNothing(w) ==
  /\ At(w, ReduceTasks, "listed")
  /\ files[w] = {}
  /\ w \in trial.bare
  /\ \E left \in {{}, OldOutput} : input' = [input EXCEPT ![w] = left]
  /\ SetStage(w, "uploading")
  /\ UNCHANGED <<vars, serverVars, part, files, doneVars>>

(* log.Fatal in the worker when the server does not answer. *)
ServerLost(w) ==
  /\ ~up
  /\ pc[w] = "working"
  /\ stage[w] \in {"begin", "listed", "uploading"}
  /\ MoveTo(w, "crashed")
  /\ UNCHANGED <<coordVars, working, serverVars, taskVars, doneVars>>

----------------------------------------------------------------------------
(* Done, which keeps the mutex while it downloads the output. *)

StartDone ==
  /\ main = "polling"
  /\ CountersFull
  /\ ~fetch.busy
  /\ up
  /\ fetch' = [busy |-> TRUE, todo |-> {r \in Parts : store[OutName(r)].exists}]
  /\ UNCHANGED <<vars, serverVars, taskVars, result, trial>>

Download ==
  /\ up
  /\ main = "polling"
  /\ \E r \in fetch.todo :
       /\ \A s \in fetch.todo : r <= s
       /\ fetch' = [fetch EXCEPT !.todo = @ \ {r}]
       /\ IF store[OutName(r)].exists
          THEN /\ result' = [result EXCEPT ![r] = store[OutName(r)]]
               /\ UNCHANGED serverVars
          ELSE ServerEnds /\ UNCHANGED result
  /\ UNCHANGED <<vars, taskVars, trial>>

FinishDone ==
  /\ fetch.busy
  /\ fetch.todo = {}
  /\ up
  /\ Done
  /\ main' = "done"
  /\ fetch' = Idle
  /\ UNCHANGED <<serverVars, taskVars, result, trial>>

DoneFails ==
  /\ ~up
  /\ Done
  /\ main' = "exited"
  /\ fetch' = Idle
  /\ UNCHANGED <<serverVars, taskVars, result, trial>>

----------------------------------------------------------------------------
FileStep(w) ==
  \/ StartPost(w)
  \/ GetInput(w)
  \/ NoTempDir(w)
  \/ ListFiles(w)
  \/ GetFails(w)
  \/ GetFile(w)
  \/ WriteOut(w)
  \/ WriteNothing(w)
  \/ ServerLost(w)

PostStep(w) ==
  \/ PostStat(w)
  \/ PostRemove(w)
  \/ PostCreate(w)
  \/ CreateFails(w)
  \/ PostWrite(w)
  \/ PostBroken(w)

(* The worker's calls to the coordinator; every handler needs the mutex. *)
WrongReports(w) == stage[w] \in {"finished", "uploading"}
Reports(w) == stage[w] = "finished"

CallStep(w) ==
  /\ WorkerStep(w)
  /\ fetch.busy => pc[w] = "requesting"
  /\ pc[w] = "working" => Reports(w)
  /\ SetStage(w, "begin")
  /\ input' = [input EXCEPT ![w] = {}]
  /\ UNCHANGED <<serverVars, part, files, doneVars>>

DispatchStep(w) ==
  /\ ~fetch.busy
  /\ DispatchTask(w)
  /\ UNCHANGED <<serverVars, taskVars, doneVars>>

Overtakes(t) == \E w \in Workers : pc[w] = "working" /\ working[w] = t /\ Accepts(w, t)
TimerStep(t) ==
  /\ ~fetch.busy
  /\ Overtakes(t) => "late" \in trial.faults
  /\ waitForTask(t)
  /\ UNCHANGED <<serverVars, taskVars, doneVars>>

DoneStep == StartDone \/ Download \/ FinishDone \/ DoneFails

ExitStep ==
  /\ Exit
  /\ UNCHANGED <<serverVars, taskVars, doneVars>>

CrashStep(w) ==
  /\ Crash(w)
  /\ post[w] # "none" => "cut" \in trial.faults
  /\ UNCHANGED <<serverVars, taskVars, doneVars>>

JobNext ==
  \/ \E w \in Workers : \/ FileStep(w)
                        \/ PostStep(w)
                        \/ CallStep(w)
                        \/ DispatchStep(w)
                        \/ CrashStep(w)
  \/ \E t \in Tasks : TimerStep(t)
  \/ DoneStep
  \/ ExitStep

JobSpec == JobInit /\ [][JobNext]_jobVars

JobFairness ==
  /\ \A w \in Workers : /\ WF_jobVars(FileStep(w))
                        /\ WF_jobVars(PostStep(w))
                        /\ WF_jobVars(CallStep(w))
                        /\ WF_jobVars(DispatchStep(w))
  /\ \A t \in Tasks : WF_jobVars(TimerStep(t))
  /\ WF_jobVars(DoneStep)
  /\ WF_jobVars(ExitStep)

FairJobSpec == JobSpec /\ JobFairness

----------------------------------------------------------------------------
(* Properties *)

(* What mrsequential.go reduces, part by part. *)
Sequential == {<<t.Index, "new">> : t \in MapTasks}

(* The files Done leaves on the coordinator's machine are those of         *)
(* mrsequential.go: each one is there, computed from every map of this job *)
(* and nothing else, although workers died and their tasks were repeated,  *)
(* if none died in the middle of an upload or was given up while it lived, *)
(* and if somebody made the directories and put the inputs on the server:  *)
(* a worker without tmp reports a reduce task it wrote nothing for.  The   *)
(* files of an earlier job with more maps are left out: nothing removes    *)
(* them, and doReduce reads those its own maps do not replace.             *)
Stocked == trial.rootTmp /\ trial.missing = {}
Tidy == Stocked /\ trial.bare = {} /\ trial.faults = {} /\ trial.oldMaps <= NMap
OutputIsSequential ==
  Tidy /\ main = "done" => \A r \in Parts : result[r] = File(Sequential)

(* POST takes a file away before it writes it anew.  Whatever attempts     *)
(* were given up and upload late, a map task that is Completed has all its *)
(* parts whole on the server, or an upload of the missing part is on its   *)
(* way, for as long as the server runs.                                    *)
CompletedMapsReturn ==
  up => \A t \in Completed(MapTasks) : \A i \in Parts :
          \/ store[MapName(t.Index, i)] = File({<<t.Index, "new">>})
          \/ \E w \in Workers : /\ post[w] \in {"create", "write"}
                                /\ Target(w) = MapName(t.Index, i)

(* The log.Fatal calls of the server: it ends for want of root/tmp or of   *)
(* an input, which nothing in the program puts there, and otherwise only   *)
(* while an upload is under way whose client died, or whose file another   *)
(* request is about to remove or to read.                                  *)
Shared(w) ==
  \/ \E v \in Workers \ {w} : post[v] # "none" /\ Target(v) = Target(w)
  \/ \E v \in Workers : \E m \in files[v] :
       stage[v] = "listed" /\ Target(w) = MapName(m, working[v].Index)
  \/ \E r \in fetch.todo : Target(w) = OutName(r)
ServerEndsOnOverlap ==
  [][Stocked /\ up /\ ~up' => \E w \in Workers : post[w] # "none" /\ (pc[w] = "crashed" \/ Shared(w))]_jobVars

(* Without late timers and cut uploads the job ends: the coordinator has   *)
(* the output and exits, unless all workers crash (as they do when the     *)
(* server is gone).                                                        *)
JobIsFetched ==
  \/ trial.faults # {}
  \/ <>(main = "exited" /\ \A r \in Parts : result[r].whole)
  \/ <>[](\A w \in Workers : pc[w] = "crashed")
=============================================================================
