------------------------------ MODULE LocalJob ------------------------------
(***************************************************************************)
(* A MapReduce job whose workers share a directory (position "local"): the *)
(* steps of MapReduce together with the files they create, rename, list    *)
(* and read (doMap, doReduce in mr/worker.go), and the coordinator         *)
(* cleaning the directory after it has begun to serve (MakeCoordinator).   *)
(*                                                                         *)
(* A file in tmp/ is named by what its name is put together from:          *)
(*   mr-<map>--<part>-<pid>   map output being written                     *)
(*   mr-<map>--<part>         map output                                   *)
(*   mr-out-<reduce>-<pid>    reduce output being written                  *)
(***************************************************************************)
EXTENDS MapReduce, Functions

CONSTANTS
  Readable,   \* the input files os.Open can open
  StaleDir    \* TRUE: an earlier job ran in this directory

ASSUME StaleAssumption == StaleDir \in BOOLEAN

VARIABLES
  boot,       \* how far MakeCoordinator is after c.server()
  tmpDir,     \* the directory tmp exists
  tmp,        \* the files in it: name to data
  out,        \* each mr-out-<reduce>: whether it exists, what it comes from
  stage,      \* how far each worker is with its task
  part,       \* the next file it renames
  files,      \* the names doReduce listed
  input       \* what writeReduceOutput writes

fileVars == <<tmpDir, tmp, out>>
taskVars == <<stage, part, files, input>>
jobVars == <<vars, boot, fileVars, taskVars>>

Parts == 0 .. NReduce - 1
NoPid == -1
MapName(m, i) == [kind |-> "map", task |-> m, part |-> i, pid |-> NoPid]
WrongTempName(m, i, w) == MapName(m, i)
TempName(m, i, w) == [kind |-> "map", task |-> m, part |-> i, pid |-> Pid[w]]
OutName(r, w) == [kind |-> "out", task |-> r, part |-> 0, pid |-> Pid[w]]
File(from) == [exists |-> TRUE, from |-> from]
Absent == [exists |-> FALSE, from |-> {}]

(* The last component of a name, which is all that the pattern             *)
(* tmp/mr-*-<reduce> of doReduce looks at.                                 *)
Suffix(n) == IF n.pid # NoPid THEN n.pid ELSE n.part
WrongGlob(r) == {n \in DOMAIN tmp : n.part = r}
Glob(r) == {n \in DOMAIN tmp : Suffix(n) = r}

(* f with the names N holding data d. *)
Put(f, N, d) == [n \in DOMAIN f \cup N |-> IF n \in N THEN d ELSE f[n]]
Without(f, N) == Restrict(f, DOMAIN f \ N)

JobInit ==
  /\ Init
  /\ boot = "serving"
  /\ tmpDir = StaleDir
  /\ tmp = [n \in IF StaleDir THEN {MapName(t.Index, i) : t \in MapTasks, i \in Parts} ELSE {}
              |-> "old"]
  /\ out = [r \in Parts |-> IF StaleDir THEN File({<<MapName(0, r), "old">>}) ELSE Absent]
  /\ stage = [w \in Workers |-> "begin"]
  /\ part = [w \in Workers |-> 0]
  /\ files = [w \in Workers |-> {}]
  /\ input = [w \in Workers |-> {}]

----------------------------------------------------------------------------
(* MakeCoordinator after c.server(): mr-out* goes, tmp goes, tmp is made.  *)

RemoveOut ==
  /\ boot = "serving"
  /\ boot' = "removing"
  /\ out' = [r \in Parts |-> Absent]
  /\ UNCHANGED <<vars, tmpDir, tmp, taskVars>>

RemoveTemp ==
  /\ boot = "removing"
  /\ boot' = "making"
  /\ tmpDir' = FALSE
  /\ tmp' = Without(tmp, DOMAIN tmp)
  /\ UNCHANGED <<vars, out, taskVars>>

MakeTemp ==
  /\ boot = "making"
  /\ boot' = "ready"
  /\ tmpDir' = TRUE
  /\ UNCHANGED <<vars, tmp, out, taskVars>>

----------------------------------------------------------------------------
(* doMap and writeMapOutput *)

At(w, S, s) == pc[w] = "working" /\ working[w] \in S /\ stage[w] = s
SetStage(w, s) == stage' = [stage EXCEPT ![w] = s]
Temps(w) == {TempName(working[w].Index, i, w) : i \in Parts}

(* os.Create for every part, and as much of the output as the writers'     *)
(* buffers let through.  Without the directory os.Create gives nil files,  *)
(* and the first file.Name() panics.                                       *)
CreateTemps(w) ==
  /\ At(w, MapTasks, "begin")
  /\ IF tmpDir
     THEN /\ tmp' = Put(tmp, Temps(w), "cut")
          /\ SetStage(w, "created")
          /\ UNCHANGED pc
     ELSE /\ MoveTo(w, "crashed")
          /\ UNCHANGED <<tmp, stage>>
  /\ UNCHANGED <<coordVars, working, boot, tmpDir, out, part, files, input>>

(* An input file that cannot be opened only prints: mapf gets no content,  *)
(* and what it makes of that is "blank".                                   *)
MapOutput(t) == IF tasks[t].File \in Readable THEN "whole" ELSE "blank"

(* Flush: through the open file, so a name that is gone stays gone. *)
Flush(w) ==
  /\ At(w, MapTasks, "created")
  /\ tmp' = Put(tmp, Temps(w) \cap DOMAIN tmp, MapOutput(working[w]))
  /\ SetStage(w, "renaming")
  /\ UNCHANGED <<vars, boot, tmpDir, out, part, files, input>>

(* One turn of the rename loop; a failed rename only prints. *)
RenameTemp(w) ==
  /\ At(w, MapTasks, "renaming")
  /\ LET temp == TempName(working[w].Index, part[w], w)
         name == MapName(working[w].Index, part[w])
     IN  tmp' = IF temp \in DOMAIN tmp
                THEN Put(Without(tmp, {temp}), {name}, tmp[temp])
                ELSE tmp
  /\ part' = [part EXCEPT ![w] = (@ + 1) % NReduce]
  /\ SetStage(w, IF part'[w] = 0 THEN "finished" ELSE "renaming")
  /\ UNCHANGED <<vars, boot, tmpDir, out, files, input>>

----------------------------------------------------------------------------
(* doReduce and writeReduceOutput *)

ListFiles(w) ==
  /\ At(w, ReduceTasks, "begin")
  /\ files' = [files EXCEPT ![w] = Glob(working[w].Index)]
  /\ SetStage(w, "listed")
  /\ UNCHANGED <<vars, boot, fileVars, part, input>>

(* A name that is gone by now is skipped.  The loop over decoder.More()    *)
(* does not end on text that is not JSON: the output of a reduce task, or  *)
(* a record that was cut short; a file cut between two records is read.    *)
ReadFiles(w) ==
  /\ At(w, ReduceTasks, "listed")
  /\ LET found == files[w] \cap DOMAIN tmp
         text == {n \in found : n.kind = "out"}
         cut == {n \in found : tmp[n] = "cut"}
     IN  \/ /\ text = {}
            /\ input' = [input EXCEPT ![w] = {<<n, tmp[n]>> : n \in found}]
            /\ SetStage(w, "read")
         \/ /\ text \cup cut # {}
            /\ SetStage(w, "hung")
            /\ UNCHANGED input
  /\ files' = [files EXCEPT ![w] = {}]
  /\ UNCHANGED <<vars, boot, fileVars, part>>

CreateOut(w) ==
  /\ At(w, ReduceTasks, "read")
  /\ tmp' = IF tmpDir THEN Put(tmp, {OutName(working[w].Index, w)}, "whole") ELSE tmp
  /\ SetStage(w, "created")
  /\ UNCHANGED <<vars, boot, tmpDir, out, part, files, input>>

RenameOut(w) ==
  /\ At(w, ReduceTasks, "created")
  /\ LET r == working[w].Index
         temp == OutName(r, w)
     IN  IF temp \in DOMAIN tmp
         THEN /\ tmp' = Without(tmp, {temp})
              /\ out' = [out EXCEPT ![r] = File(input[w])]
         ELSE UNCHANGED <<tmp, out>>
  /\ input' = [input EXCEPT ![w] = {}]
  /\ SetStage(w, "finished")
  /\ UNCHANGED <<vars, boot, tmpDir, part, files>>

----------------------------------------------------------------------------
FileStep(w) ==
  \/ CreateTemps(w)
  \/ Flush(w)
  \/ RenameTemp(w)
  \/ ListFiles(w)
  \/ ReadFiles(w)
  \/ CreateOut(w)
  \/ RenameOut(w)

(* The worker's own steps of MapReduce: it calls CompleteTask when doMap   *)
(* or doReduce has returned.                                               *)
CallStep(w) ==
  /\ WorkerStep(w)
  /\ pc[w] = "working" => stage[w] = "finished"
  /\ SetStage(w, "begin")
  /\ UNCHANGED <<boot, fileVars, part, files, input>>

Boot == RemoveOut \/ RemoveTemp \/ MakeTemp

CoordinatorStep ==
  /\ \/ \E w \in Workers : DispatchTask(w)
     \/ \E t \in Tasks : waitForTask(t)
     \/ boot = "ready" /\ Done
     \/ Exit
  /\ UNCHANGED <<boot, fileVars, taskVars>>

CrashStep(w) ==
  /\ Crash(w)
  /\ UNCHANGED <<boot, fileVars, taskVars>>

JobNext ==
  \/ Boot
  \/ CoordinatorStep
  \/ \E w \in Workers : FileStep(w) \/ CallStep(w) \/ CrashStep(w)

JobSpec == JobInit /\ [][JobNext]_jobVars

----------------------------------------------------------------------------
(* Properties *)

(* What mrsequential.go reduces, part by part.  It stops at a file it      *)
(* cannot open, where the workers go on with no content.                   *)
Sequential(r) == {<<MapName(t.Index, r), MapOutput(t)>> : t \in MapTasks}

(* test-mr.sh compares mr-out-* with the output of mrsequential.go: once   *)
(* the coordinator says Done, each mr-out-<r> exists and was computed from *)
(* every record of part r, each one once, although workers crashed, were   *)
(* given up and went on writing, and ran the same task twice.              *)
OutputIsSequential ==
  main # "polling" =>
    \A r \in Parts : out[r] = File(Sequential(r))

(* The reduce phase lists the directory without knowing which files there  *)
(* should be.  A map task counts as Completed only when all its parts are  *)
(* in place, and no later attempt at it, cut short anywhere, spoils them.  *)
CompletedMapsAreWhole ==
  \A t \in Completed(MapTasks) : \A i \in Parts :
    /\ MapName(t.Index, i) \in DOMAIN tmp
    /\ tmp[MapName(t.Index, i)] = MapOutput(t)

(* test-mr.sh: the output does not change after the first worker exits;    *)
(* workers that were given up still rename their results into place.       *)
OutputFrozen ==
  [][(\E w \in Workers : pc[w] = "exited") => out' = out]_jobVars
=============================================================================
