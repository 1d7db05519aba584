------------------------------- MODULE Chord -------------------------------
(***************************************************************************)
(* Ring maintenance and file storage of the Chord nodes (Lab2/Node:        *)
(* stabilizing.go, node.go, the client commands of tools.go and main.go).  *)
(*                                                                         *)
(* A thread is a goroutine: a run of stablize, checkPredecessor, joinChord *)
(* or of a client command at its node, or NotifyRPC at its host, which the *)
(* first and the third wait for.  The tickers of main.go start stablize    *)
(* and checkPredecessor whether or not the last run is over, so two        *)
(* threads may be at the same node.  One step is one RPC with what the     *)
(* code does until the next: pointers are read again after every RPC, as   *)
(* the code reads them.                                                    *)
(*                                                                         *)
(* Bucket and Backup are maps whose keys are pointers to identifiers: one  *)
(* name may be in a map twice.  An entry is a name and a label, which      *)
(* stands for the pointer.                                                 *)
(***************************************************************************)
EXTENDS Integers, Sequences, FiniteSets, TLC

CONSTANTS
  Nodes,
  HashMod,      \* 2^m
  Id,           \* Identifier of each node
  R,            \* length of Successors
  Threads,      \* bound: goroutines that run at a time, numbers
  Files,        \* names of files
  FileId,       \* hash of each name
  Uploader,     \* the node that uploads each file
  Long,         \* files longer than RSA can encrypt
  Worlds        \* the circumstances to look at, records of:
                \*   ring: nodes on an ideal ring at the start; {n}: n has just created it
                \*   stored: files that are stored, with a backup, at the start
                \*   upload, download: files that may be uploaded, and asked for until got
                \*   overlaps: stablize may take longer than the ticker's interval
                \*   threads: bound, how many goroutines run at a time
                \*   crashes: bound, how many nodes crash
                \*   joins, joiners: bound, how many times a node starts and joins, and which

NoAddr == "no address"      \* "", or an error text in place of an address
Nobody == "nobody"          \* content that no node's key decrypts: nil
Missing == "missing"        \* no such file on the disk
Cut == "cut"                \* nothing or a part of a file: it was read before it was written
Labels == 1 .. 2 * Cardinality(Threads)    \* more pointers to one name do not occur

ASSUME NodeAssumption == Nodes \cap {NoAddr, Nobody, Missing, Cut} = {}
ASSUME IdAssumption ==
  /\ HashMod \in Nat \ {0}
  /\ Id \in [Nodes -> 0 .. HashMod - 1]
  /\ FileId \in [Files -> 0 .. HashMod - 1]
ASSUME RingAssumption == R \in Nat \ {0} /\ \A w \in Worlds : w.ring \in SUBSET Nodes \ {{}}

VARIABLES
  state,        \* down, joining, or up: periodic tasks and commands run
  pred,         \* Predecessor
  succ,         \* Successors
  Bucket,
  Backup,
  disk,         \* chord_storage: name to whose key its content is encrypted with
  thread,
  acked,        \* files for which "Store file success" was printed
  got,          \* what Get wrote: who asked, for what, which file, whose content
  crashes,
  joins,
  world         \* chosen at the start

files == <<Bucket, Backup, disk>>
client == <<acked, got>>
bounds == <<crashes, joins, world>>
vars == <<state, pred, succ, files, thread, client, bounds>>

Alive == {n \in Nodes : state[n] # "down"}
Up(a) == a \in Alive              \* ChordCall gets through
First(n) == succ[n][1]            \* Successors[0]

between(start, elt, end, inclusive) ==
  IF end > start
  THEN (start < elt /\ elt < end) \/ (inclusive /\ elt = end)
  ELSE start < elt \/ elt < end \/ (inclusive /\ elt = end)

(* A call that stores a file: where, what, and how the caller goes on. *)
NoCall == [at |-> NoAddr, name |-> Missing, content |-> Missing, next |-> "idle"]
Idle == [kind |-> "none", pc |-> "idle", node |-> NoAddr, host |-> NoAddr,
         addr |-> NoAddr, name |-> NoAddr, todo |-> {}, file |-> Missing, call |-> NoCall]

(* Clockwise distance, a full turn from an identifier to itself. *)
Dist(a, b) == IF b > a THEN b - a ELSE b - a + HashMod
Nth(S, n, i) ==
  CHOOSE m \in S : Cardinality({k \in S : Dist(Id[n], Id[k]) <= Dist(Id[n], Id[m])})
                     = 1 + ((i - 1) % Cardinality(S))
Owner(S, f) ==
  CHOOSE m \in S : \A k \in S : (Id[m] - FileId[f]) % HashMod <= (Id[k] - FileId[f]) % HashMod

(* createChord at a single node; else the ring that stablize arrives at. *)
InitIn(Ring, Stored) ==
  /\ state = [n \in Nodes |-> IF n \in Ring THEN "up" ELSE "down"]
  /\ pred = [n \in Nodes |-> IF n \in Ring /\ Cardinality(Ring) > 1
                             THEN CHOOSE p \in Ring : Nth(Ring, p, 1) = n ELSE NoAddr]
  /\ succ = [n \in Nodes |-> [i \in 1 .. R |-> IF n \in Ring THEN Nth(Ring, n, i) ELSE NoAddr]]
  /\ Bucket = [n \in Nodes |-> {<<f, 1>> : f \in {g \in Stored : n = Owner(Ring, g)}}]
  /\ Backup = [n \in Nodes |->
                {<<f, 1>> : f \in {g \in Stored : /\ n # Owner(Ring, g)
                                                  /\ n = Nth(Ring, Owner(Ring, g), 1)}}]
  /\ disk = [n \in Nodes |-> [f \in Files |->
               IF <<f, 1>> \in Bucket[n] \cup Backup[n] THEN Uploader[f] ELSE Missing]]
  /\ thread = [t \in Threads |-> Idle]
  /\ acked = Stored
  /\ got = {}
  /\ crashes = 0
  /\ joins = 0

Init == \E w \in Worlds : world = w /\ InitIn(w.ring, w.stored)

----------------------------------------------------------------------------
(* Definitions marked Wrong are faulty variants of the definition that     *)
(* follows them.                                                           *)

At(t, pc) == thread[t].pc = pc
Goto(t, pc) == thread' = [thread EXCEPT ![t].pc = pc]
End(t) == thread' = [thread EXCEPT ![t] = Idle]
Begin(t, n, kind, pc, addr, file) ==
  /\ thread[t] = Idle
  /\ \A u \in Threads : u < t => thread[u] # Idle
  /\ t <= world.threads
  /\ thread' = [thread EXCEPT ![t] = [Idle EXCEPT !.kind = kind, !.pc = pc, !.node = n,
                                                  !.addr = addr, !.file = file]]

(* FindSuccessorRPC, whichever way the fingers lead it, comes to a node    *)
(* that has the key before the successor whose name it asked for.  With a  *)
(* dead successor on the way the answer may be an error text.              *)
Routed == {n \in Alive : state[n] = "up" \/ \E m \in Alive : First(m) = n}
Holders(k) == {m \in Routed : Up(First(m)) /\ between(Id[m], k, Id[First(m)], TRUE)}
LookupFails == \E n \in Routed : ~Up(First(n))

(* That node reads Successors[0] again for its answer. *)
FindSuccessor(t) ==
  LET th == thread[t]
      s == IF th.addr = NoAddr THEN NoAddr ELSE First(th.addr)
  IN
  /\ At(t, "answer")
  /\ IF th.kind = "join"
     THEN /\ succ' = [succ EXCEPT ![th.node][1] = s]
          /\ thread' = [thread EXCEPT ![t].pc = "notify", ![t].addr = NoAddr]
     ELSE /\ thread' = [thread EXCEPT ![t].pc = th.kind, ![t].addr = s]
          /\ UNCHANGED succ
  /\ UNCHANGED <<state, pred, files, client, bounds>>

----------------------------------------------------------------------------
(* stablize, until it has notified its successor *)

StartStablize(t, n) ==
  /\ state[n] = "up"
  /\ world.overlaps \/ \A u \in Threads : thread[u].kind = "stablize" => thread[u].node # n
  /\ Begin(t, n, "stablize", "list", NoAddr, Missing)
  /\ UNCHANGED <<state, pred, succ, files, client, bounds>>

SuccessorsAfter(n, s) ==
  IF Up(s) THEN <<s>> \o SubSeq(succ[s], 1, R - 1)
  ELSE IF s = NoAddr THEN [succ[n] EXCEPT ![1] = n]
  ELSE Tail(succ[n]) \o <<NoAddr>>

GetSuccessorList(t) ==
  LET n == thread[t].node IN
  /\ At(t, "list")
  /\ succ' = [succ EXCEPT ![n] = SuccessorsAfter(n, First(n))]
  /\ Goto(t, "pred")
  /\ UNCHANGED <<state, pred, files, client, bounds>>

(* GetPredecessorRPC is an error when there is none; then straight on to   *)
(* the notification.                                                       *)
GetPredecessor(t) ==
  LET s == First(thread[t].node) IN
  /\ At(t, "pred")
  /\ IF Up(s) /\ pred[s] # NoAddr
     THEN thread' = [thread EXCEPT ![t].pc = "names", ![t].addr = pred[s]]
     ELSE Goto(t, "notify")
  /\ UNCHANGED <<state, pred, succ, files, client, bounds>>

GetSuccessorName(t) ==
  LET s == First(thread[t].node) IN
  /\ At(t, "names")
  /\ IF Up(s)
     THEN thread' = [thread EXCEPT ![t].pc = "name", ![t].name = s]
     ELSE End(t)
  /\ UNCHANGED <<state, pred, succ, files, client, bounds>>

WrongCloser(n, a, s) == between(Id[n], Id[a], Id[s], TRUE)
WrongCloserTurned(n, a, s) == between(Id[s], Id[a], Id[n], FALSE)
Closer(n, a, s) == between(Id[n], Id[a], Id[s], FALSE)

(* The predecessor of the successor may be down: then stablize ends, and   *)
(* its successor is not notified.                                          *)
GetPredecessorName(t) ==
  LET n == thread[t].node
      a == thread[t].addr
  IN
  /\ At(t, "name")
  /\ IF Up(a)
     THEN /\ succ' = IF Closer(n, a, thread[t].name) THEN [succ EXCEPT ![n][1] = a] ELSE succ
          /\ thread' = [thread EXCEPT ![t].pc = "notify", ![t].addr = NoAddr, ![t].name = NoAddr]
     ELSE End(t) /\ UNCHANGED succ
  /\ UNCHANGED <<state, pred, files, client, bounds>>

(* A failed call of NotifyRPC does not stop stablize, but joinChord: the   *)
(* process exits.                                                          *)
NotifyFailed(t) ==
  IF thread[t].kind = "stablize"
  THEN /\ thread' = [thread EXCEPT ![t].pc = "empty", ![t].host = NoAddr]
       /\ UNCHANGED state
  ELSE /\ End(t)
       /\ state' = IF thread[t].kind = "join"
                   THEN [state EXCEPT ![thread[t].node] = "down"] ELSE state

CallNotify(t) ==
  LET s == First(thread[t].node) IN
  /\ At(t, "notify")
  /\ IF Up(s)
     THEN thread' = [thread EXCEPT ![t].pc = "h_begin", ![t].host = s] /\ UNCHANGED state
     ELSE NotifyFailed(t)
  /\ UNCHANGED <<pred, succ, files, client, bounds>>

HostCrashed(t) ==
  /\ At(t, "h_failed")
  /\ NotifyFailed(t)
  /\ UNCHANGED <<pred, succ, files, client, bounds>>

----------------------------------------------------------------------------
(* NotifyRPC at the host: moveFiles, then notify.  addr is the node that   *)
(* notifies; it need not be alive any more.                                *)

EntryOf(n, f) ==
  <<f, CHOOSE i \in Labels : /\ <<f, i>> \notin Bucket[n] \cup Backup[n]
                             /\ \A j \in 1 .. i - 1 : <<f, j>> \in Bucket[n] \cup Backup[n]>>

WrongInBucket(n, f) == \E e \in Bucket[n] \cup Backup[n] : FileId[e[1]] = FileId[f]
InBucket(n, f) == \E e \in Bucket[n] : FileId[e[1]] = FileId[f]

(* StoreFileRPC and SuccessorStoreFileRPC at node a: the entry is in the   *)
(* map before the file is created, and the file there before its content.  *)
Call(th, a, f, content, next) ==
  [th EXCEPT !.pc = "create", !.call = [at |-> a, name |-> f, content |-> content, next |-> next]]
Returned(th) == [th EXCEPT !.pc = th.call.next, !.call = NoCall]
Storing(th) == th.pc \in {"create", "write"}
UnderWay(n, f) == \E t \in Threads : thread[t].call.at = n /\ thread[t].call.name = f

CreateFile(t) ==
  LET c == thread[t].call IN
  /\ At(t, "create")
  /\ disk' = [disk EXCEPT ![c.at][c.name] = Cut]
  /\ Goto(t, "write")
  /\ UNCHANGED <<state, pred, succ, Bucket, Backup, client, bounds>>

(* A file that was removed meanwhile stays removed. *)
WriteFile(t) ==
  LET c == thread[t].call IN
  /\ At(t, "write")
  /\ disk' = [disk EXCEPT ![c.at][c.name] = IF @ = Missing THEN @ ELSE c.content]
  /\ thread' = [thread EXCEPT ![t] = IF c.next = "idle" THEN Idle ELSE Returned(@)]
  /\ UNCHANGED <<state, pred, succ, Bucket, Backup, client, bounds>>

(* storeChordFile refuses an identifier that is in the bucket. *)
Accepts(a, f) == Up(a) /\ ~InBucket(a, f)

WrongLeaves(n, a, f) == between(FileId[f], Id[a], Id[n], TRUE) /\ FileId[f] # Id[n]
Leaves(n, a, f) ==
  \/ between(FileId[f], Id[a], Id[n], TRUE) /\ FileId[f] # Id[n]
  \/ FileId[f] = Id[a]

BeginMove(t) ==
  LET h == thread[t].host
      a == thread[t].node
  IN
  /\ At(t, "h_begin")
  /\ thread' = [thread EXCEPT ![t].pc = "h_move",
                  ![t].todo = IF First(h) # h /\ Up(a) THEN {e \in Bucket[h] : Leaves(h, a, e[1])} ELSE {}]
  /\ UNCHANGED <<state, pred, succ, files, client, bounds>>

(* A file that cannot be opened is sent without content, and one that is   *)
(* not accepted is removed all the same.                                   *)
Content(n, f) ==
  IF disk[n][f] # Missing THEN disk[n][f] ELSE IF UnderWay(n, f) THEN Cut ELSE Nobody

MoveFile(t, e) ==
  LET h == thread[t].host
      a == thread[t].node
      f == e[1]
      rest == [thread[t] EXCEPT !.todo = @ \ {e}]
      moved == [rest EXCEPT !.file = e]
  IN
  /\ At(t, "h_move")
  /\ e \in thread[t].todo
  /\ thread' = [thread EXCEPT ![t] = IF e \notin Bucket[h] THEN rest
                                     ELSE IF Accepts(a, f) THEN Call(moved, a, f, Content(h, f), "h_remove")
                                     ELSE [moved EXCEPT !.pc = "h_remove"]]
  /\ Bucket' = IF e \in Bucket[h] /\ Accepts(a, f)
               THEN [Bucket EXCEPT ![a] = @ \cup {EntryOf(a, f)}] ELSE Bucket
  /\ UNCHANGED <<state, pred, succ, Backup, disk, client, bounds>>

RemoveFile(t) ==
  LET h == thread[t].host
      e == thread[t].file
  IN
  /\ At(t, "h_remove")
  /\ Bucket' = [Bucket EXCEPT ![h] = @ \ {e}]
  /\ disk' = [disk EXCEPT ![h][e[1]] = Missing]
  /\ thread' = [thread EXCEPT ![t].pc = "h_move", ![t].file = Missing]
  /\ UNCHANGED <<state, pred, succ, Backup, client, bounds>>

(* NotifyRPC returns: to stablize, to joinChord, or to nobody. *)
Return(t) ==
  IF thread[t].kind = "stablize"
  THEN /\ thread' = [thread EXCEPT ![t].pc = "empty", ![t].host = NoAddr, ![t].name = NoAddr]
       /\ UNCHANGED state
  ELSE /\ End(t)
       /\ state' = IF thread[t].kind = "join"
                   THEN [state EXCEPT ![thread[t].node] = "up"] ELSE state

notify(t) ==
  LET h == thread[t].host
      p == pred[h]
  IN
  /\ At(t, "h_move")
  /\ thread[t].todo = {}
  /\ IF p = NoAddr
     THEN pred' = [pred EXCEPT ![h] = thread[t].node] /\ Return(t)
     ELSE IF Up(p)
     THEN /\ thread' = [thread EXCEPT ![t].pc = "h_name", ![t].name = p]
          /\ UNCHANGED <<state, pred>>
     ELSE Return(t) /\ UNCHANGED pred
  /\ UNCHANGED <<succ, files, client, bounds>>

SetPredecessor(t) ==
  LET h == thread[t].host
      a == thread[t].node
  IN
  /\ At(t, "h_name")
  /\ pred' = IF Up(a) /\ Closer(thread[t].name, a, h) THEN [pred EXCEPT ![h] = a] ELSE pred
  /\ Return(t)
  /\ UNCHANGED <<succ, files, client, bounds>>

----------------------------------------------------------------------------
(* The rest of stablize: renew the backup at the successor. *)

EmptyBackup(t) ==
  LET n == thread[t].node
      s == First(n)
  IN
  /\ At(t, "empty")
  /\ Backup' = IF Up(s) THEN [Backup EXCEPT ![s] = {}] ELSE Backup
  /\ IF Up(s) /\ s # n
     THEN thread' = [thread EXCEPT ![t].pc = "copy", ![t].todo = Bucket[n]]
     ELSE End(t)
  /\ UNCHANGED <<state, pred, succ, Bucket, disk, client, bounds>>

(* One turn of the loop.  The name copied last is file; meeting it again   *)
(* ends the loop, and a file that is not on the disk ends stablize.        *)
CopyFile(t, e) ==
  LET n == thread[t].node
      s == First(n)
      f == e[1]
      copies == e \in Bucket[n] /\ f # thread[t].file /\ disk[n][f] # Missing
      copied == [thread[t] EXCEPT !.todo = @ \ {e}, !.file = f]
  IN
  /\ At(t, "copy")
  /\ e \in thread[t].todo
  /\ thread' = [thread EXCEPT ![t] =
                  IF copies THEN IF Up(s) THEN Call(copied, s, f, disk[n][f], "copy") ELSE copied
                  ELSE IF e \notin Bucket[n] THEN [@ EXCEPT !.todo = @ \ {e}]
                  ELSE IF f = @.file THEN [@ EXCEPT !.todo = {}]
                  ELSE Idle]
  /\ Backup' = IF copies /\ Up(s) THEN [Backup EXCEPT ![s] = @ \cup {EntryOf(s, f)}] ELSE Backup
  /\ UNCHANGED <<state, pred, succ, Bucket, disk, client, bounds>>

IsKept(n, f) == \E e \in Bucket[n] \cup Backup[n] : FileId[e[1]] = FileId[f]

cleanRedundantFile(t) ==
  LET n == thread[t].node IN
  /\ At(t, "copy")
  /\ thread[t].todo = {}
  /\ disk' = [disk EXCEPT ![n] = [f \in Files |-> IF IsKept(n, f) THEN @[f] ELSE Missing]]
  /\ End(t)
  /\ UNCHANGED <<state, pred, succ, Bucket, Backup, client, bounds>>

----------------------------------------------------------------------------
(* checkPredecessor, when the predecessor does not answer *)

PredecessorFailed(n) == state[n] = "up" /\ pred[n] # NoAddr /\ ~Up(pred[n])

StartCheck(t, n) ==
  /\ PredecessorFailed(n)
  /\ Begin(t, n, "check", "clear", NoAddr, Missing)
  /\ UNCHANGED <<state, pred, succ, files, client, bounds>>

ClearPredecessor(t) ==
  /\ At(t, "clear")
  /\ pred' = [pred EXCEPT ![thread[t].node] = NoAddr]
  /\ Goto(t, "merge")
  /\ UNCHANGED <<state, succ, files, client, bounds>>

WrongTaken(n) == {}
Taken(n) == Backup[n]

MergeBackup(t) ==
  LET n == thread[t].node IN
  /\ At(t, "merge")
  /\ Bucket' = [Bucket EXCEPT ![n] = @ \cup Taken(n)]
  /\ End(t)
  /\ UNCHANGED <<state, pred, succ, Backup, disk, client, bounds>>

----------------------------------------------------------------------------
(* NewNode and joinChord.  A node whose folder exists takes every file in  *)
(* it for its own.                                                         *)

Start(t, n) ==
  /\ state[n] = "down"
  /\ joins < world.joins
  /\ n \in world.joiners
  /\ Begin(t, n, "join", "join", NoAddr, Missing)
  /\ state' = [state EXCEPT ![n] = "joining"]
  /\ joins' = joins + 1
  /\ pred' = [pred EXCEPT ![n] = NoAddr]
  /\ succ' = [succ EXCEPT ![n] = [i \in 1 .. R |-> NoAddr]]
  /\ Bucket' = [Bucket EXCEPT ![n] = {<<f, 1>> : f \in {g \in Files : disk[n][g] # Missing}}]
  /\ Backup' = [Backup EXCEPT ![n] = {}]
  /\ UNCHANGED <<disk, client, crashes, world>>

joinChord(t) ==
  LET n == thread[t].node IN
  /\ At(t, "join")
  /\ \/ \E m \in Holders(Id[n]) :
          /\ thread' = [thread EXCEPT ![t].pc = "answer", ![t].addr = m]
          /\ UNCHANGED state
     \/ /\ LookupFails \/ Holders(Id[n]) = {}
        /\ End(t)
        /\ state' = [state EXCEPT ![n] = "down"]
  /\ UNCHANGED <<pred, succ, files, client, bounds>>

(* The process ends, by Quit or otherwise.  A handler it was waiting for   *)
(* runs on; what waits for one of its handlers gets an error.              *)
AfterCrash(th, n) ==
  CASE th.node = n /\ th.host \in {n, NoAddr} ->
         IF Storing(th) /\ th.call.at # n
         THEN [th EXCEPT !.kind = "orphan", !.call.next = "idle"] ELSE Idle
    [] th.node = n /\ th.host \notin {n, NoAddr} ->
         [(IF Storing(th) THEN Returned(th) ELSE th) EXCEPT !.kind = "orphan"]
    [] th.node # n /\ th.host = n ->
         IF Storing(th) THEN [th EXCEPT !.call.next = "h_failed"] ELSE [th EXCEPT !.pc = "h_failed"]
    [] th.node # n /\ th.host # n /\ Storing(th) /\ th.call.at = n -> Returned(th)
    [] th.node # n /\ th.host # n /\ th.pc = "answer" /\ th.addr = n -> [th EXCEPT !.addr = NoAddr]
    [] OTHER -> th

Crash(n) ==
  /\ Up(n)
  /\ crashes < world.crashes
  /\ crashes' = crashes + 1
  /\ state' = [state EXCEPT ![n] = "down"]
  /\ thread' = [t \in Threads |-> AfterCrash(thread[t], n)]
  /\ UNCHANGED <<pred, succ, files, client, joins, world>>

----------------------------------------------------------------------------
(* clientStoreFile and clientGetFile *)

WrongEncryptFile(n, f) == Nobody
encryptFile(n, f) == IF f \in Long THEN Nobody ELSE n

StartStore(t, n, f) ==
  /\ state[n] = "up"
  /\ f \in world.upload \ acked
  /\ n = Uploader[f]
  /\ \/ \E m \in Holders(FileId[f]) : Begin(t, n, "store", "answer", m, f)
     \/ LookupFails /\ Begin(t, n, "store", "answer", NoAddr, f)
  /\ UNCHANGED <<state, pred, succ, files, client, bounds>>

(* Neither a refused file nor a failed call is reported: an Err in the     *)
(* reply does not survive JSON, and clientStoreFile wants both.            *)
clientStoreFile(t) ==
  LET th == thread[t]
      a == th.addr
      f == th.file
  IN
  /\ At(t, "store")
  /\ IF Accepts(a, f)
     THEN /\ Bucket' = [Bucket EXCEPT ![a] = @ \cup {EntryOf(a, f)}]
          /\ thread' = [thread EXCEPT ![t] = Call(th, a, f, encryptFile(th.node, f), "stored")]
     ELSE /\ Goto(t, "stored")
          /\ UNCHANGED Bucket
  /\ UNCHANGED <<state, pred, succ, Backup, disk, client, bounds>>

StoreSuccess(t) ==
  /\ At(t, "stored")
  /\ acked' = acked \cup {thread[t].file}
  /\ End(t)
  /\ UNCHANGED <<state, pred, succ, files, got, bounds>>

StartGet(t, n, f) ==
  /\ state[n] = "up"
  /\ f \in world.download \ {g.file : g \in got}
  /\ n = Uploader[f]
  /\ \/ \E m \in Holders(FileId[f]) : Begin(t, n, "get", "answer", m, f)
     \/ LookupFails /\ Begin(t, n, "get", "answer", NoAddr, f)
  /\ UNCHANGED <<state, pred, succ, files, client, bounds>>

(* GetFileRPC goes by the identifier; decryptFile uses the asker's key. *)
clientGetFile(t) ==
  LET th == thread[t] IN
  /\ At(t, "get")
  /\ \/ \E e \in IF Up(th.addr) THEN Bucket[th.addr] ELSE {} :
          /\ FileId[e[1]] = FileId[th.file]
          /\ disk[th.addr][e[1]] # Missing
          /\ got' = got \cup {[by |-> th.node, file |-> th.file, name |-> e[1],
                               content |-> disk[th.addr][e[1]]]}
     \/ /\ \A e \in IF Up(th.addr) THEN Bucket[th.addr] ELSE {} :
             FileId[e[1]] = FileId[th.file] => disk[th.addr][e[1]] = Missing
        /\ UNCHANGED got
  /\ End(t)
  /\ UNCHANGED <<state, pred, succ, files, acked, bounds>>

----------------------------------------------------------------------------
ThreadStep(t) ==
  \/ GetSuccessorList(t) \/ GetPredecessor(t) \/ GetSuccessorName(t)
  \/ GetPredecessorName(t) \/ CallNotify(t) \/ HostCrashed(t)
  \/ BeginMove(t) \/ RemoveFile(t) \/ notify(t) \/ SetPredecessor(t)
  \/ \E e \in thread[t].todo : MoveFile(t, e) \/ CopyFile(t, e)
  \/ EmptyBackup(t) \/ cleanRedundantFile(t)
  \/ ClearPredecessor(t) \/ MergeBackup(t)
  \/ CreateFile(t) \/ WriteFile(t)
  \/ joinChord(t) \/ FindSuccessor(t)
  \/ clientStoreFile(t) \/ StoreSuccess(t) \/ clientGetFile(t)

Next ==
  \/ \E t \in Threads : ThreadStep(t)
  \/ \E t \in Threads, n \in Nodes : StartStablize(t, n) \/ StartCheck(t, n) \/ Start(t, n)
  \/ \E t \in Threads, n \in Nodes, f \in Files : StartStore(t, n, f) \/ StartGet(t, n, f)
  \/ \E n \in Nodes : Crash(n)

Spec == Init /\ [][Next]_vars

----------------------------------------------------------------------------
(* Properties *)

(* joinChord sets Successors[0] by a lookup that others overtake, and      *)
(* stablize changes it from answers that may be old.  As long as no node   *)
(* fails, Successors[0] still leads every node into one and the same ring, *)
(* which passes its nodes in the order of their identifiers: no join and   *)
(* no overlap of stablize splits it or makes it go round twice.            *)
Reach(n) ==
  LET walk[i \in 0 .. Cardinality(Nodes)] ==
        IF i = 0 THEN n ELSE IF walk[i - 1] \in Nodes THEN First(walk[i - 1]) ELSE NoAddr
  IN  {walk[i] : i \in 1 .. Cardinality(Nodes)}
OnRing == {n \in Routed : n \in Reach(n)}
OneRing ==
  crashes = 0 =>
    /\ \A n \in Routed : OnRing # {} /\ OnRing \subseteq Reach(n)
    /\ \A n \in OnRing : First(n) = Nth(OnRing, n, 1)

(* README: each file has a backup, "so that no fatal error of file loss    *)
(* can occur".  A file for which success was reported is in the bucket or  *)
(* the backup of a node that is up.                                        *)
Names(S) == {e[1] : e \in S}
Held == UNION {Names(Bucket[n]) \cup Names(Backup[n]) : n \in Alive}
FilesSurvive == acked \subseteq Held

(* That much holds when nobody crashes and no two runs of stablize overlap *)
(* at one node: while a join moves files and stablize renews backups, each *)
(* file is always somewhere.                                               *)
NoFileLoss == world.crashes = 0 /\ ~world.overlaps => FilesSurvive

(* Moving files, renewing backups and taking them over go through states   *)
(* in which a file is in one place only.  Whatever the tasks do, only the  *)
(* end of a process makes a file disappear from the buckets and backups,   *)
(* as long as the tasks of the ring take turns.                            *)
OnlyCrashesLose ==
  [][world.threads = 1 /\ Alive \subseteq Alive' => acked \cap Held \subseteq Held']_vars

(* What Get writes for the node that uploaded the file is the file,        *)
(* through joins that move it.  Nothing locks the storage: a file that is  *)
(* read, or moved on, while it is being stored comes back empty or in part *)
(* (Cut), but nothing else ever does: not another's content, and not that  *)
(* of a file which a move or a cleaning took away too early.               *)
GetReturnsUpload ==
  \A g \in got : g.name = g.file /\ g.content \in {g.by, Cut}

(* What the ring and the files come to when joins and crashes stop. *)
Settled ==
  \A n \in Alive :
    /\ state[n] = "up"
    /\ \A i \in 1 .. R : succ[n][i] = Nth(Alive, n, i)
    /\ pred[n] \in Alive /\ Nth(Alive, pred[n], 1) = n

(* Fairness: goroutines run (every ThreadStep(t) changes thread[t]), calls *)
(* to a node that is down fail, and the tickers of a node that is up tick  *)
(* for ever: it starts stablize again and again, and checkPredecessor      *)
(* finds a predecessor that stays down.                                    *)
Starts(kind, n) ==
  \E t \in Threads : thread[t] = Idle /\ thread'[t].kind = kind /\ thread'[t].node = n
Fairness ==
  /\ \A t \in Threads : []<><<thread[t] = Idle \/ thread'[t] # thread[t]>>_vars
  /\ \A n \in Nodes :
       /\ []<><<state[n] # "up" \/ Starts("stablize", n)>>_vars
       /\ []<><<~PredecessorFailed(n) \/ Starts("check", n)>>_vars

FairSpec == Spec /\ Fairness

(* Stabilisation: once joins and crashes stop, predecessors and successor  *)
(* lists become right and stay so.                                         *)
RingForms == <>[]Settled

(* Files follow the ring: every file comes to the bucket of the node that  *)
(* FindSuccessor answers for it and stays there, and its backup is renewed *)
(* at that node's successor for ever.                                      *)
FilesSettle ==
  world.crashes = 0 /\ ~world.overlaps =>
    /\ <>[](\A f \in acked : f \in Names(Bucket[Owner(Alive, f)]))
    /\ []<>(\A f \in world.stored : f \in Names(Backup[Nth(Alive, Owner(Alive, f), 1)]))
=============================================================================
