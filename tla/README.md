# A verification project for TDA596-Distributed-System-Lab

The repository holds three labs of a distributed systems course: an HTTP server
with its proxy and client (Lab1), a Chord ring that stores files (Lab2), and
MapReduce (Lab3), which lives in the tree of the MIT 6.824 labs. This directory
models them in TLA+, checks the models with TLC on small instances, and proves
the main results with TLAPS for every size.

## The system and what is modelled

| Part | Source | Modules | State |
|---|---|---|---|
| MapReduce coordinator, its main loop, the workers' request loop | `Lab3/src/mr/`, `Lab3/src/main/mr{coordinator,worker}.go` | `MapReduce`, `Job`, `MapReduceProofs` | modelled, checked, proved |
| MapReduce job on a shared directory | `Lab3/src/mr/worker.go`, `MakeCoordinator` | `LocalJob`, `LocalJobProofs` | modelled, checked, proved |
| MapReduce job on the file server | `Lab3/FileServer/SimpleServer.go`, cloud branches of `mr/` | `CloudJob`, `CloudJobProofs` | modelled, checked, proved |
| MapReduce applications | `Lab3/src/mrapps/` | `MapReduce` | `crash.go` is the crash of a worker; the others are pure functions |
| Chord identifiers and routing | `Lab2/Node/{routing,tools}.go` | `ChordLookup`, `ChordLookupProofs` | modelled, checked, proved |
| Chord ring maintenance and file storage | `Lab2/Node/{stabilizing,node,main,tools}.go` | `Chord` | modelled, checked |
| Chord finger tables | `fixFingers` in `Lab2/Node/stabilizing.go` | `ChordFingers`, `Routing` | modelled, checked |
| HTTP server, client, proxy | `Lab1/` | `HttpServer`, `Proxy`, `Lab1`, `Lab1Proofs` | modelled, checked, safety proved |
| labrpc and the k/v tester | `Lab3/src/labrpc/`, `kvraft/config.go`, `raft/persister.go` | `LabRpc`, `KvConfig`, `KvConfigProofs` | modelled, checked, proved |
| porcupine | `Lab3/src/porcupine/`, `models/kv.go` | `Bitset`, `CheckSingle`, `CheckParallel`, `CheckParallelProofs` | partly modelled, checked, `CheckParallel` proved |
| Raft tester | `Lab3/src/raft/config.go` | `RaftTester`, `RaftTesterProofs` | partly modelled, checked, proved |
| raft, kvraft, shardctrler, shardkv, labgob | `Lab3/src/...` | | not modelled, see the end |

A module `MC...` gives an instance of the module it is named after; the file
`MC....cfg` has the values of the constants. The definitions named `Wrong...` are
faulty variants of the definition that follows them; each property fails under
one of them.

## Runs

| Run | Instance | Distinct states |
|---|---|---|
| `coordinator` | 3 workers, two with one process id; 2 maps, 1 reduce; fair | 112,855 |
| `local_job` | 2 workers, 2 maps, 2 parts, fresh directory; inputs readable, missing or nameless | 1,296,180 |
| `cloud_job` | 2 workers, 2 maps, 1 part; five trials; fair | 333,481 |
| `lookup` | 3 nodes, 6 identifiers, 1 finger, 2 pointer changes, any crashes; beside it one node's table: 4 nodes, 16 identifiers, 4 fingers, 2 changes; fair | 724,848 |
| `lookup_found` | the same without pointer changes | **violation** of `FoundIsNode` |
| `chord` | 3 nodes, 8 identifiers, 2 files; six worlds; fair | 259,125 |
| `store_gap` | the world `OwnerFails` | **violation** of `FilesSurvive` |
| `kv` | 1 server with two incarnations, 1 clerk, 1 call; fair | 79,264 |
| `raft` | 2 servers, 2 commands; nine setups | 1,872,087 |
| `porcupine_search` | 3 operations, 3 clock ticks, words of 2 bits; fair | 511,702 |
| `porcupine_parallel` | 3 partitions; fair | 4,091 |
| `lab1` | 2 clients of the server with one place; 2 clients of the proxy; fair | 107,994 |

Some modules keep several small circumstances in one run: a variable that is
chosen at the start and never changes (`trial` in `CloudJob`, `world` in `Chord`,
`setup` in `RaftTester`, `way` in `Lab1`, `side` in `Routing`). A property that
holds in some of them only says so in its first conjunct. Deadlock is checked in
`chord` and `porcupine_search`; the other systems may stop.

## MapReduce

A worker process dials the coordinator for every call. `RequestTask` takes the
coordinator's mutex twice: `selectTask` marks a task InProgress and unlocks,
then `RequestTask` locks again to write WorkerId and to start a `waitForTask`
goroutine, which resets the task if it is still InProgress after ten seconds.
`CompleteTask` accepts a report only from the process id the task is assigned
to. Two counters decide when reduce tasks may start, when workers may exit and
when `Done` says true.

### `MapReduce`

| Variable | Code |
|---|---|
| `tasks` | `mapTasks`, `reduceTasks` (Status, WorkerId, File) |
| `nMapCompleted`, `nReduceCompleted` | the counters |
| `timers` | sleeping `waitForTask` goroutines, per task |
| `handler` | the task a `RequestTask` goroutine holds between its two locks |
| `main` | the main goroutine: polling `Done`, done, exited |
| `pc`, `working` | each worker's place in its loop, and its task |

Each action is one critical section or one RPC. `Crash` ends a worker at any
point; `DialFails` and `RequestBroken` are the two ways a call ends a worker.
There is no clock: a timer may fire at any time after it was started. `Job` is
the abstract specification: every task finishes once, reduces after maps, and the
job is over only when all are done.

`CountersExact`: the counters count. `OneTimerPerAttempt`: no timer outlives its
attempt. `ReduceAfterMaps`, `LeaveOnlyWhenFinished`, `CompletedIsFinal`.
`ImplementsJob`: the refinement of `Job`. `JobEnds`: the job ends unless all
workers crash. Three workers let one hold a task, one be given up on it and one
retry it. Timers need no bound: `OneTimerPerAttempt` limits them.

`FairSpec` assumes that every goroutine and live worker that can take a step
eventually does, and that a live worker eventually stops losing to its own timer
(`<>[][~PrematureTimeout]_vars`). The second is not guaranteed by the code: it is
what setting `TaskTimeout` to ten seconds presumes. A task that always takes
longer is repeated for ever. A map task with an empty name is handed out, dropped
by the worker and timed out for ever, so `coordinator` gives every task a name.

### `LocalJob`

Adds the files of a job whose workers share a directory, one action per file
operation that another process can see. File contents are `cut` (being written),
`whole`, `blank` (the map of an input that could not be opened) and `old` (left
by an earlier job). Names keep the components they are put together from,
because `doReduce` finds its input by a pattern on names. The coordinator removes
old output after it has begun to serve, as in `MakeCoordinator`. Creating all
temporary files of a map task is one step, and so is reading all listed files: a
worker that dies in between leaves files no other process reads, except in the
case of the process ids below.

`OutputIsSequential`: what `Done` announces is the output of `mrsequential.go`.
That program stops on an unreadable input, while the workers go on with empty
content; the property then asks for the output of that empty content.
`CompletedMapsAreWhole`: a completed map has all its parts, whole, whatever a
given-up worker still renames. `OutputFrozen`: no output changes after a worker left.

`worker.go:28` declares `var location = "cloud"` and nothing assigns it. A worker
started with `local` therefore dials TCP, while a `local` coordinator listens on a
UNIX socket: as shipped, a local job does not run (`Location = "cloud"` breaks
`LeaveOnlyWhenFinished`, though `main/test-mr.sh:91` runs both with `local`).
`local_job` sets `Location` to `"local"`: its results are about the program with
that one line changed. Two more cases are not part of the run; when its constants
are changed to include them, TLC finds `OutputIsSequential` violated: `StaleDir =
TRUE` (the cleaning deletes the output of a map that ran before it,
coordinator.go:320) and a worker whose process id is the number of a reduce task
(the pattern of worker.go:226 then matches its unfinished files).

### `CloudJob`

Adds the file server and the requests of workers and of `Done`. An upload is
stat, remove, create and write, with other requests in between; `log.Fatal` ends
the server for good. A worker's own `tmp` is on its own machine and seen by no
one else. `Done` downloads the output with the coordinator's mutex held.

Only the coordinator's machine gets a `tmp` from the program; a worker's and the
server's `root/tmp` somebody has to make, and the repository ships neither. It ships
some inputs on the server, and the job may name others. So there are five trials, in
all of which workers may die between uploads:
- all is there, and the server has the files of an earlier job of the same size;
- timers that overtake live workers (`late`) and workers that die in the middle of
  an upload (`cut`), on a server without such files;
- one worker has no `tmp`: its map panics (`NoTempDir`), and its reduce uploads an
  old `mr-out` or nothing and reports success (`WriteNothing`);
- the server has no `root/tmp`: the first map upload ends it (`CreateFails`);
- it has no inputs: the first GET ends it (`GetFails`).

`OutputIsSequential` is about the first, and no trial but that is `Tidy`.
`JobIsFetched` (the coordinator gets an output, unless all workers die) is about
all without `late` and `cut`. In all, `CompletedMapsReturn` (the output of a
completed map is on the server, or an upload of it is under way); and in those
where directory and inputs are there (`Stocked`), `ServerEndsOnOverlap` (the server
ends only when uploads or reads of one file overlap, or an upload breaks). With
`late`, an output may be incomplete: a given-up worker uploads a file again while a
reduce task reads it. With the files of an earlier job with more maps, they get
into the output, since nothing empties the server's `tmp`. Fairness: every process
that can take a step does.

## Chord

### `ChordLookup`

`find` at one node calls `FindSuccessorRPC`, which asks Successors[0] for its
name and either answers or calls itself at a node that `closePrecedingNode`
chose. `path` is the chain of handlers waiting for each other; `phase` says what
the last one does: `call` (asking its successor's name), `answer`, `forward`
(testing fingers, from `slot` down), `hop` (calling the chosen pointer),
`return`. `ptr[n][0]` is Successors[0] of n and `ptr[n][i]` its finger i. Every
RPC is a step of its own, because the code reads a pointer again after the RPC
that tested it. `Change` overwrites any pointer: fingers with a node, since
`fixFingers` stores only addresses that answered, and Successors[0] with
anything, since `stablize` may leave `""` there. `changes` counts them and
`seen` remembers the count at the last test; both exist for `HopsBounded` only.

`HopsBounded` bounds the nesting of calls; `LookupCorrect`: while the ring is
ideal the answer is right, whatever the fingers are; `LookupEnds`. Identifiers 0,
2 and 5 of 6 give arcs of different lengths and one over zero; keys are all six.
Two changes let a lookup lose its way twice. `MaxChanges` bounds changes in the
model only; the theorems hold for every value. A node that is up answers, and a
call to one that is down fails: a node that accepts a call and never answers
would keep a lookup waiting, as `ChordCall` has no timeout, and `LookupEnds`
assumes there is none (weak fairness of `LookupStep`).

After a reply that is not Found, `find` continues with the error text as the next
address. No such call can succeed, so the remaining turns of its loop are left
out and it returns -1. A handler whose nested call was not Found sets Found all
the same (routing.go:112), so with one node down `find` can report success with
an error text for an address: `lookup_found`, against the comment at
`routing.go:123`, "found: whether the key is found".

### `Chord`

The ring with its files: `stablize`, `notify`, `checkPredecessor`, `joinChord`,
`NewNode`, Store and Get, `moveFiles`, the backup RPCs and `cleanRedundantFile`.
A goroutine, at whatever node, is one of the numbers in `Threads` with its place
and its local variables, and takes a step per RPC; the least free number is used.
`succ`, `pred`, `Bucket`, `Backup` and the folder `chord_storage` are per node.
File contents are whose key they are encrypted with. A ticker may start `stablize`
while the last one still runs if `world.overlaps`. A node that crashes may start
again on its old folder.

A lookup is two steps. It comes to any node whose interval has the key (`Holders`),
whichever way the fingers lead, or fails while some successor is down
(`LookupFails`); then that node reads its Successors[0] again and answers with it
(`FindSuccessor`, routing.go:96), which may be another by then. Storing a file is
three: the entry in Bucket or Backup (with the caller's step), `CreateFile` and
`WriteFile`, with other goroutines in between. A file that is read before it is
written is `Cut`: empty, or a part of it. Iteration over a Go map is over the
keys at its start. Go's fatal error for concurrent map access is the action
`Crash`. Not modelled: NAT, the connections `checkPredecessor` leaves open, and
`SetPredecessorRPC`, which nobody calls.

| World | What happens |
|---|---|
| `TwoJoin` | two nodes join one |
| `JoinOverlapped` | one joins two, with overlapping `stablize` |
| `OneFails` | one of three crashes |
| `UploadAndJoin` | a file is stored and asked for while the node joins that will own it |
| `FilesMove` | a node joins and takes a file over |
| `OneRestarts` | one of three with two files crashes and restarts; one goroutine at a time |

`OneRing`: while no one crashes, Successors[0] leads every node into one ring in
the order of identifiers. `RingForms`: predecessors and successor lists become
right and stay right. `NoFileLoss`: without crashes and overlaps each file that
was reported stored is somewhere. `OnlyCrashesLose`: with goroutines that take
turns (`threads = 1`, the world `OneRestarts`), only the end of a process makes a
file disappear. Both look at the entries of Bucket and Backup, not at what the
folder holds under the name. `GetReturnsUpload`: what Get writes for the uploader
is its file, or `Cut`. `Cut` really comes back: Get may overtake the writing of a
file that was just announced in Bucket, and so may `moveFiles`, which then deletes
the original, so that a file whose upload was reported a success stays empty at its
new owner. `FilesSettle`: files come to the node lookups answer for them and are
backed up for ever.

`store_gap` shows that `Lab2/README.md:102` ("so that no fatal error of file loss
can occur") does not hold: `stablize` empties its successor's backup and fills it
again file by file, and a crash in between takes the file along. TLC also finds
files lost
- with overlaps and without a crash: a lone node notifies itself, adopts a
  joining node meanwhile, and moves its files to itself (`NoFileLoss` without
  `~world.overlaps`);
- with two goroutines and a crash: `checkPredecessor` clears Predecessor before it
  copies Backup (stabilizing.go:153);
- with two crashes: a file is moved to a node that ends;
- for two names with one identifier (`FileId` not injective): the second is
  refused and success is printed, though README:105 asks only for unique names;
- for a file longer than RSA encrypts at once (`Long`): nothing is stored, and Get
  gives nothing.

Fairness: goroutines run, calls to a node that is down fail, and the tickers of a
node that is up tick for ever, as `ScheduledExecutor` does: a node that stays up
starts `stablize` again and again, and `checkPredecessor` finds a predecessor that
stays down.

### `ChordFingers`, `Routing`

`fixFingers` of one node; the rest of the ring is its set of nodes, and a lookup
may answer any node until `Settle`. `FingersForm`: every finger becomes right and
stays so; an index outside the table would end the node (`up`) and leave its
fingers as they are. The run has one goroutine: with `Threads = {1, 2, 3}` TLC
moves `next` to -1 on a ring that does not change (stabilizing.go:252, the lock is
commented out), and the store panics. `Routing` puts a lookup and a table side by
side; neither restricts what the other may meet. Fairness: the ring settles,
`fixFingers` is started again and again, and its steps are taken.

## Lab1

`HttpServer` has the accept loop with `golimit`, `HandleConnection` and its
handlers, and the client's `sender`. A message is a head and a body that arrive
one after the other, and each side reads each message through a new
`bufio.Reader`, which may or may not have read ahead. The server's panic after a
failed POST is in `WriteHead`. A client that gets a file it already has on its own
disk under a name without a dot panics (`NameTaken`). `current_conn` is only
printed and is left out. `Proxy` has the accept loop that reads the server's
address, and `handleClientRequest`, for any server behind it; an `Accept` that
fails leaves a nil connection, whose use ends the proxy (`AcceptFails`, `ReadNil`),
and a request that does not parse ends its handler (`BadRequest`). `Lab1` puts the two side by side:
they have no state in common, so all clients of a behaviour go one way.

`Served`: everybody is served in the end unless others stay for ever or the
server ends; a path of `HandleConnection` that kept its place would break it.
`KeepsStep`: a client that got only files and listings never takes a leftover for
an answer.
`EndsOnlyOnArrival`: the proxy panics only by how a client arrives: an `Accept`
that failed, or an address that was bad, missing or read together with a request.
`Accepted`: the proxy's loop gets to every client if none stays silent.
One place stands for ten: the loop waits with one connection in hand in both.

Where the code and its comments differ, as the model shows: two posts of one name
that overlap are both told it is free, and the second overwrites the first
(tools.go:45); another method gets 501, not the 405 of
`Server/main.go:82`; the loop accepts one connection more than its limit before it
waits; after its 501, and after a request that does not parse, the proxy's handler has
returned with the connection open, and the client's next request is never answered. Fairness: the goroutines of server and
proxy run, and a proxy's client reads an answer that is there. A client of the
server may stop at any point.

## labrpc and the k/v tester

`LabRpc` models `Call`, `processReq` and the network's settings: a request may be
dropped, delayed, handled and its reply lost, while servers are deleted and added.
`KvConfig` adds the tester: partitions, connecting clerks, `ShutdownServer` in its
three critical sections and `StartServer` with the copying of Persisters. A service
handler either saves and returns or hangs. `PositiveIsSaved`: a Call that returned
true is saved where the server's next incarnation finds it. `OldInstanceIsolated`:
no Call of an instance that was shut down gets a reply, except one that
`processReq` had let pass before and `longReordering` delays, which still arrives
(labrpc.go:278-287). `CallReturns`, with weak
fairness of the network's steps and of handlers that return. The same properties
but the last hold with two servers (1,095,136 states).

## porcupine

`CheckSingle` is the search for a linearization: the doubly linked list that is
cut and mended, the cache, the stack, `Bitset` for its set of operations, and what
`computeVisualizationData` makes of the result. `VerdictRight` compares with the
definition of linearizability for every history of the instance.
`LargestIsLongest`: the prefixes shown are the longest. `PartialsReplay` (the panic of visualization.go:68 never
happens, even after the search was stopped), `SearchEnds`. `computePartial` is
always on. The search's goroutine runs while it has something to do. Words of two
bits put three operations into a word and a half.

`CheckParallel` has one goroutine per partition, the timeout and `kill`:
`VerdictSound`, `CheckEnds` (fairness: the receiving loop and the
searches). It starts from one partition or more: with none, and no timeout, the
code waits for ever.

## Raft tester

`RaftTester` has the appliers with the errors of `ingestSnap`, `crash1`, `start1`,
`one` (without retry) and `nCommitted`. Raft itself is external. A killed instance
only delivers the message it was about to. The setups:
- a correct Raft applies one log, and the snapshots its servers took: with
  restarts, with snapshots, and with both;
- a faulty one applies any command and tells `one` any index, under the applier
  with snapshots and under the one without, with a server that restarts (and `one`
  not called) or without;
- one that also forges snapshots (`Forged`) delivers and persists them: nil ones,
  ones no server took, and ones shorter than they say or than the message says.

`DisagreementReported`: unless an error was reported, no two logs hold different
commands at an index, and none has left an index out. It compares what the logs hold
now: a server restarted from its snapshot has forgotten what came later, and what
others apply there in the meantime is compared with it only when it applies that
again. A forged snapshot replaces a log without being compared with any, so of a
Raft that forges them only the gaps are reported. `OneIsCommitted`: what `one`
returns is applied by as many servers as it says, and stays applied (no forged
snapshots). `NoFalseAlarm`: about a correct Raft the appliers and `nCommitted`
report nothing; its test fails only when `one` gives up waiting (raft/config.go:602, 609),
which a correct Raft that is too slow cannot avoid.

With snapshots and restarts together a correct Raft can fail the test: the killed
instance's applier shares `lastApplied` with the next one's (raft/config.go:229),
though the comment at line 273 speaks of isolating it. The last two properties leave
such setups out.

## Proofs

The theorems hold for every value of the constants that satisfies the named
assumptions. Each invariant theorem rests on an inductive invariant (`IInv`, or one
that extends it), with one lemma or step per action.

### `MapReduceProofs`

For every set of workers, process ids (not necessarily distinct), number of
maps, positive number of reduces and file names (`PidAssumption`,
`SizeAssumption`, `FileAssumption`).

| Theorem | States |
|---|---|
| `TypeCorrect` | `Spec => []TypeOK` |
| `CountersCorrect` | `Spec => []CountersExact` |
| `TimersCorrect` | `Spec => []OneTimerPerAttempt` |
| `BarrierCorrect` | `Spec => []ReduceAfterMaps` |
| `ExitCorrect` | `(Listens = Dials) /\ Spec => []LeaveOnlyWhenFinished` |
| `FinalCorrect` | `Spec => CompletedIsFinal` |
| `Refinement` | `Spec => ImplementsJob` |

`IInv` has the types, what each place of a worker's loop implies (`LoopInv`),
`CountersExact`, `OneTimerPerAttempt`, `Barrier` (the form of `ReduceAfterMaps`
that is inductive) and `ExitInv`. None of them is inductive alone: that a
Completed task is not touched by a late handler needs `OneTimerPerAttempt`, and
the barrier needs the counters to be exact, since `selectTask` looks only at
them. `CountersTell` turns a full counter into "all tasks Completed" by
cardinality. `ExitCorrect` has the hypothesis `Listens = Dials`, which the shipped
local configuration does not satisfy.

### `LocalJobProofs`

For every set of workers, number of maps and of parts, set of readable inputs,
and any crashes and time-outs, under the hypothesis `FreshJob`: one input at least
(`main/mrcoordinator.go` demands it), no files of an earlier job, and process ids
that differ and are not smaller than the number of parts. Without the second or
the last the properties do not hold (see `LocalJob`).

| Theorem | States |
|---|---|
| `MapsAreWhole` | `FreshJob /\ JobSpec => []CompletedMapsAreWhole` |
| `OutputCorrect` | `FreshJob /\ JobSpec => []OutputIsSequential` |
| `FrozenCorrect` | `FreshJob /\ JobSpec => OutputFrozen` |

The invariant `JInv` adds to the coordinator's `IInv` how far each worker is with
its files (`WorkerInv`: which of them have their final name already, what a
reducer has listed and read), that a file with a final name is complete and a
Completed task's files are there (`FileInv`), and that nothing got anywhere before
`MakeCoordinator` made the directory (`BootInv`). `FileInv` does not mention who
wrote a file, and that is what makes it survive abandoned attempts: two attempts
at a task rename equal files, and temporary names carry the process id (lemma
`Name`). That a reducer lists exactly its part of every map needs the barrier of
`IInv`. A job cannot be over with a worker in the middle of a task whose output
differs, so `FrozenCorrect` follows from the same invariant.

### `CloudJobProofs`

For every set of workers, number of maps and of parts and any trials
(`TrialAssumption` and the assumptions of `MapReduce`), process ids that coincide
included.

| Theorem | States |
|---|---|
| `CloudJobImplementsJob` | `JobSpec => ImplementsJob` |
| `MapsReturn` | `JobSpec => []CompletedMapsReturn` |
| `EndsOnOverlap` | `JobSpec => ServerEndsOnOverlap` |
| `OutputCorrect` | `JobSpec => []OutputIsSequential` |
| `ServerStaysUp` | `JobSpec => [](Tidy => up)` |

The first two hold in every trial, the third in every one with the directory and
the inputs on the server (`Stocked`). Every step of `CloudJob` is a step of
`MapReduce` or leaves it alone (`JobStepIsStep`), so `Refinement` carries over.
The invariant `CInv` adds to `IInv` what handlers and workers rely on while the
server runs: a name that was seen is there or about to be created again (`Kept`),
and a part of a map that was uploaded is whole, or a handler that has not lost the
file to another will write it (`Ready`). Both survive any handler's step
(`KeptStays`, `ReadyStays`): who removes a file creates it again, and who loses the
file it created loses it to one who has yet to write the same records.
`CompletedMapsReturn` and `EndsOnOverlap` follow, the latter because a `log.Fatal`
means that a file that is `Kept` does not exist.

The last two are about trials without faults, with directories and inputs, on a
server with no more maps than the job (`Tidy`), where workers may still die between uploads. `TInv` says that
every attempt has one worker whose report will be accepted (`OwnerInv`), which
needs that `selectTask` hands out tasks nobody owns (`OneTimerPerAttempt`). Hence
two uploads never have one name (`DistinctTargets`), a handler finds what it
looked for (`UploadInv`) and the server stays up. Reduces run after the maps, when
nobody uploads a map, so each reads every map once (`MapFiles`, `ReduceInv`); its
output stays (`RightStays`) until `Done` has downloaded it (`FetchInv`).

### `ChordLookupProofs`

For every set of nodes and identifiers (collisions included), every size of the
ring and of the finger tables, and any initial pointers (`SpaceAssumption`,
`TableAssumption`, `PtrAssumption`, `AddrAssumption`).

| Theorem | States |
|---|---|
| `TypeCorrect` | `Spec => []TypeOK` |
| `HopsCorrect` | `Spec => []HopsBounded` |
| `LookupIsCorrect` | `Spec => LookupCorrect` |

`BetweenIsArc` shows that `between` is a comparison of clockwise distances
(`Dist`, a full turn from an identifier to itself), so a hop to a tested pointer
shortens the distance to the key (`ArcShrinks`). `IInv` bounds the number of
handlers plus the distance left; a hop through a pointer changed after its test
may lose up to a full turn, and the bound grows by that much with every change
(`BoundGrows`). For `LookupIsCorrect`, `CInv` says that a handler about to answer
has no node between itself and the key, a fact that does not mention the pointers
and so survives their changes.

### `KvConfigProofs`

For every number of servers, set of clerks, set of calls and number of restarts
(`ServerAssumption`, `ClerkAssumption`).

| Theorem | States |
|---|---|
| `TypeCorrect` | `Spec => []TypeOK` |
| `SavedCorrect` | `Spec => []PositiveIsSaved` |
| `IsolationCorrect` | `Spec => OldInstanceIsolated` |

`IInv` has the types and what ties the tester to the network: which ends exist
(`EndsMade`) and may be enabled (`EndInv`), what holds between the critical
sections of `ShutdownServer` and `StartServer` (`LockInv`), that a server
in the network saves where the next incarnation looks (`ServerInv`), and where a call's update is at
each of its places (`CallInv`). That a positive reply is saved needs all of them:
`processReq` looks at the server once more before it replies (`isServerDead`), and
only because `ShutdownServer` disconnects and deletes the server before it copies
the Persister does that look exclude an update in a superseded one.

### `CheckParallelProofs`

For every positive number of partitions (`PartitionAssumption`).

| Theorem | States |
|---|---|
| `TypeCorrect` | `Spec => []TypeOK`: among the types, no more answers than partitions |
| `VerdictCorrect` | `Spec => []VerdictSound` |
| `InfoCorrect` | `Spec => []InfoComplete`: with info, every goroutine has sent before the check returns |

`IInv` has the types, the number of answers received or on their way (`CountInv`),
that nothing was stopped and all answers are right while the loop runs (`LoopInv`),
what `ok` and `timedOut` say from then on (`OkInv`), and that with info all answers
were received at the end (`OverInv`).

### `RaftTesterProofs`

For every number of servers, commands, indices and restarts, every snapshot
interval, every set of setups and any forged snapshots (`BoundAssumption`,
`ValueAssumption`, `SetupAssumption`, `ForgedAssumption`).

| Theorem | States |
|---|---|
| `ReportCorrect` | `Spec => []DisagreementReported` |
| `OneCorrect` | `Spec => []OneIsCommitted` |
| `SilenceCorrect` | `Spec => []NoFalseAlarm` |

`IInv` has the types and places (`Basic`), and then one part per kind of Raft.
For a correct one, every log, snapshot and message is the agreed log's
(`AgreedInv`). For one that does not forge snapshots, a snapshot is the start of its
server's own log (`OwnInv`), or installing it after a restart could bring back a
disagreement unseen. That an installed snapshot leaves no gap needs nothing of it:
`ingestSnap` replaces the log by what the snapshot has. `CleanInv` is what silence
needs: without snapshots, whatever an applier
has had is in the log, whichever instance put it there; with them and no
restarts, `lastApplied`, the log and the applier's next index agree exactly.
`CountInv` says that what `nCommitted` counted server by server, releasing the
mutex between them, is still there (`LogsKept`, `HavingKept`); it rests on
`CleanInv`, since a snapshot replaces the whole log and keeps it only if it has
no holes.

### `Lab1Proofs`

For any sets of clients, requests, paths and reachable servers and any limit; no
assumption on the constants.

| Theorem | States |
|---|---|
| `StepCorrect` | `LabSpec => []KeepsStep` |
| `ArrivalCorrect` | `LabSpec => []EndsOnlyOnArrival` |

`ServerInv` says how far one request is: the client's place, the two wires and
the handler of the connection move together (`Unread`, `Working`, `Half`, `Done`,
`Reading`, `Idle`). The case that decides is a body that nobody read: it is that
of a POST, which ends the run of files and listings, or it is the client's to
read. Clients share the accept loop, `golimit` and the files, none of which
matters to the wires (`OneClient`, `SameKept`). `ProxyInv` ties a client's server
to the handler and the accept loop: `nil` is final once a Dial failed, and the
loop's client has no server yet.

### Only model-checked

Liveness under fairness is out of the prover's reach: `JobEnds`, `JobIsFetched`,
`LookupEnds`, `FingersForm`, `RingForms`, `FilesSettle`, `CallReturns`,
`SearchEnds`, `CheckEnds`, `Served`, `Accepted`. So is what a search over data
computes for every input: `VerdictRight`, `LargestIsLongest` and `PartialsReplay`
of `CheckSingle`, with `Bitset`. Checked on the instances above and not proved:

- `Chord`: `OneRing` is about the closure of a pointer graph, which would need
  an induction along it; `NoFileLoss`, `GetReturnsUpload` and `OnlyCrashesLose`
  hold in the worlds of the run, and not without the conditions listed there.

## Not modelled

- Logging, the encoding of RPCs, the map and reduce functions, hashing and
  encryption (identifiers and keys are constants).
- A network failure in the middle of a MapReduce call while both ends live: there
  is no retry for it, the worker leaves. The coordinator keeps nothing on disk, so
  its crash has no recovery.
- `raft.go`, and the servers and clerks of `kvraft`, `shardctrler` and `shardkv`:
  their handlers have empty bodies. The testers of `shardctrler` and `shardkv`
  start, stop and partition servers as `kvraft/config.go` does, which is modelled.
- `labgob`: it warns about encodings and keeps no state that matters.
- porcupine's interface for events, the partition of a history by key, and the
  HTML page.
- The Raft tester's `wait`, `checkOneLeader`, `checkTerms` and `checkNoLeader`,
  which ask Raft for terms and leaders, the retry of `one`, and its statistics.
- The k/v tester's time limits and counts of operations and bytes.
- What Lab1's client prints, asks and saves on its own disk.
