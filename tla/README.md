# Verification of singa-web

TLA+ specifications, TLC configurations and TLAPS proofs for this fork of the
SINGA distributed deep-learning system: training with parameter servers, its
cluster runtime, and the web front end that runs trained models.

## 1. The system

A job runs as several processes. Each process has a *stub* (the main thread, in
`Trainer::Run`), and *worker* and *server* threads. Workers form worker groups,
servers form server groups; several worker groups subscribe to one server group.
Threads talk to the stub through ZeroMQ dealers, stubs talk to one another, and
ZooKeeper holds the membership.

| Component | State | Operations | Interaction |
|---|---|---|---|
| Worker (`worker.cc.org`; `worker.cc` is the inference variant) | `step_`, nets, `local_version_` and gradient of each Param | `InitLocalParams`, `TrainOneBatch` (`Forward`, `Backward`), `Put/Get/Update/Collect`, `Checkpoint`, stop | messages to the stub; reads the data blob the stub writes |
| Stub (`trainer.cc`) | `worker_shard_` of `ParamEntry`, message queue, dealers to other processes | `HandlePut/Get/Update`, `Handle*Response`, forwarding, sync reminders, stop | merges the requests of its workers; writes replies into shared blobs |
| Server (`server.cc`) | `shard_`, `buffer_requests_`, `last_data_`, `running` | `HandlePut/Get/Update/SyncRequest`, `GenSyncMsgs`, re-queue | answers stubs; syncs with other server groups; stopped by a ZooKeeper callback |
| Param, ParamEntry (`param.cc`) | versions, slices, pending marks, counters | `Gen*Msg`, `Handle*Msg`, `Parse*` | used by all three above |
| Cluster runtime (`cluster_rt.cc`) | ZooKeeper nodes | `RegistProc`, `WatchSGroup`, `Join/LeaveSGroup`, `JobManager` | callbacks from the ZooKeeper thread |
| Cluster, addresses (`cluster.cc`, `msg.h`) | topology | `Hash`, `ProcsIDOf`, `Addr`, `ParamTrgt` | routing |
| Slicing (`common.cc`, `SliceParams`) | none | `Slice`, `PartitionSlices` | decides which server keeps what |
| Router, Dealer (`socket.cc`) | connection table, buffered messages | `Send`, `Receive` | transport |
| Data shards (`data_shard.cc`) | file, buffer, keys | `Insert`, `Flush`, `Next`, `Count`, open for append | written by tools, read by data layers |
| Neural net graph (`neuralnet.cc`, `graph.cc`) | layers and edges | `Create`, partitioning, `Sort` | built before training |
| Inference and web (`layer.cc`, `singaserver.py`) | `input.dat`, `output.dat`, `flag.dat`, job list | upload, compute, poll, submit, kill | through files |
| Metrics, updaters, layers, tensors | numbers | arithmetic | - |

What is hard here: three kinds of threads per process and several processes
interleave; a parameter is cut into slices that different servers update and
answer separately; the stub merges requests by counting; workers wait by polling
a version that another thread publishes; requests can overtake the message that
makes them valid and are re-queued; a fixed sleep stands for an event; restarts
mix versions from files with steps from the configuration. Section 6 says what
each component still lacks; `hazards` in `PROJECT.json` lists each danger at its
line.

What makes each component correct:
* workers, stub, servers, Param: every update sums exactly the gradients it
  should; a worker reads whole snapshots; nobody waits for a version that never
  comes; checkpoints hold what they say; nothing fatal happens;
* server groups: updates are neither lost nor added twice by synchronization;
* cluster runtime: servers stop exactly when all workers of theirs have left;
  process ids are unique; jobs in use are not cleaned away;
* topology: messages for a thread go to the process that runs it;
* slicing: the slices cover the parameters, every box is a server, boxes are
  balanced, the loops end;
* router, stub: between two threads messages arrive once and in order; the job ends;
* shards, prefetching: what was flushed survives a crash, and no later program adds
  it again; batches have the intact records in turn;
* graph: sources come first, nothing is lost when nodes are inserted;
* inference, web server: an answer belongs to the upload or nearly so; the
  progress shown is what the job printed; uploads are answered.

## 2. Modules

| Module | Content |
|---|---|
| `ParamServer` | workers, stubs and servers of one Param: state, one action per handler, properties |
| `SyncSGD` | what one worker group promises: synchronous SGD |
| `ParamServerInv` | the inductive invariant `IInv` of synchronous training |
| `MCParamServer` | the topologies used by the runs |
| `ParamServerSafety` | types; `IInv` is inductive, and the properties that follow; versions grow; `ParamServer` implements `SyncSGD`; several worker groups: updates do not mix groups, gradients stay in order |
| `ServerSync` | one slice exchanged among server groups |
| `ServerSyncProofs` | every update is in one place; rounds are paid for |
| `ServerGroup` | membership of a server group in ZooKeeper and the watch that stops the servers |
| `MCServerGroup` | the group used by the run |
| `ServerGroupProofs` | `GroupTypeCorrect`, `GroupStopsLast` |
| `Transport`, `MCTransport` | stubs, routers, dealers: start, connection, dispatch, forwarding, stop |
| `FifoNet` | what `Transport` promises: a FIFO channel between any two threads or stubs |
| `TransportProofs` | a stub ends with nothing unsent; `Transport` implements `FifoNet` |
| `JobRegistry`, `MCJobRegistry` | job ids, registration of processes, the job tools, in ZooKeeper |
| `JobRegistryProofs` | ids, endpoints and the removal of old jobs |
| `DataShard` | the shard file and the programs that write it |
| `DataPipeline`, `MCDataPipeline` | reading the shard: buffer, data layer, prefetch thread, forward pass; extends `DataShard` |
| `DataPipelineProofs` | the shard keeps what was flushed, later programs do not add it again; batches have its intact records in turn |
| `Checkpoint` | checkpoint files of several workers, and `Resume` |
| `Topology` | processes, workers, servers: pure functions of the cluster configuration |
| `NetGraph` | from the configured layers to the sorted graph of nodes |
| `Slicing` | cutting parameters, assigning slices to server groups and servers |
| `Setup`, `MCSetup` | composes the three: `Trainer::SetupWorkerServer` |
| `SetupProofs` | threads are placed; the net is sorted and keeps its connections; slices cover the parameters and are spread evenly |
| `Inference` | inference workers and `input.dat`, `output.dat`, `flag.dat` |
| `WebServer`, `MCWebServer` | `singaserver.py` with its jobs and their pipes; composes `Inference` |
| `WebServerProofs` | logs and lines of jobs; the age of an answer |

`Setup`, `DataPipeline` and `WebServer` are compositions. The modules of training
proper meet in the code, not in a composed specification: `ServerSync` takes over
where `ParamServer` ends (its `HandleUpdate` is the whole update round of one
server group), `ServerGroup` keeps of training only which answer a worker waits
for, and `Transport` only how many messages a request causes. `ParamServer` relies
on what `FifoNet` states, and shows more: it lets replies and requests of
different slices overtake each other.

### `ParamServer`

One *entry* is a process with workers of one group, with the `ParamEntry` of its
stub; the data blob of the entry (`version`, `data`) is shared by its workers.
Servers are in processes of their own, so values travel as copies
(`share_memory` between a server and a worker of the same process is left out).
Values are abstracted to what the properties tell apart: a slice's value is the
number of updates it contains, a gradient is (worker, step, number of updates in
the slice it was computed from), and `log[s]` remembers which gradients every
update of slice `s` summed.

| Action | Code |
|---|---|
| `InitLocalParams`, `Put`, `Get` | `Worker::InitLocalParams` cut where other threads can see the difference: fill the blob, warm up, put, sleep, get |
| `Forward`, `Backward` | `BPWorker::Forward` (wait in `Collect`, read the blob), `Backward` and `Worker::Update` |
| `Checkpoint`, `Stop` | the periodic and the final checkpoint of `Worker::Run`, and the stop message |
| `StubHandlePut/Get/Update/Stop` | `Trainer::HandlePut/Get/Update`, the `kStop` branch of `Trainer::Run` |
| `HandleGetResponse`, `HandleUpdateResponse` | the functions of the same names, with `Param::Parse*ResponseMsg` |
| `ServerHandlePut/Get/Update` | `Server::HandlePut/Get/Update`; a request the server re-queues stays in `requests` |

A failed `CHECK` or a `LOG(FATAL)` sets `status` to "fatal", after which nothing
moves. The training code is that of `worker.cc.org`: `worker.cc`, which the
Makefile builds, is the same file with the training loop replaced by the
inference loop, so shared functions are mapped to `worker.cc` and the training
loop to `worker.cc.org`.

### `ServerSync`

A copy of the slice is a formal sum: for every update, and for every group's
initial value, how often it is contained. `HandlePut` and `HandleUpdate` are the
server's handlers seen from one slice; `SyncReminder` is the reminder branch of
`Server::Run` with `GenSyncMsgs`; `HandleSyncRequest` is split by its branches
into `AnswerSync` (bandwidth left), `KeepSync` (none left) and `HandleAnswer` (at
the master). Bandwidth depends on the clock and is a free choice. A request that
comes before the slice is put goes back to the end of the queue (`Requeue`).
`GenSyncMsgs` assumes one server per group, and so does the module. Updates
happen one after the other in the server thread, so every handler is one action.

### `ServerGroup`

`group_node`, `children`, `watch` and `event` are ZooKeeper's (external): a watch
fires once, at the next change of the child list, and the event reaches the
process later. `CreateGroupNode` and `WatchSGroup` are the two requests of
`ZKClusterRT::WatchSGroup`; `ChildChanges` is the callback, which reads the list
and sets the next watch in one request and then stops the server if the list was
empty; `CheckRunning`, `PollTimeout` and `HandleUpdate` are the loop of
`Server::Run`. `JoinSGroup` and `JoinRetry` are the loop of `CreateNode` for a
worker, which ends in `LOG(FATAL)`; `LeaveSGroup` ends the worker. Lost
connections and expired sessions are left out.

### `Transport`

One action per turn of a loop: `Start` (bind and register), the receipt of a
message from one dealer, the handling of the head of `msg_queue` (to a thread of
the process through `Router::Send`, to another process through a dealer that is
opened on first use, or in the stub itself), `PollTimeout` with its sync reminder,
and of the threads the first `kConnect`, requests, replies, and `kStop`. A worker
leaves its server group (`WorkerLeave`) before it says `kStop`, and a server stops when
the workers of its own server group have left, whatever the others do. The turn of
the reminders is taken modulo the servers that have not stopped, `nservers`, which
can be zero: the stub then is "crashed". The
router's table, its buffer and the counter `nBufmsg_`, which restarts only when the
buffer is empty, are those of the code. ZeroMQ links are queues that lose nothing;
opening a dealer blocks until the other process has published its endpoint, as
`GetProcHost` does. `ImplementsFifoNet` maps all places a message can be in between
two threads to one queue.

### `JobRegistry`

Every ZooKeeper request about a node of a job is one step. `singa-run.sh` is
`GenerateJobID`, then `StartProcess` host by host in any order (it does so in the
background); a process is `CreateNode` three times, `CreateLock`, `ReadLocks` (the
process id is the position of the own lock) and `Publish`. `singatool` is `ListJobs`,
`ListNext` and, for what it removes, `Clean` or `Cleanup`, the calls of the recursive
`CleanPath`: `tool.stack` holds the calls under way with the children each has still to
clean, `CleanPath` reads the children of the next one, `DeleteNode` is its last
request, and a node that has gone, or has a child again, ends the tool. `CleanLeaf` does
both requests for a node that never has children. `singa-stop.sh` is `KillHost` on one
host after the other, which does not reach a `singa-run.sh` that is still starting
processes, then `Cleanup`. A process crashes at any point, and its ephemeral nodes go
later (`Expire`).

One `singatool` lists or cleans at a time; children are taken in ascending order below
the jobs and in any order above, where `/singa`, `sys` and `app` are created and removed
with what is below them. `OwnEndpoint` and `AllRegister` are about undisturbed jobs, in
which no process has crashed or been cleaned up: a process restarted alone can get an
id in use, as its old lock counts until the session expires, and the code has nothing
against it.

### `DataShard` and `DataPipeline`

A file is a sequence of cells, one for a length field and one for each unit of a
key or value, so that a crash can cut it anywhere and a read can end anywhere. The
reader's buffer is smaller than two records, which puts every field on its
boundary. `ThreadStep` is the prefetch thread, `MainStep` the training thread; they
share `records` and `data`. A record is text whose cells, taken for a length, are
too large for any file. `PrepareForAppend` reads such a length as that of a key: it
reads into `buf[256]` and writes `buf[len]` before it checks the stream, and what
follows is undefined: the program dies (`OpenAppendOverrun`) or the check ends the loop
(`OpenAppend`). `Insert` looks a key up among those found in the file and does not add it,
so one program may write a key again. `Flush` is two steps, and a crash between them, like any crash,
leaves a first part of what was given to `write`.

### `Checkpoint`

`OpenCheckpoint`, `WriteCheckpoint` and `TrainOneBatch` of every worker, the end of
the job at any point, and `Resume` entry by entry in any order. What follows the
null pointer of the dot entries is a free choice. `CheckpointNow` has the conditions of
`checkpoint_freq` and `checkpoint_after`.

### `Topology`, `NetGraph`, `Slicing`, `Setup`

`Topology` has the table `procs_ids_` as the constructor fills it, one hash for
workers and servers, and from the other side the threads `CreateServers` and
`CreateWorkers` make of a process id, none where the `CHECK_EQ` of `CreateWorkers`
fails. In `NetGraph` a node is its kind, layer,
partition and the connection it was made for; a graph is the list of nodes and the
list of edges in the order of their addition, which gives the order of `srcnodes`
and `dstnodes`. `Visit` is a turn of the loop of `Graph::Sort`. In `Slicing`,
`Slice` and `AssignSlice` are turns of the loops of `Slice` and `PartitionSlices`.

### `Inference` and `WebServer`

A content is the number of the upload it comes from. Both files are smaller than a
stream's buffer: they are empty from open to close. A worker that has opened
`output.dat` goes on writing to it when the web server has removed the name
(`linked`). The web server is one thread; `web` says in which handler it waits. A
job writes to a pipe of `PipeSize` lines that only polls read; `replied` remembers what
the polls of a job have returned. Jobs of kind "train" run the loop of `worker.cc.org`
and print a line per step (`Trainer::DisplayMetric`); the loop of `worker.cc`, which the
Makefile builds, prints none for any job: "test" jobs run that one.

Next to some definitions stands a faulty variant (`CollectedAtOnce`,
`PutByAll`, ...). No specification uses them; replacing the definition by its
variant makes a property fail, which shows that the property can.

## 3. Runs

| Run | Instance | Shows |
|---|---|---|
| `sync` | 4 workers in 3 processes, 2 slices, 3 steps, checkpoints, fair | no CHECK fails, snapshot reads, exact aggregation, no lost wakeup, exact periodic checkpoints, `IInv` (types included), versions grow in whatever order slices are answered, refinement of `SyncSGD`, termination |
| `async` | 2 groups of 1 worker, 1 slice, 3 steps resumed at step 1, fair | groups do not mix, gradients stay in order, termination |
| `mixed_groups` (violation) | 2 groups that span 2 processes each | an update sums halves of two groups |
| `exchange` | 3 server groups, 5 updates in each | nothing lost, nothing counted twice, the master keeps what it has, rounds do not feed themselves |
| `group_sync` | 3 workers in one group, 2 servers that each keep a slice, 2 steps, fair | servers stop after the last worker; everybody stops unless a worker gave up joining |
| `transport` | 2 processes, 2 server groups of 1 server and 1 worker, the second with 2 requests to the other process, a reminder, buffer of 3, fair | refinement of `FifoNet`, a stub ends with nothing unsent, the job ends or a stub dies of the remainder by zero |
| `registry` | 2 launches with 2 and 1 processes on 2 hosts; crashes, `singatool` and `singa-stop.sh`; fair processes | own ids and endpoints, live jobs share an id only after a late start, recent jobs stay, all ids get an endpoint |
| `shard` | 2 keys, up to 3 writing programs of up to 2 inserts that crash anywhere, reader's buffer of 4 cells, 3 batches of 2 | flushed records stay reachable, no later program adds them again, batches have the intact records in turn |
| `resume` (violation) | 2 workers, 2 steps, a checkpoint after each | `Resume` dies at the entry `.` |
| `setup` | 155 rows of 1 to 3 parameters on 1 to 2 groups of 1 to 4 servers; 162 nets of 5 layers in all partitionings; an RBM; 648 cluster configurations; fair | nodes behind their sources, inputs kept but for forgotten edges, slices cover, boxes are balanced, no CHECK fails below ten boxes, messages go where servers and unreplaced workers are, set-up ends |
| `slice_boxes` (violation) | 4 servers, 4 parameters | a slice is given to a fifth server |
| `web` | four pictures for one inference worker; two for two; or two jobs of two lines with other requests; fair | how old an answer is, replies, logs and progress agree until an upload under the id, each line once, uploads of pictures are answered, `flag.dat` stops workers |

*What the properties leave open*, each time because the code does:

* `async` has one slice and groups within one process. With two groups and two
  slices, the version a blob gets is that of the slice that answered last; as both
  groups count in it, the version may equal `local_version` although all slices
  have answered, and `Collect` waits for ever; with three groups the version may even go
  back, which is why `VersionNeverRegresses` is about one group. `mixed_groups` shows what
  happens when groups span processes.
* `sync` and `async` take the one-second sleep to cover initialization
  (`SleepCoversInit`). If the owner is slower, replies to Get and Update share one
  pending counter and `Collect` returns with slices unanswered.
* With two warmup steps or more and server-side updates, the second waits for an
  update of a slice that is put only afterwards. The last checkpoint of a job is
  not preceded by `CollectAll` and may mix two versions; `PeriodicCheckpointExact`
  is about the others.
* `group_sync` has one worker group, and a slice in every server. With two worker
  groups the list of children may be empty between them and the server stops
  early; a server without slices can set its watch after the last worker has left,
  and polls for ever.
* `transport`, `AllEnd`: with several server groups a poll timeout computes a remainder by
  `nservers`, which counts down as the servers of the process stop. They stop when
  the workers of their own groups have left, so a process with a server, whose group is
  done, and a worker of another group dies at the next timeout; so does one that has no
  server, and one whose worker is between `LeaveSGroup` and `kStop`. The
  run reaches this; `AllEnd` says that nothing else keeps a job from ending.
* `registry`, `JobIdsDiffer`: `singa-stop.sh` kills `singa` and `singatool`, not the shell of a
  `singa-run.sh` that has taken its id. The processes that one starts behind the kill on
  their host survive, and when the counter of ids has been reset a later launch gets their id,
  although `singa-run.sh:74` says "generate unique job id". The property says that live
  launches share an id in no other way (`late`).
* `transport`: `nBufmsg_` counts messages that have
  been sent on, until the buffer is empty, so `BufSize` is what the traffic of the
  instance can add up to, not what is buffered at once.
* `shard`: a tuple whose value was cut by a crash survives the append that
  follows (`seekg` past the end of a file does not fail): its key counts as
  present and its value reads as zeros up to its length. Readers deliver it in its turn,
  although `data_shard.h` says that incomplete tuples are removed (lines 22 and 58) or
  not returned (line 121). `BatchesInOrder` says nothing of what is read there; the intact
  records before and behind it are delivered in their turn, and a flushed one is never
  affected. A key that one program inserts twice is written twice, although
  `data_shard.h:76` and `:84` say that `Insert` returns false; `NoReplicatedRecord` is
  about the records of earlier programs.
* `setup`, `ConnectionsKept`: from dimension 1 to 1 with all neurons connected
  (`neuralnet.cc:341`) no edge is added, although `base_layer.h:105` says that these neurons
  depend on all neurons of the source. `Needed` has the connections; `Forgotten` excepts
  these sources. Between dimensions 0 and 1 an inner variable hides the
  destination nodes and an empty vector is read: the net crashes. A layer with two
  sources that each need a concatenation or a slice gets two nodes of one name, of
  which `CreateNetFromGraph` keeps one. Bridges are never inserted, because the
  partition of the source is compared with itself (`NeedsBridge`). An RBM whose
  hidden layer is the first source of the visible one, or whose visible layer needs
  a split, is never sorted to the end.
* `setup`, `Balanced` and `SetupEnds`: a full box takes any number of slices up to
  a tenth of its size; a total below the square of the number of boxes may leave a
  slice larger than a box, for which boxes are opened for ever. `NoFatal` of
  `Slicing` holds for up to eleven boxes; with twelve, parameters of eleven times 901,
  926 and 1163 make the assertion fail.
* `setup`, `Placed`: numbers per process that divide neither the group nor the
  other way round, and more servers per process than per group, put threads where
  the table does not (`Regular`). A worker whose hash a server has, as can be when there
  are more workers than servers, has lost its entry in the table to the server: what is
  sent to it goes to the server's process (`Replaced`). For messages about parameters
  this takes more than twice as many workers as servers.
* `web`, `AnswerIsRecent`: an answer can be one picture older than the picture
  answered before, as the worker may hold an input from before the wait. While the
  worker has `output.dat` open the empty file is returned as a success. Two workers
  in one workspace void it. An upload under the id of a job that
  still runs deletes its log and its progress, and later polls of it fail: `LogIsKept`
  says so. A poll of a job that prints no `step-` line, and with the built `worker.cc`
  that is every job, keeps the only thread until the job ends, so that a poll ends is
  not claimed; `UploadEnds` is about uploads alone. Images are returned to whichever job is
  polled. A worker that waits for its
  first `input.dat` does not see `flag.dat`.

*Bounds.* In `sync`, two slices are what it takes for replies to be partial; two
workers in the owner's process make the stub merge, and a second and third process
make the server merge and need a Get. Three steps let messages of one round meet the
next and the one after; a worker can never be two rounds ahead. Two groups is the
least that share a server. `TrainSteps` bounds every counter. In `exchange`,
`MaxUpdates` bounds every group's updates: a round takes three increments of the
master, so five updates and one answer start a second round while another group has
not answered the first, and two requests can be re-queued past each other; three
groups is the least in which two answers meet at the master. In `group_sync`, two
steps are what makes a worker depend on all others before it can leave, and
`NumRetry` = 2 gives both a retry that helps and one that gives up. In `transport`,
two requests let an answer to the first meet the second, the server asked is in the
other process and may connect late, and the other group, done at once, stops the server
beside the worker that goes on. In `registry` two
processes race for ids while the other launch is listed away or stopped; `MaxEvents` = 2
allows two crashes or uses of `singatool`, or one `singa-stop.sh`; three
writing sessions in `shard` are a crash, an append that crashes, and an append. In
`setup` the sizes 1, 7, 19, 23 and 65 fall on both sides of a tenth and of a whole
box for every number of boxes; the layers of a net are configured from the last to
the first, the worst order for the sort. `MaxBox` caps `boxid`, which no
property of `setup` reads beyond it. In `web` the three kinds of load are
chosen in the initial state; four pictures are the least in which an answer could be
two too old. No symmetry is used: the owner, process ids and sizes break it.

*Fairness.* Every thread runs a loop that always takes the next message or polls
again, and a re-queued request comes round again, so all handlers are weakly
fair, per worker and per (entry, slice). Nothing is assumed about the order. In
`ServerGroup` the threads are weakly fair, and so is the delivery of an event,
which ZooKeeper guarantees for a live session. In `Transport` stubs and threads
are weakly fair, timeouts are not. In `JobRegistry` processes, and `singa-run.sh`
once it has its id, are, crashes and tools are not. `Setup` is sequential: its next step is weakly fair. In `WebServer` the
server's thread and the inference workers are; requests, images, the flag and the lines
of a job are not, as training may hang and the built worker prints none.
`exchange` and `shard` need none.

*Deadlock* is checked except in `registry`, `web` and `resume`, where launches,
requests and training end when their bounds are reached and nothing need follow.

## 4. Proofs

Theorems hold for every value of the constants; each names the assumptions it
makes on top of the `ASSUME`s of the modules.

| Module | Theorems | Under |
|---|---|---|
| `ParamServerSafety` | `TypeCorrect` | - |
| | `SyncInvariant` (`IInv`), `SyncNeverFatal`, `SyncSnapshotReads`, `SyncExactAggregation`, `SyncCheckpointExact`, `SyncNoLostWakeup`, `SyncVersionGrows`, `SyncRefinement` | `SyncJob` |
| | `AsyncOneGroup` (`OneGroupPerUpdate`) | `AsyncJob` |
| | `WarmGradientsInOrder` (`GradientsInOrder`) | `WarmJob` |
| `ServerSyncProofs` | `SyncTypeOK`, `SyncOnePlace`, `SyncCountsOnce` (`NoDoubleCount`), `SyncLosesNothing` (`NothingLost`), `SyncMasterKeeps`, `SyncRoundsArePaid` (`RoundsArePaidFor`) | - |
| `ServerGroupProofs` | `GroupTypeCorrect`, `GroupStopsLast` | `SyncGroup` |
| `TransportProofs` | `TransportInv`, `TransportNothingUnsent`, `TransportImplementsFifoNet` (`ImplementsFifoNet`) | - |
| `JobRegistryProofs` | `RegistryInv`, `RegistryIdsDiffer`, `RegistryOwnEndpoint`, `RegistryRecentStay` | - |
| `SetupProofs` | `SetupPlaced` (`Placed`), `SetupSourcesFirst`, `SetupConnectionsKept`, `SetupSlicesCover`, `SetupNoFatal`, `SetupBalanced` | - |
| `DataPipelineProofs` | `ShardFlushedStays`, `ShardNoReplicatedRecord`, `PipelineBatchesInOrder` | - |
| `WebServerProofs` | `WebLogIsKept`, `WebLinesOnce` (`EachLineOnce`), `WebAnswerIsRecent` | - |

### Synchronous training

`SyncJob`: one worker group, no warmup steps beyond the first step, the filled
version equals the first step, the sleep covers initialization. Each conjunct is
needed: section 3 says what happens with several worker groups, with more warmup
steps, or if the sleep is too short. A blob filled with a version ahead of the
first step (a checkpoint of asynchronous training, resumed) makes the first
answers look old. The final checkpoint is outside `PeriodicCheckpointExact`.

Everything is relative to `version[e]`, the round entry `e` is in. A worker has
sent its update of the round iff its step is one ahead (`WorkerOK`); its stub has
passed the sum on iff a slice is pending (`StubOK`: `num_update` counts exactly
the workers whose message was taken, and all of them once a slice is pending); a
slice has `version[e] - Step0` updates, or one more once it has been answered
(`LagOK`); what is in flight is exactly the one message the round calls for
(`UpdateRequestOK`, `BufferOK`, `UpdateReplyOK`); the server's counter is the
number of workers behind the buffered requests (`ServerOK`). None of the
properties is inductive alone: exact aggregation needs that a request's gradients
were computed in its round, which needs that no worker overwrites its gradient
before the stub has read it, which needs that Collect waits for all slices, which
needs the counting of pending replies.

### Several worker groups

`AsyncJob`: every group lives in one process, and all groups have as many workers.
Then a stub passes on a gradient sum only when it has all shares, so a request
completes an update by itself and nothing is ever buffered (`WholeRequests`): the
server's counter, which does not know groups, cannot mix them. Run `mixed_groups`
shows the violation when groups span processes.

`WarmJob`: warmup is over at the first step, the filled version is not below it, and
the sleep covers initialization. Groups may share servers, be of any number and span
processes, the case of `mixed_groups` included. The version of a blob may jump, as
all groups count in it, so there is no round the whole job is in; the argument is
local. For one entry and slice there is one message or mark at a time among request,
buffer, reply and pending count (`OneMessage`), and every entry is in a round `k` of
its own (`RoundOK`): gradients of its workers in the slice's log are older than
`k`, what is on its way is of step `k`, and its workers are at step `k` or `k + 1`.

### Server groups

`OnePlace` splits what a group has made into three parts: not yet sent
(`Unsents`), in one of its answers (`Answers`), at the master (`AtMaster`). They
are apart (`Apart`), nothing is outside them (`Somewhere`), and what the master
hands out (`Requests`) or a group remembers as handed out (`Remembered`) is apart
from what the group has to send. The last one is why a request answered late, or
kept while the group goes on updating, does not add anything twice. For
`RoundsArePaidFor`, `Paid` counts: a round brings the master at most one answer
from each other group, and costs one increment for every group.

`SyncGroup`: one worker group, at least two steps. The watch only says that the list
is empty now; that everybody has been in it comes from training. `MemberInv`: a
worker is in the list iff it trains, and one that has left has made two steps.
`AnswerInv`: no worker is more than one step ahead of an answer, no answer ahead of a
worker. `EventInv`: an event means that somebody joined. So when the list is read
empty, somebody has left after two steps, which took an answer to the first, which
took the first step of every worker; none is before joining, none is in the list:
all have left.

### Messages

`ProcOK` is about one process and speaks only of its own stub, links and threads, so
that a step of another process, which can at most add to a link between stubs, leaves
it alone. `SourceOK`: a link from a thread carries only that thread's messages, and
its `kStop` is the last of it. `StopOK`: a `kStop` is taken into an empty queue and
alone there, because requests, which are the only messages that multiply, are handled
before the next is taken. `CountOK`: the two counters are the numbers of workers and
servers whose `kStop` has not been handled (`Unstopped`). `KnownOK`: a thread that has
said something is known to the router or has the message still on its link, and nothing
is buffered for a known thread. When the counters reach zero all threads are done,
their links are empty, and so is the buffer.

`TransportImplementsFifoNet` is a proof of refinement, step by step. The channel from `a`
to `b` is a concatenation of parts (`Route`, `Path`): what of their messages (`Between`) is
at the receiver, in the queue of its stub, between the two stubs and at the sender.
`RoutesOK` says that a message is only where its two ends allow it: a link carries what
its owner may send, a queue what comes from or goes to its process, the buffer of a router
nothing for a thread of another process. With it every action moves the one message it
touches from the front of a part to the end of the next (`RouteReceive`, `RouteForward`,
`RouteDeliver`), which the network does not see; or to the end of a path (`RouteSend`,
`RouteRemind`, `RouteQueued`) or off its front (`RouteTake`, `RouteHandled`), a step of the
network. Two moves are safe only because of the rest of the invariant: the router may send
past its buffer as nothing is kept for a known thread (`KnownOK`), and a receipt may put a
message at the end of the queue as the stub receives only when its queue is empty.

### Registration

In an undisturbed job every process that has taken its lock still has it
(`LocksHeld`), every lock is of such a process and older than the next sequence number
(`LocksKnown`, `LocksDiffer`). Locks are only added behind those present, so the
position a process has read is the number of locks before its own, and stays it
(`Positions`): two processes with one position would have one lock. Endpoints follow
(`Endpoints`). A launch whose id another one still uses is disturbed from the start
(`Ids`). `RecentJobsStay` needs of the stale list only
that it is ascending and that the jobs behind the current one are still there: jobs go
in the order of the list, and all that the stack of calls will remove is of the current
one (`ToolOK`, `StackOK`, `ListOK`). `RegistryIdsDiffer` needs the history of the kills
(`StopOK`): ids given out since the last reset differ, and a process that lives although
the kill under way has passed its host, or although its id is from before a reset, was
started late. A reset comes only from the `Cleanup` behind the last host.

### Set-up

`SetupPlaced` is arithmetic (lemma `TopologyAgrees`, for every configuration): a group's workers and servers are numbered in a
row, cut into processes by a division in the table and by multiplications in
`CreateWorkers` and `CreateServers`. The lemmas `Digits`, `Quotient`, `Segment` and
`WholeGroups` say which numbers fall into process `p` when a process is part of a
group and when it is several groups. `Regular` is a hypothesis of `Placed`, and what the
table has for a worker whose entry is replaced is left open; section 3 says what happens
there. `ServerEntry` and `WorkerEntry` are the table's side: what it has for a server, and for
a worker that is not replaced. Counts are positive (`Config`).

`SetupSourcesFirst` is `Spec => [](PairsOnly => SourcesFirst)`. `SortInv`: each node
was visitable when it was put in `order`, and `order` only grows. For a node of a
bidirectional pair the code waits for the first source only; `PairsOnly` says that the
others are fed by the node itself, as in an RBM. The nets of run `setup`, the RBM
included, satisfy it; a net with a third source of such a node may be sorted wrongly.

`SetupConnectionsKept` follows the graph through its rewriting. `IsFirst`: the first
graph has every node once, its edges join nodes of it, and a concate node has one
destination; with it every connection of the configured net is an edge, or a path
through slice and concate nodes (`Goes`). Splits put one more node on such a path and
nothing else, and `Delivers` is kept, for all sources but the forgotten ones (`Brought`). That nothing is lost needs what a list of edges
that was flattened, selected from and appended to contains; these lemmas come first.
`SetupSlicesCover` and `SetupNoFatal` rest on `SliceInv`: what is cut of the current
parameter and what is left of it are its size, and a closed box has less than a tenth
free (`Filled`). `SetupBalanced` on `BoxInv`: boxes behind the current one are empty,
the current one holds what it has lost unless it is full (`Filling`).

### Data shards

`Reached(f, n, w)` says that reading file `f` from the start comes to `w` behind `n`
tuples. Cells behind `w` do not matter to it (`ReachedStays`), and it is what a write at
`w` leaves alone (`WrittenAgree`). `ShardInv`: between programs (`Idle`) every flushed
tuple lies whole before the place where the next program appends. While one writes
(`Writing`) they lie before its put position, and the file with the cells not yet
flushed, were they all written, leads behind them and has the tuples placed (`Ahead`).
A crash writes any part of the cells, so of them nothing is claimed: the file it leaves
may go on behind the put position with a cut tuple or the rest of an older one. Flushed
tuples have their keys in `keys` or were placed by the program itself, hence no record
of an earlier program again (`NewOnly`). Keys, lengths, buffers and the number of programs are arbitrary; `ShardAssumption`
says that a tuple fits a buffer and that text taken for a length is larger than a buffer.

`PipelineBatchesInOrder` needs more of the file. The reader gives up at the first tuple
it cannot read whole, but a later call of `Next` goes on where it stopped, in the middle
of that tuple, and must not take what it finds there for a record. `Clean` says that it
cannot: behind a tuple that is cut, and behind the last, there is only text, which read
as a length asks for more than any buffer holds (`Text`, `Good`). A write keeps this
however much of it reaches the file (`Tidy`), since the program before can have left no
more than one cut tuple behind the put position; together with `ShardInv` that is
inductive (`CleanInv`).

`At(f, r, q)` relates the reader to the file: what it has left in its buffer are the
cells of `f` behind `q`, and it has read up to them. A refill and a step over a field keep it
(`RefillIs`, `PrepareIs`, `AdvanceIs`), and a field is ready exactly if it fits the
buffer and the file has it: so one `Next` gives the tuple at `q`, or fails and
leaves the reader where it will find nothing more (`NextIs`, `Lost`). `Before(f, w, r, n)`: `n`
of the records `w` have been read. `PipeInv` says, once all records to skip
are behind (`Fetching`), that what the forward pass has used, the batch it has in hand and
the records read so far follow each other in the order of the shard, counted
around its end, that a finished thread's parsed data are these records, and that the
reader is in front of the one that is due; before (`Skipping`), how far it has skipped.
`PipelineAssumption` asks for a reader's buffer that holds any key and any value, and
that is smaller than text taken for a length.

### Web server

`LogInv`: the records of a submitted job and its log file are what polls have replied,
and the log is gone with the entry (`LogOf`); the job's lines among the replies ascend and are those the pipe has handed over (`InOrder`), the pipe holds what is
printed and not read (`Pipes`), and a poll in progress is of a submitted job
(`Polled`). `AnswerInv` orders the numbers of uploads: with one worker (`Single`), what
is in `input.dat`, what the worker holds and what it has written cannot be two uploads
behind the reply that came before (`Files`, `Held`), because `output.dat` is removed
before an input is replaced and a worker that still writes to the removed file does so
without a name.

### Only model-checked

* Liveness (`Termination`, `AllStop`, `AllEnd`, `AllRegister`, `SetupEnds`,
  `UploadEnds`, `WorkersStop`): fairness and `ENABLED` are out of the prover's reach.
* All violations.

The induction theorems of the library take an operator, which the provers cannot
instantiate. `SetupProofs`, `DataPipelineProofs` and `TransportProofs` derive an induction over *sets* of
numbers (`Induction`, `InductionTo`) from the well-foundedness of `<` and, with it, that
recursive functions exist (`Recursion`). This is why sums, selections and offsets are
recursive functions: `Sum` of `Slicing`, `Keep` of `NetGraph`, `Offsets` of `DataShard`,
`Between` of `Transport`.
Further, `Sorted` of `JobRegistry` states what the sort returns, `EachLineOnce` speaks of
positions rather than of a filtered sequence, and `Setup` assumes of its inputs that they
are of `Config` and that a layer's sources are layers of the net.

## 5. What is left

All components with control of interest are modelled, and all safety invariants, action
properties and refinements the passing runs check are proved. The hypotheses of the theorems
are those without which the code does not have the property, as section 3 describes.

## 6. What is not modelled, and why

* *Training worker, stub*: contrastive divergence; reports; several Params at once
  (they share nothing but the queues); updates in the worker instead of the server.
  Bridge layers, which would pass blobs between workers, are never created (see
  `NeedsBridge`).
* *Parameter server*: memory shared between a server and a worker of one process;
  the averaging in `ParseUpdateMsgs` (floating point); which master slice the next
  reminder takes.
* *Cluster runtime*: lost ZooKeeper connections and expired sessions of live
  processes, which the code answers by ending the process.
* *Addresses*: the packing of group, id and type into one integer, and of Param and
  slice ids into 16 bits each.
* *Neural-net graph*: layers excluded from a phase, `share_from`, shapes.
* *Data layers*: the LMDB layer, what parsers compute from a record; keys of 256
  characters or more, which `PrepareForAppend` cannot hold.
* *Metrics*: sums and counts of floating-point numbers. `Metric::Reset` works on
  copies of the entries and so resets nothing: averages are over all steps.
* *Updaters, layers, tensors*: floating-point kernels without control of interest.
* *Launch scripts*: of them only what they do in ZooKeeper, in `JobRegistry`; the rest
  is ssh and host files. *Web pages, plotting and image tools*: presentation.
* *Vendored code* (mshadow, gtest, tinydir but for the entries it returns), which is
  most of the repository's lines.
