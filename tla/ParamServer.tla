----------------------------- MODULE ParamServer -----------------------------
(***************************************************************************)
(* The parameter-server protocol of one Param object: worker threads       *)
(* compute gradients, the stub (the main thread of every process) merges   *)
(* the requests of the workers of its process, and the servers keep one    *)
(* slice of the Param each.                                                *)
(*                                                                         *)
(*   worker --dealer--> stub --requests--> server --replies--> stub        *)
(*                                                                         *)
(* The stub writes the replies into the data blob that all workers of the  *)
(* process share; its version tells the workers that new values are in.    *)
(*                                                                         *)
(* A dealer is a FIFO queue.  Requests and replies are sets: they cross    *)
(* several sockets, slices live on different servers, and a server that    *)
(* cannot serve a request yet sends it back to its own router, behind      *)
(* whatever came later.  A re-queued request therefore simply stays in     *)
(* requests.  Servers live in processes of their own, so every message     *)
(* carries a copy of the values.                                           *)
(***************************************************************************)
EXTENDS Integers, Sequences, FiniteSets

CONSTANTS
  Worker,          \* worker threads
  Entry,           \* processes with workers, each with the ParamEntry of its group
  Group,           \* worker groups subscribed to the server group
  Slice,           \* slices of the Param
  entryOf,         \* entryOf[w]: the ParamEntry that w's Param belongs to
  grpOf,           \* grpOf[e]: the worker group of an entry
  Owner,           \* the worker whose Param is the owner, in the first group
  Step0,           \* ModelProto.step, the step training starts from
  InitVersion,     \* version the owner gives its Param when it fills it
  WarmupSteps,     \* ModelProto.warmup_steps
  TrainSteps,      \* ModelProto.train_steps
  CheckpointFrequency, CheckpointAfter,
  SleepCoversInit  \* TRUE: the owner is initialized within the 1s sleep

ASSUME TopologyAssumption ==
  /\ IsFiniteSet(Worker) /\ IsFiniteSet(Slice)
  /\ Slice # {}
  /\ entryOf \in [Worker -> Entry]
  /\ \A e \in Entry : \E w \in Worker : entryOf[w] = e
  /\ grpOf \in [Entry -> Group]
  /\ Owner \in Worker

ASSUME NumbersAssumption ==
  /\ Step0 \in Nat /\ InitVersion \in Nat
  /\ WarmupSteps \in Nat /\ TrainSteps \in Nat
  /\ CheckpointFrequency \in Nat /\ CheckpointAfter \in Nat

ASSUME SleepAssumption == SleepCoversInit \in BOOLEAN

VARIABLES
  \* worker threads
  pc,              \* where Worker::Run is
  step,            \* step_
  local_version,   \* Param::local_version_ of w's own Param object
  seen,            \* the values Forward read: update count of every slice
  grad,            \* the gradient in w's grad blob: its step and the values used
  dealer,          \* messages from w to its stub, oldest first
  checkpoint,      \* checkpoint files written by the owner
  \* the data blob shared by the workers of an entry
  version, data,
  \* the stub's ParamEntry, and the pending marks of its first share
  num_update, next_version, pending_get, pending_update, num_pending,
  nworkers,        \* local variable of Trainer::Run: workers still running
  \* messages between stubs and servers
  requests, replies,
  \* servers: ParamEntry, Param and buffered requests of every slice
  shard, num_total, server_num_update, server_version, server_local_version,
  buffer_requests,
  log,             \* the updates applied to a slice, each a set of gradients
  status           \* "fatal" once a CHECK failed or LOG(FATAL) was reached

workerVars == <<pc, step, local_version, seen, grad, checkpoint>>
blobVars   == <<version, data>>
stubVars   == <<num_update, next_version, pending_get, pending_update,
                num_pending, nworkers>>
serverVars == <<shard, num_total, server_num_update, server_version,
                server_local_version, buffer_requests, log>>
vars == <<workerVars, dealer, blobVars, stubVars, requests, replies,
          serverVars, status>>

(***************************************************************************)
(* Topology                                                                *)
(***************************************************************************)
\* The workers whose Param belongs to entry e (ParamEntry::shares).
Members(e) == {w \in Worker : entryOf[w] = e}

\* ParamEntry::num_local of a stub's entry.
NumLocal(e) == Cardinality(Members(e))

\* Faults: counting the shares of every group, or of the owner's process only.
NumTotalOfJob(g) == Cardinality(Worker)
NumTotalOfProcess(g) == NumLocal(entryOf[Owner])

\* ParamEntry::num_total of a stub's entry: the shares of the whole group.
NumTotal(g) == Cardinality({w \in Worker : grpOf[entryOf[w]] = g})

\* The first worker group subscribed to the server group fills the Param.
FirstGroup == grpOf[entryOf[Owner]]
InFirstGroup(w) == grpOf[entryOf[w]] = FirstGroup

\* The number of updates a slice's values contain; -1 before they are filled.
Values == [Slice -> Int]
Uninitialized == [s \in Slice |-> -1]
Filled == [s \in Slice |-> 0]

Gradient == [worker : Worker, step : Int, base : Int]
StubMsg == [type : {"kPut", "kGet", "kUpdate", "kStop"}, version : Int]
Request == [type : {"kPut", "kGet", "kUpdate"}, entry : Entry, slice : Slice,
            version : Int, num : Int, grads : SUBSET Gradient]
Reply == [type : {"kRGet", "kRUpdate"}, entry : Entry, slice : Slice,
          version : Int, value : Int]

Init ==
  /\ pc = [w \in Worker |-> "init"]
  /\ step = [w \in Worker |-> Step0]
  /\ local_version = [w \in Worker |-> -1]
  /\ seen = [w \in Worker |-> Uninitialized]
  /\ grad = [w \in Worker |-> [step |-> -1, base |-> Uninitialized]]
  /\ dealer = [w \in Worker |-> <<>>]
  /\ checkpoint = {}
  /\ version = [e \in Entry |-> -1]
  /\ data = [e \in Entry |-> Uninitialized]
  /\ num_update = [e \in Entry |-> 0]
  /\ next_version = [e \in Entry |-> -1]
  /\ pending_get = [e \in Entry |-> {}]
  /\ pending_update = [e \in Entry |-> {}]
  /\ num_pending = [e \in Entry |-> 0]
  /\ nworkers = [e \in Entry |-> NumLocal(e)]
  /\ requests = {}
  /\ replies = {}
  /\ shard = {}
  /\ num_total = [s \in Slice |-> 0]
  /\ server_num_update = [s \in Slice |-> 0]
  /\ server_version = [s \in Slice |-> -1]
  /\ server_local_version = [s \in Slice |-> -1]
  /\ buffer_requests = [s \in Slice |-> {}]
  /\ log = [s \in Slice |-> <<>>]
  /\ status = "running"

-----------------------------------------------------------------------------
(***************************************************************************)
(* Worker threads                                                          *)
(***************************************************************************)
SendToStub(w, type, v) ==
  dealer' = [dealer EXCEPT ![w] = Append(@, [type |-> type, version |-> v])]

StopNow(k) == k >= TrainSteps

CheckpointNow(w, k) ==
  /\ InFirstGroup(w)
  /\ CheckpointFrequency > 0
  /\ k >= CheckpointAfter
  /\ (k - CheckpointAfter) % CheckpointFrequency = 0

\* Fault: comparing with >= , which holds as soon as the update is sent.
CollectedAtOnce(w) == version[entryOf[w]] >= local_version[w]

\* Collect returns: the blob is newer than what the worker last updated.
Collected(w) == version[entryOf[w]] > local_version[w]

\* The owner of the first subscriber group fills the blob, from a checkpoint
\* file or at random; everybody sees the new version at once.
InitLocalParams(w) ==
  LET e == entryOf[w] IN
  /\ status = "running"
  /\ pc[w] = "init"
  /\ pc' = [pc EXCEPT ![w] = IF InFirstGroup(w) THEN "warmup" ELSE "get"]
  /\ IF w = Owner /\ version[e] < 0
     THEN /\ version' = [version EXCEPT ![e] = InitVersion]
          /\ data' = [data EXCEPT ![e] = Filled]
     ELSE UNCHANGED blobVars
  /\ UNCHANGED <<step, local_version, seen, grad, checkpoint, dealer, stubVars,
                 requests, replies, serverVars, status>>

\* Fault: every worker of the first group puts, whoever owns the Param.
PutByAll(w) ==
  /\ status = "running"
  /\ pc[w] = "warmup" /\ step[w] >= WarmupSteps
  /\ pc' = [pc EXCEPT ![w] = "get"]
  /\ SendToStub(w, "kPut", step[w])
  /\ UNCHANGED <<step, local_version, seen, grad, checkpoint, blobVars,
                 stubVars, requests, replies, serverVars, status>>

\* After warming up, the owner puts the Param to the servers.
Put(w) ==
  /\ status = "running"
  /\ pc[w] = "warmup" /\ step[w] >= WarmupSteps
  /\ pc' = [pc EXCEPT ![w] = "get"]
  /\ IF w = Owner THEN SendToStub(w, "kPut", step[w]) ELSE UNCHANGED dealer
  /\ UNCHANGED <<step, local_version, seen, grad, checkpoint, blobVars,
                 stubVars, requests, replies, serverVars, status>>

\* Faults: an unfilled blob (version -1) taken for a filled one, and a Get always sent.
GetOffByOne(w) ==
  LET e == entryOf[w] IN
  /\ status = "running"
  /\ pc[w] = "get"
  /\ SleepCoversInit /\ entryOf[Owner] = e => pc[Owner] # "init"
  /\ pc' = [pc EXCEPT ![w] = "train"]
  /\ IF version[e] >= -1
     THEN UNCHANGED dealer
     ELSE SendToStub(w, "kGet", WarmupSteps)
  /\ UNCHANGED <<step, local_version, seen, grad, checkpoint, blobVars,
                 stubVars, requests, replies, serverVars, status>>

GetAlways(w) ==
  LET e == entryOf[w] IN
  /\ status = "running"
  /\ pc[w] = "get"
  /\ SleepCoversInit /\ entryOf[Owner] = e => pc[Owner] # "init"
  /\ pc' = [pc EXCEPT ![w] = "train"]
  /\ SendToStub(w, "kGet", WarmupSteps)
  /\ UNCHANGED <<step, local_version, seen, grad, checkpoint, blobVars,
                 stubVars, requests, replies, serverVars, status>>

\* After a sleep meant to let the owner of the process initialize, a worker
\* asks for the Param unless the blob is new enough already.
Get(w) ==
  LET e == entryOf[w] IN
  /\ status = "running"
  /\ pc[w] = "get"
  /\ SleepCoversInit /\ entryOf[Owner] = e => pc[Owner] # "init"
  /\ pc' = [pc EXCEPT ![w] = "train"]
  /\ IF version[e] >= WarmupSteps
     THEN UNCHANGED dealer
     ELSE SendToStub(w, "kGet", WarmupSteps)
  /\ UNCHANGED <<step, local_version, seen, grad, checkpoint, blobVars,
                 stubVars, requests, replies, serverVars, status>>

\* The first half of TrainOneBatch: wait for the Param, then read it.
Forward(w) ==
  /\ status = "running"
  /\ \/ pc[w] = "warmup" /\ step[w] < WarmupSteps
     \/ pc[w] = "train" /\ ~StopNow(step[w]) /\ ~CheckpointNow(w, step[w])
     \/ pc[w] = "checkpointed"
  /\ Collected(w)
  /\ pc' = [pc EXCEPT ![w] = IF @ = "warmup" THEN "warmup_backward"
                                             ELSE "backward"]
  /\ seen' = [seen EXCEPT ![w] = data[entryOf[w]]]
  /\ UNCHANGED <<step, local_version, grad, checkpoint, dealer, blobVars,
                 stubVars, requests, replies, serverVars, status>>

\* The second half: compute the gradient and send the update (Worker::Update).
Backward(w) ==
  /\ status = "running"
  /\ pc[w] \in {"warmup_backward", "backward"}
  /\ grad' = [grad EXCEPT ![w] = [step |-> step[w], base |-> seen[w]]]
  /\ local_version' = [local_version EXCEPT ![w] = version[entryOf[w]]]
  /\ SendToStub(w, "kUpdate", step[w])
  /\ step' = [step EXCEPT ![w] = @ + 1]
  /\ pc' = [pc EXCEPT ![w] = IF @ = "backward" THEN "train" ELSE "warmup"]
  /\ UNCHANGED <<seen, checkpoint, blobVars, stubVars, requests, replies,
                 serverVars, status>>

\* The file written by the owner: step of its name, version and values.
CheckpointFile(w) == [step |-> step[w], version |-> version[entryOf[w]],
                      values |-> data[entryOf[w]]]
WriteCheckpoint(w) ==
  checkpoint' = IF w = Owner THEN checkpoint \cup {CheckpointFile(w)}
                             ELSE checkpoint

\* A periodic checkpoint: CollectAll, then Checkpoint, then train the step.
Checkpoint(w) ==
  /\ status = "running"
  /\ pc[w] = "train" /\ ~StopNow(step[w]) /\ CheckpointNow(w, step[w])
  /\ Collected(w)
  /\ WriteCheckpoint(w)
  /\ pc' = [pc EXCEPT ![w] = "checkpointed"]
  /\ UNCHANGED <<step, local_version, seen, grad, dealer, blobVars, stubVars,
                 requests, replies, serverVars, status>>

\* The end of Run: the model is saved without waiting for the last update, and
\* the stub is told.
Stop(w) ==
  /\ status = "running"
  /\ pc[w] = "train" /\ StopNow(step[w])
  /\ WriteCheckpoint(w)
  /\ SendToStub(w, "kStop", 0)
  /\ pc' = [pc EXCEPT ![w] = "stop"]
  /\ UNCHANGED <<step, local_version, seen, grad, blobVars, stubVars, requests,
                 replies, serverVars, status>>

-----------------------------------------------------------------------------
(***************************************************************************)
(* Stub                                                                    *)
(***************************************************************************)
\* The stub takes the oldest message of w's dealer.
Receive(w, type) ==
  /\ dealer[w] # <<>> /\ Head(dealer[w]).type = type
  /\ dealer' = [dealer EXCEPT ![w] = Tail(@)]

\* One message per slice, to the server that keeps the slice.
GenMsgs(type, e, v, num, grads) ==
  {[type |-> type, entry |-> e, slice |-> s, version |-> v, num |-> num,
    grads |-> grads[s]] : s \in Slice}

NoGrads == [s \in Slice |-> {}]

StubHandlePut(w) ==
  LET e == entryOf[w] IN
  /\ status = "running"
  /\ Receive(w, "kPut")
  /\ requests' = requests \cup GenMsgs("kPut", e, Head(dealer[w]).version,
                                       NumTotal(grpOf[e]), NoGrads)
  /\ UNCHANGED <<workerVars, blobVars, stubVars, replies, serverVars, status>>

\* Get requests of the workers of an entry are merged into one.
StubHandleGet(w) ==
  LET e == entryOf[w]
      v == Head(dealer[w]).version
  IN
  /\ status = "running"
  /\ Receive(w, "kGet")
  /\ IF v > next_version[e]
     THEN /\ next_version' = [next_version EXCEPT ![e] = v]
          /\ requests' = requests \cup GenMsgs("kGet", e, v, 0, NoGrads)
          /\ pending_get' = [pending_get EXCEPT ![e] = Slice]
          /\ num_pending' = [num_pending EXCEPT ![e] = @ + Cardinality(Slice)]
     ELSE UNCHANGED <<next_version, requests, pending_get, num_pending>>
  /\ UNCHANGED <<workerVars, blobVars, num_update, pending_update, nworkers,
                 replies, serverVars, status>>

\* Fault: the sum leaves the owner's gradient out.
LocalGradsOfOthers(e) ==
  [s \in Slice |->
    {[worker |-> w, step |-> grad[w].step, base |-> grad[w].base[s]] :
       w \in Members(e) \ {Owner}}]

\* The gradients of the entry's workers, slice by slice.
LocalGrads(e) ==
  [s \in Slice |->
    {[worker |-> w, step |-> grad[w].step, base |-> grad[w].base[s]] :
       w \in Members(e)}]

\* Once every local worker has asked for an update, the gradients are summed
\* and sent to the servers.
StubHandleUpdate(w) ==
  LET e == entryOf[w] IN
  /\ status = "running"
  /\ Receive(w, "kUpdate")
  /\ IF num_update[e] + 1 >= NumLocal(e)
     THEN /\ requests' = requests \cup
               GenMsgs("kUpdate", e, Head(dealer[w]).version, NumLocal(e),
                       LocalGrads(e))
          /\ pending_update' = [pending_update EXCEPT ![e] = Slice]
          /\ num_pending' = [num_pending EXCEPT ![e] = @ + Cardinality(Slice)]
          /\ num_update' = [num_update EXCEPT ![e] = 0]
     ELSE /\ num_update' = [num_update EXCEPT ![e] = @ + 1]
          /\ UNCHANGED <<requests, pending_update, num_pending>>
  /\ UNCHANGED <<workerVars, blobVars, next_version, pending_get, nworkers,
                 replies, serverVars, status>>

\* The stub of a process without servers leaves its loop with the last worker;
\* what has not been answered then never is.
StubHandleStop(w) ==
  /\ status = "running"
  /\ Receive(w, "kStop")
  /\ nworkers' = [nworkers EXCEPT ![entryOf[w]] = @ - 1]
  /\ UNCHANGED <<workerVars, blobVars, num_update, next_version, pending_get,
                 pending_update, num_pending, requests, replies, serverVars,
                 status>>

StubRunning(e) == nworkers[e] # 0

\* Fault: publishing the version with the first slice that arrives.
ParseResponseAtOnce(r) ==
  /\ data' = [data EXCEPT ![r.entry][r.slice] = r.value]
  /\ num_pending' = [num_pending EXCEPT ![r.entry] = @ - 1]
  /\ version' = [version EXCEPT ![r.entry] = r.version]

\* Copy the values of a reply into the blob; when the count of pending
\* requests is a multiple of the number of slices, publish the version.
ParseResponse(r) ==
  LET e == r.entry
      left == num_pending[e] - 1
  IN
  /\ data' = [data EXCEPT ![e][r.slice] = r.value]
  /\ num_pending' = [num_pending EXCEPT ![e] = left]
  /\ version' = IF left % Cardinality(Slice) = 0
                THEN [version EXCEPT ![e] = r.version]
                ELSE version

HandleGetResponse(r) ==
  /\ status = "running"
  /\ r.type = "kRGet" /\ StubRunning(r.entry)
  /\ replies' = replies \ {r}
  /\ IF r.slice \in pending_get[r.entry]
     THEN /\ pending_get' = [pending_get EXCEPT ![r.entry] = @ \ {r.slice}]
          /\ ParseResponse(r)
          /\ UNCHANGED status
     ELSE status' = "fatal" /\ UNCHANGED <<pending_get, num_pending, blobVars>>
  /\ UNCHANGED <<workerVars, dealer, num_update, next_version, pending_update,
                 nworkers, requests, serverVars>>

HandleUpdateResponse(r) ==
  /\ status = "running"
  /\ r.type = "kRUpdate" /\ StubRunning(r.entry)
  /\ replies' = replies \ {r}
  /\ IF r.slice \in pending_update[r.entry]
     THEN /\ pending_update' = [pending_update EXCEPT ![r.entry] = @ \ {r.slice}]
          /\ ParseResponse(r)
          /\ UNCHANGED status
     ELSE status' = "fatal" /\ UNCHANGED <<pending_update, num_pending, blobVars>>
  /\ UNCHANGED <<workerVars, dealer, num_update, next_version, pending_get,
                 nworkers, requests, serverVars>>

-----------------------------------------------------------------------------
(***************************************************************************)
(* Servers                                                                 *)
(***************************************************************************)
ServerHandlePut(m) ==
  LET s == m.slice IN
  /\ status = "running"
  /\ m.type = "kPut"
  /\ requests' = requests \ {m}
  /\ IF s \in shard
     THEN status' = "fatal" /\ UNCHANGED serverVars
     ELSE /\ shard' = shard \cup {s}
          /\ num_total' = [num_total EXCEPT ![s] = m.num]
          /\ server_version' = [server_version EXCEPT ![s] = m.version]
          /\ server_local_version' =
               [server_local_version EXCEPT ![s] = m.version]
          /\ UNCHANGED <<server_num_update, buffer_requests, log, status>>
  /\ UNCHANGED <<workerVars, dealer, blobVars, stubVars, replies>>

\* Fault: waiting for a version newer than the one asked for.
ServerHandleGetNewer(m) ==
  LET s == m.slice IN
  /\ status = "running"
  /\ m.type = "kGet"
  /\ s \in shard /\ server_version[s] > m.version
  /\ requests' = requests \ {m}
  /\ replies' = replies \cup
       {[type |-> "kRGet", entry |-> m.entry, slice |-> s,
         version |-> server_version[s], value |-> Len(log[s])]}
  /\ UNCHANGED <<workerVars, dealer, blobVars, stubVars, serverVars, status>>

\* Served once the slice is there and new enough; re-queued until then.
ServerHandleGet(m) ==
  LET s == m.slice IN
  /\ status = "running"
  /\ m.type = "kGet"
  /\ s \in shard /\ server_version[s] >= m.version
  /\ requests' = requests \ {m}
  /\ replies' = replies \cup
       {[type |-> "kRGet", entry |-> m.entry, slice |-> s,
         version |-> server_version[s], value |-> Len(log[s])]}
  /\ UNCHANGED <<workerVars, dealer, blobVars, stubVars, serverVars, status>>

\* Buffer the request; once all shares have sent theirs, update the slice and
\* answer every buffered request with the new version.
ServerHandleUpdate(m) ==
  LET s == m.slice
      buffered == buffer_requests[s] \cup {m}
      n == server_num_update[s] + m.num
      v == server_local_version[s] + 1
  IN
  /\ status = "running"
  /\ m.type = "kUpdate"
  /\ s \in shard
  /\ requests' = requests \ {m}
  /\ IF n < num_total[s]
     THEN /\ buffer_requests' = [buffer_requests EXCEPT ![s] = buffered]
          /\ server_num_update' = [server_num_update EXCEPT ![s] = n]
          /\ UNCHANGED <<server_local_version, log, replies, status>>
     ELSE IF n > num_total[s]
     THEN /\ status' = "fatal"
          /\ UNCHANGED <<buffer_requests, server_num_update,
                         server_local_version, log, replies>>
     ELSE /\ log' = [log EXCEPT ![s] =
                       Append(@, UNION {b.grads : b \in buffered})]
          /\ server_local_version' = [server_local_version EXCEPT ![s] = v]
          /\ replies' = replies \cup
               {[type |-> "kRUpdate", entry |-> b.entry, slice |-> s,
                 version |-> v, value |-> Len(log[s]) + 1] : b \in buffered}
          /\ buffer_requests' = [buffer_requests EXCEPT ![s] = {}]
          /\ server_num_update' = [server_num_update EXCEPT ![s] = 0]
          /\ UNCHANGED status
  /\ UNCHANGED <<workerVars, dealer, blobVars, stubVars, shard, num_total,
                 server_version>>

-----------------------------------------------------------------------------
WorkerStep(w) ==
  \/ InitLocalParams(w) \/ Put(w) \/ Get(w)
  \/ Forward(w) \/ Backward(w) \/ Checkpoint(w) \/ Stop(w)

StubRequest(w) ==
  \/ StubHandlePut(w) \/ StubHandleGet(w) \/ StubHandleUpdate(w)
  \/ StubHandleStop(w)
StubReply(r)   == HandleGetResponse(r) \/ HandleUpdateResponse(r)
ServerStep(m)  == ServerHandlePut(m) \/ ServerHandleGet(m) \/ ServerHandleUpdate(m)

\* Every worker has left its loop, and every stub has heard of it.
AllStopped == \A w \in Worker : pc[w] = "stop" /\ ~StubRunning(entryOf[w])

\* The run is over: nothing is left to do, and stuttering is no deadlock then.
Terminated ==
  /\ AllStopped /\ requests = {}
  /\ UNCHANGED vars

Next ==
  \/ \E w \in Worker : WorkerStep(w) \/ StubRequest(w)
  \/ \E r \in replies : StubReply(r)
  \/ \E m \in requests : ServerStep(m)
  \/ Terminated

Spec == Init /\ [][Next]_vars

(***************************************************************************)
(* Every thread keeps running its loop, and a request that is re-queued    *)
(* comes back until it is served: all handlers are weakly fair.            *)
(***************************************************************************)
Fairness ==
  /\ \A w \in Worker : WF_vars(WorkerStep(w)) /\ WF_vars(StubRequest(w))
  /\ \A e \in Entry, s \in Slice :
       /\ WF_vars(\E r \in replies : r.entry = e /\ r.slice = s /\ StubReply(r))
       /\ WF_vars(\E m \in requests : m.entry = e /\ m.slice = s /\ ServerStep(m))

FairSpec == Spec /\ Fairness

-----------------------------------------------------------------------------
(***************************************************************************)
(* Properties                                                              *)
(***************************************************************************)
WorkerTypeOK ==
  /\ pc \in [Worker -> {"init", "warmup", "warmup_backward", "get", "train",
                        "checkpointed", "backward", "stop"}]
  /\ step \in [Worker -> Nat]
  /\ local_version \in [Worker -> Int]
  /\ seen \in [Worker -> Values]
  /\ grad \in [Worker -> [step : Int, base : Values]]
  /\ checkpoint \subseteq [step : Nat, version : Int, values : Values]

StubTypeOK ==
  /\ version \in [Entry -> Int]
  /\ data \in [Entry -> Values]
  /\ num_update \in [Entry -> Nat]
  /\ next_version \in [Entry -> Int]
  /\ pending_get \in [Entry -> SUBSET Slice]
  /\ pending_update \in [Entry -> SUBSET Slice]
  /\ num_pending \in [Entry -> Int]
  /\ nworkers \in [Entry -> Int]

MsgTypeOK ==
  /\ dealer \in [Worker -> Seq(StubMsg)]
  /\ requests \subseteq Request
  /\ replies \subseteq Reply

ServerTypeOK ==
  /\ shard \subseteq Slice
  /\ num_total \in [Slice -> Int]
  /\ server_num_update \in [Slice -> Int]
  /\ server_version \in [Slice -> Int]
  /\ server_local_version \in [Slice -> Int]
  /\ buffer_requests \in [Slice -> SUBSET Request]
  /\ log \in [Slice -> Seq(SUBSET Gradient)]
  /\ status \in {"running", "fatal"}

\* Every variable has its type.
TypeOK == WorkerTypeOK /\ StubTypeOK /\ MsgTypeOK /\ ServerTypeOK

\* No CHECK of the protocol fails: a slice is put once (Server::HandlePut), a
\* reply finds its slice pending (Param::Parse{Get,Update}ResponseMsg), and the
\* shares of an update add up exactly (Server::HandleUpdate).
NoFatal == status # "fatal"

\* Synchronous training reads whole snapshots: in the forward pass of step k
\* every slice contains exactly the k - Step0 updates before it, although the
\* slices are answered one by one and in any order (ParseResponse's counting).
SnapshotReads ==
  \A w \in Worker : pc[w] = "backward" =>
    \A s \in Slice : seen[w][s] = step[w] - Step0

\* The n-th update of a slice sums one gradient of every worker, all of the
\* same step and all computed from the values that update replaces: merging in
\* the stubs and in Server::HandleUpdate loses, repeats and mixes nothing.
ExactAggregation ==
  \A s \in Slice : \A n \in 1..Len(log[s]) :
    log[s][n] = [worker : Worker, step : {Step0 + n - 1}, base : {n - 1}]

\* An update only ever sums gradients of one worker group, and of all its
\* workers (ParamEntry aggregates "Params shared by workers from the same
\* group").
OneGroupPerUpdate ==
  \A s \in Slice : \A n \in 1..Len(log[s]) : \E g \in Group :
    {x.worker : x \in log[s][n]} = {w \in Worker : grpOf[entryOf[w]] = g}

\* A slice absorbs the gradients of a worker in the order of their steps: none is
\* applied twice or after a later one (Server::HandleUpdate takes requests in the
\* order they come in, and only Collect keeps a worker from sending the next).
GradientsInOrder ==
  \A s \in Slice : \A m, n \in 1..Len(log[s]) :
    \A x \in log[s][m], y \in log[s][n] :
      x.worker = y.worker /\ m < n => x.step < y.step

\* A worker whose update has been answered for all slices can go on: Collect
\* does not wait for a version that no outstanding message will bring.
Answered(e) ==
  /\ pending_update[e] = {} /\ pending_get[e] = {}
  /\ num_update[e] = 0
  /\ \A w \in Members(e) : dealer[w] = <<>>
NoLostWakeup ==
  \A w \in Worker :
    pc[w] \in {"train", "checkpointed"} /\ Answered(entryOf[w]) => Collected(w)

\* A checkpoint written while training holds the values of its own step in
\* every slice, and says so in its version (CollectAll before Checkpoint).
PeriodicCheckpointExact ==
  \A c \in checkpoint : c.step < TrainSteps =>
    /\ c.version = c.step
    /\ \A s \in Slice : c.values[s] = c.step - Step0

\* With one worker group the version of a blob never goes back, in whatever order
\* the servers of its slices reply: HandleGetResponse and HandleUpdateResponse
\* take over the version of the last reply of a round.
VersionNeverRegresses ==
  [][\A e \in Entry : version'[e] >= version[e]]_version

\* Every worker trains all its steps and stops, and so does every stub.
Termination == <>AllStopped

\* Gradients computed and updates applied, as the abstract specification of
\* synchronous SGD counts them.
Sync == INSTANCE SyncSGD
          WITH computed <- [w \in Worker |-> step[w] - Step0],
               applied  <- [s \in Slice |-> Len(log[s])],
               Rounds   <- TrainSteps - Step0

\* The protocol implements synchronous SGD: no worker starts a step before all
\* slices contain every gradient of the step before.
ImplementsSyncSGD == Sync!Spec
=============================================================================
