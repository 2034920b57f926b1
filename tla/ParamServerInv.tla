---------------------------- MODULE ParamServerInv ----------------------------
(***************************************************************************)
(* The inductive invariant of synchronous training: one worker group, no   *)
(* warmup steps, and a process whose workers wait for their owner.         *)
(*                                                                         *)
(* Everything is stated relative to version[e], the round entry e is in.   *)
(* A worker of e has sent the update of that round iff its step is one     *)
(* ahead; the entry has passed it on iff a slice of it is pending; and the *)
(* number of updates in a slice tells whether its server has answered.     *)
(***************************************************************************)
EXTENDS ParamServer

\* The jobs the invariant is about.
SyncJob ==
  /\ \A e \in Entry : grpOf[e] = FirstGroup
  /\ WarmupSteps <= Step0
  /\ InitVersion = Step0
  /\ SleepCoversInit

\* The entry has values to train with.
Ready(e) == version[e] # -1

\* The dealer of w holds an update the stub has not seen yet.
UpdateQueued(w) == \E i \in 1..Len(dealer[w]) : dealer[w][i].type = "kUpdate"

\* The workers whose update of the current round the stub has counted.
Counted(e) ==
  {w \in Members(e) : step[w] = version[e] + 1 /\ ~UpdateQueued(w)}

\* The workers whose gradients are buffered for slice s.
BufferedShares(s) ==
  {w \in Worker : \E b \in buffer_requests[s] : b.entry = entryOf[w]}

\* The update request of entry e for slice s in its current round.
UpdateMsg(e, s) ==
  [type |-> "kUpdate", entry |-> e, slice |-> s, version |-> version[e],
   num |-> NumLocal(e),
   grads |-> {[worker |-> w, step |-> version[e],
               base |-> version[e] - Step0] : w \in Members(e)}]

\* A worker is in the round of its entry or one step ahead of it.
WorkerOK(w) ==
  LET e == entryOf[w] IN
  /\ step[w] >= Step0
  /\ pc[w] \in {"init", "warmup", "get"} => step[w] = Step0
  /\ pc[w] # "warmup_backward"
  /\ local_version[w] = IF step[w] = Step0 THEN -1 ELSE step[w] - 1
  /\ ~Ready(e) => /\ step[w] = Step0
                  /\ pc[w] \notin {"backward", "checkpointed"}
  /\ Ready(e) => /\ version[e] >= Step0
                 /\ step[w] = version[e] \/ step[w] = version[e] + 1
  /\ pc[w] \in {"backward", "checkpointed"} =>
       step[w] = version[e] /\ step[w] < TrainSteps
  /\ pc[w] = "backward" => \A s \in Slice : seen[w][s] = step[w] - Step0
  /\ step[w] > Step0 =>
       /\ grad[w].step = step[w] - 1
       /\ \A s \in Slice : grad[w].base[s] = step[w] - 1 - Step0
WorkerInv == \A w \in Worker : WorkerOK(w)

\* What waits in the dealers.
DealerOK(w, i) ==
  LET m == dealer[w][i] IN
  /\ m.type = "kPut" => w = Owner /\ m.version = Step0
  /\ m.type = "kGet" => m.version = WarmupSteps /\ entryOf[w] # entryOf[Owner]
  /\ m.type = "kStop" => pc[w] = "stop"
  /\ m.type = "kUpdate" => /\ \A j \in 1..Len(dealer[w]) :
                                dealer[w][j].type = "kUpdate" => j = i
                           /\ Ready(entryOf[w])
                           /\ step[w] = version[entryOf[w]] + 1
                           /\ m.version = version[entryOf[w]]
DealerInv == \A w \in Worker : \A i \in 1..Len(dealer[w]) : DealerOK(w, i)

\* The Param is put once.
NotYetPut ==
  /\ shard = {}
  /\ \A m \in requests : m.type # "kPut"
PutRequestOK(m) ==
  /\ m.entry = entryOf[Owner] /\ m.slice \notin shard
  /\ m.version = Step0 /\ m.num = Cardinality(Worker) /\ m.grads = {}
PutInv ==
  /\ pc[Owner] = "init" <=> ~Ready(entryOf[Owner])
  /\ pc[Owner] \in {"init", "warmup"} => dealer[Owner] = <<>> /\ NotYetPut
  /\ \A i \in 1..Len(dealer[Owner]) :
       dealer[Owner][i].type = "kPut" => i = 1 /\ NotYetPut
  /\ \A m \in requests : m.type = "kPut" => PutRequestOK(m)

\* The stub's counters, and the values in the blob.
StubOK(e) ==
  /\ num_pending[e] = Cardinality(pending_get[e]) + Cardinality(pending_update[e])
  /\ ~Ready(e) => pending_update[e] = {} /\ num_update[e] = 0
  /\ Ready(e) => pending_get[e] = {}
  /\ Ready(e) /\ pending_update[e] = {} =>
       num_update[e] = Cardinality(Counted(e)) /\ Counted(e) # Members(e)
  /\ pending_update[e] # {} => num_update[e] = 0 /\ Counted(e) = Members(e)
  /\ Ready(e) => \A s \in Slice :
       data[e][s] = version[e] - Step0 +
         IF pending_update[e] # {} /\ s \notin pending_update[e] THEN 1 ELSE 0
StubInv == \A e \in Entry : StubOK(e)

\* Get requests: sent once, before the first round, by the other processes.
GetEntryOK(e) ==
  /\ next_version[e] \in {-1, WarmupSteps}
  /\ next_version[e] = -1 => pending_get[e] = {}
  /\ next_version[e] = -1 /\ e # entryOf[Owner] => ~Ready(e)
  /\ next_version[e] # -1 => e # entryOf[Owner]
  /\ next_version[e] # -1 /\ ~Ready(e) =>
       /\ pending_get[e] # {}
       /\ \A s \in Slice \ pending_get[e] : data[e][s] = 0
GetRequestOK(m) ==
  /\ m.slice \in pending_get[m.entry]
  /\ m.version = WarmupSteps /\ m.num = 0 /\ m.grads = {}
GetReplyOK(r) ==
  /\ r.slice \in pending_get[r.entry]
  /\ r.version = Step0 /\ r.value = 0
  /\ \A m \in requests :
       ~(m.type = "kGet" /\ m.entry = r.entry /\ m.slice = r.slice)
GetSentOK(w) ==
  pc[w] = "train" /\ ~Ready(entryOf[w]) =>
    next_version[entryOf[w]] # -1 \/ dealer[w] # <<>>
GetInv ==
  /\ \A e \in Entry : GetEntryOK(e)
  /\ \A w \in Worker : GetSentOK(w)
  /\ \A m \in requests : m.type = "kGet" => GetRequestOK(m)
  /\ \A r \in replies : r.type = "kRGet" => GetReplyOK(r)

\* Update requests in flight, buffered and answered.
UpdateRequestOK(m) ==
  /\ m = UpdateMsg(m.entry, m.slice)
  /\ m.slice \in pending_update[m.entry]
  /\ Len(log[m.slice]) = version[m.entry] - Step0
  /\ m \notin buffer_requests[m.slice]
BufferOK(s, b) ==
  /\ b = UpdateMsg(b.entry, s)
  /\ s \in pending_update[b.entry]
  /\ Len(log[s]) = version[b.entry] - Step0
UpdateReplyOK(r) ==
  /\ r.slice \in pending_update[r.entry]
  /\ r.version = version[r.entry] + 1
  /\ r.value = version[r.entry] + 1 - Step0
  /\ Len(log[r.slice]) = version[r.entry] + 1 - Step0
UpdateInv ==
  /\ \A m \in requests : m.type = "kUpdate" => UpdateRequestOK(m)
  /\ \A s \in Slice : \A b \in buffer_requests[s] : BufferOK(s, b)
  /\ \A r \in replies : r.type = "kRUpdate" => UpdateReplyOK(r)

\* The servers' counters, and how far a slice can be ahead of an entry.
ServerOK(s) ==
  /\ s \notin shard => log[s] = <<>> /\ buffer_requests[s] = {}
  /\ s \in shard =>
       /\ num_total[s] = Cardinality(Worker)
       /\ server_version[s] = Step0
       /\ server_local_version[s] = Step0 + Len(log[s])
  /\ server_num_update[s] = Cardinality(BufferedShares(s))
  /\ BufferedShares(s) # Worker
LagOK(e, s) ==
  /\ ~Ready(e) => Len(log[s]) = 0
  /\ Ready(e) /\ pending_update[e] = {} => Len(log[s]) = version[e] - Step0
  /\ pending_update[e] # {} =>
       \/ Len(log[s]) = version[e] - Step0 + 1
       \/ Len(log[s]) = version[e] - Step0 /\ s \in pending_update[e]
ServerInv == \A s \in Slice : ServerOK(s) /\ \A e \in Entry : LagOK(e, s)

\* The inductive invariant: the parts above, and the properties that follow
\* from no single state.
IInv ==
  /\ TypeOK /\ NoFatal
  /\ WorkerInv /\ DealerInv /\ PutInv /\ StubInv /\ GetInv /\ UpdateInv
  /\ ServerInv /\ ExactAggregation /\ PeriodicCheckpointExact
===============================================================================
