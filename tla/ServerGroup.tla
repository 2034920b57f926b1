----------------------------- MODULE ServerGroup -----------------------------
(***************************************************************************)
(* The life of one server group: ZooKeeper keeps a node per worker that    *)
(* uses the servers, and a watch on these nodes tells a server when it may *)
(* stop.                                                                   *)
(*                                                                         *)
(* A watch fires once, on the next change of the child list; the callback  *)
(* reads the list again and sets a new watch in one request.  Training is  *)
(* reduced to what decides when a worker can leave: the next step of a     *)
(* worker waits until every server that keeps a slice has answered the     *)
(* update of its group.                                                    *)
(***************************************************************************)
EXTENDS Integers, FiniteSets

CONSTANTS
  Server,          \* servers of the group
  Keeper,          \* the servers that keep a slice
  Worker, Group,   \* workers and their groups
  grpOf,           \* grpOf[w]: the group of a worker
  TrainSteps,      \* ModelProto.train_steps
  NumRetry         \* kNumRetry

ASSUME GroupAssumption ==
  /\ Keeper \subseteq Server /\ Keeper # {}
  /\ grpOf \in [Worker -> Group]
  /\ TrainSteps \in Nat /\ NumRetry \in Nat \ {0}

VARIABLES
  \* ZooKeeper
  group_node,      \* the node of the server group exists
  children,        \* workers with a node below it
  watch,           \* servers with a watch set
  event,           \* servers with a child event on its way
  \* servers
  spc, fn, running,
  answered,        \* answered[s][g]: updates of group g that s has answered
  \* workers
  wpc, retry, step

zkVars     == <<group_node, children, watch, event>>
serverVars == <<spc, fn, running, answered>>
workerVars == <<wpc, retry, step>>
vars == <<zkVars, serverVars, workerVars>>

Init ==
  /\ group_node = FALSE
  /\ children = {}
  /\ watch = {}
  /\ event = {}
  /\ spc = [s \in Server |-> "start"]
  /\ fn = [s \in Server |-> TRUE]
  /\ running = [s \in Server |-> TRUE]
  /\ answered = [s \in Server |-> [g \in Group |-> 0]]
  /\ wpc = [w \in Worker |-> "start"]
  /\ retry = [w \in Worker |-> 0]
  /\ step = [w \in Worker |-> 0]

-----------------------------------------------------------------------------
\* The child list changes: every watch set fires.
ChangeChildren(new) ==
  /\ children' = new
  /\ event' = event \cup watch
  /\ watch' = {}
  /\ UNCHANGED group_node

(***************************************************************************)
(* Servers                                                                 *)
(***************************************************************************)
\* WatchSGroup, first request: create the node of the group.
CreateGroupNode(s) ==
  /\ spc[s] = "start"
  /\ group_node' = TRUE
  /\ spc' = [spc EXCEPT ![s] = "created"]
  /\ UNCHANGED <<children, watch, event, fn, running, answered, workerVars>>

\* WatchSGroup, second request: set the watch; the list returned is ignored.
WatchSGroup(s) ==
  /\ spc[s] = "created"
  /\ watch' = watch \cup {s}
  /\ spc' = [spc EXCEPT ![s] = "loop"]
  /\ UNCHANGED <<group_node, children, event, fn, running, answered, workerVars>>

\* Fault: the watch is not set again.
ChildChangesOnce(s) ==
  /\ s \in event
  /\ event' = event \ {s}
  /\ IF fn[s] /\ children = {}
     THEN /\ running' = [running EXCEPT ![s] = FALSE]
          /\ fn' = [fn EXCEPT ![s] = FALSE]
     ELSE UNCHANGED <<running, fn>>
  /\ UNCHANGED <<group_node, children, watch, spc, answered, workerVars>>

\* The callback, in the ZooKeeper thread of the server's process.
ChildChanges(s) ==
  /\ s \in event
  /\ event' = event \ {s}
  /\ IF fn[s]
     THEN /\ watch' = watch \cup {s}
          /\ IF children = {}
             THEN /\ running' = [running EXCEPT ![s] = FALSE]
                  /\ fn' = [fn EXCEPT ![s] = FALSE]
             ELSE UNCHANGED <<running, fn>>
     ELSE UNCHANGED <<watch, running, fn>>
  /\ UNCHANGED <<group_node, children, spc, answered, workerVars>>

\* The head of the server's loop.
CheckRunning(s) ==
  /\ spc[s] = "loop"
  /\ spc' = [spc EXCEPT ![s] = IF running[s] THEN "poll" ELSE "stopped"]
  /\ UNCHANGED <<zkVars, fn, running, answered, workerVars>>

\* Every worker of group g has sent an update that s has not answered.
UpdateReady(s, g) ==
  /\ s \in Keeper
  /\ \E w \in Worker : grpOf[w] = g
  /\ \A w \in Worker : grpOf[w] = g => step[w] > answered[s][g]

\* Poll times out without a message.
PollTimeout(s) ==
  /\ spc[s] = "poll"
  /\ \A g \in Group : ~UpdateReady(s, g)
  /\ spc' = [spc EXCEPT ![s] = "loop"]
  /\ UNCHANGED <<zkVars, fn, running, answered, workerVars>>

\* Answer the whole group.
HandleUpdate(s, g) ==
  /\ spc[s] = "poll"
  /\ UpdateReady(s, g)
  /\ answered' = [answered EXCEPT ![s][g] = @ + 1]
  /\ spc' = [spc EXCEPT ![s] = "loop"]
  /\ UNCHANGED <<zkVars, fn, running, workerVars>>

(***************************************************************************)
(* Workers                                                                 *)
(***************************************************************************)
\* JoinSGroup creates the worker's node, once the node of the group is there.
JoinSGroup(w) ==
  /\ wpc[w] = "start"
  /\ group_node
  /\ wpc' = [wpc EXCEPT ![w] = "train"]
  /\ ChangeChildren(children \cup {w})
  /\ UNCHANGED <<serverVars, retry, step>>

\* The node of the group is missing: sleep and retry, and give up at last.
JoinRetry(w) ==
  /\ wpc[w] = "start"
  /\ ~group_node
  /\ retry' = [retry EXCEPT ![w] = @ + 1]
  /\ wpc' = [wpc EXCEPT ![w] = IF retry[w] + 1 >= NumRetry THEN "fatal" ELSE @]
  /\ UNCHANGED <<zkVars, serverVars, step>>

\* Fault: training goes on without the answers.
CollectedAtOnce(w) == TRUE

\* Collect returns when the updates sent so far have been answered.
Collected(w) == \A s \in Keeper : answered[s][grpOf[w]] >= step[w]

TrainOneBatch(w) ==
  /\ wpc[w] = "train"
  /\ step[w] < TrainSteps
  /\ Collected(w)
  /\ step' = [step EXCEPT ![w] = @ + 1]
  /\ UNCHANGED <<zkVars, serverVars, wpc, retry>>

LeaveSGroup(w) ==
  /\ wpc[w] = "train"
  /\ step[w] >= TrainSteps
  /\ wpc' = [wpc EXCEPT ![w] = "stop"]
  /\ ChangeChildren(children \ {w})
  /\ UNCHANGED <<serverVars, retry, step>>

-----------------------------------------------------------------------------
Failed == \E w \in Worker : wpc[w] = "fatal"
AllLeft == \A w \in Worker : wpc[w] = "stop"
ServersStopped == \A s \in Server : spc[s] = "stopped"

ServerThread(s) ==
  \/ CreateGroupNode(s) \/ WatchSGroup(s) \/ CheckRunning(s) \/ PollTimeout(s)
  \/ \E g \in Group : HandleUpdate(s, g)

WorkerThread(w) ==
  JoinSGroup(w) \/ JoinRetry(w) \/ TrainOneBatch(w) \/ LeaveSGroup(w)

Terminated == AllLeft /\ ServersStopped /\ UNCHANGED vars

Next ==
  \/ \E s \in Server : ServerThread(s) \/ ChildChanges(s)
  \/ \E w \in Worker : WorkerThread(w)
  \/ Terminated

Spec == Init /\ [][Next]_vars

\* Every thread runs its loop, and ZooKeeper delivers its events.
Fairness ==
  /\ \A s \in Server : WF_vars(ServerThread(s)) /\ WF_vars(ChildChanges(s))
  /\ \A w \in Worker : WF_vars(WorkerThread(w))

FairSpec == Spec /\ Fairness

-----------------------------------------------------------------------------
\* Every variable of the group has its type.
TypeOK ==
  /\ group_node \in BOOLEAN
  /\ children \subseteq Worker
  /\ watch \subseteq Server /\ event \subseteq Server
  /\ spc \in [Server -> {"start", "created", "loop", "poll", "stopped"}]
  /\ fn \in [Server -> BOOLEAN] /\ running \in [Server -> BOOLEAN]
  /\ answered \in [Server -> [Group -> Nat]]
  /\ wpc \in [Worker -> {"start", "train", "stop", "fatal"}]
  /\ retry \in [Worker -> 0..NumRetry]
  /\ step \in [Worker -> Nat]

\* A server is told to stop only after every worker has left ("will be notified
\* when all workers have left", ClusterRuntime::WatchSGroup).
StopOnlyAfterAllLeft == \A s \in Server : ~running[s] => AllLeft

\* When no worker gave up waiting for the servers, all of them stop, and no
\* worker is left waiting for an answer.
AllStop == <>(Failed \/ (AllLeft /\ ServersStopped))
=============================================================================
