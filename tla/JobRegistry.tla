---------------------------- MODULE JobRegistry ----------------------------
(***************************************************************************)
(* Jobs and processes in ZooKeeper: singa-run.sh takes a job id, then      *)
(* starts the processes host by host; each creates the nodes of the job,   *)
(* takes a sequential lock node, derives its process id from its position  *)
(* among the locks and publishes its endpoint.  Meanwhile singatool lists  *)
(* jobs and removes old ones, and singa-stop.sh kills the processes host   *)
(* by host and then removes everything, node by node.                      *)
(*                                                                         *)
(* A job node has the children proc (endpoints) and proc-lock (locks);     *)
(* group is created and removed like them and is left out.  Every request  *)
(* to ZooKeeper about a node of a job is one step; the nodes above the     *)
(* jobs are created again, by whoever needs them, with the node below.     *)
(***************************************************************************)
EXTENDS Integers, Sequences, FiniteSets

CONSTANTS
  Launch,        \* runs of singa-run.sh
  nprocs,        \* Cluster::nprocs of each job
  nhosts,        \* hosts in the hostfile; a job runs on the first ones
  JobsNotRemoved,\* kJobsNotRemoved
  MaxEvents      \* bound: a crash or a use of singatool counts 1, singa-stop.sh 2

ASSUME RegistryAssumption ==
  /\ IsFiniteSet(Launch) /\ nprocs \in [Launch -> Nat \ {0}] /\ JobsNotRemoved \in Nat
  /\ nhosts \in Nat /\ \A l \in Launch : nprocs[l] <= nhosts
  /\ MaxEvents \in Nat

\* Process i of a launch runs on host i.
Process == UNION {{l} \X (1..nprocs[l]) : l \in Launch}
JobIds == 0..Cardinality(Launch) - 1

VARIABLES
  \* ZooKeeper
  jobSeq,     \* sequence number of the next node below job-lock
  nodes,      \* <<job id, "job" | "proc" | "proc-lock">>: permanent nodes
  lockSeq,    \* lockSeq[id]: next sequence number below proc-lock
  locks,      \* [job, seq, owner]: lock nodes
  procs,      \* [job, id, owner]: endpoints
  \* launches and processes
  jobId,      \* job id of a launch; -1: none yet
  pc,         \* "off", "job", "proc", "proc-lock", "lock", "children", "publish",
              \* "run", "dead" (crashed, nodes still there) or "gone"
  lock,       \* own sequence number
  procsId,    \* procs_id_; -1: none yet
  \* scripts and tools
  tool,       \* [pc, list, i, stack] of singatool; pc: "idle", "list", "clean", "cleanup"
  stop,       \* hosts killed by the singa-stop.sh under way; 0: none
  \* history
  events,
  disturbed,  \* launches with a crashed, failed or cleaned-up process, or a shared id
  old,        \* launches that had an id when the counter of ids was reset
  late        \* processes started after the kill on their host

zkVars == <<jobSeq, nodes, lockSeq, locks, procs>>
procVars == <<jobId, pc, lock, procsId>>
histVars == <<events, disturbed, old, late>>
vars == <<zkVars, procVars, tool, stop, histVars>>

Idle == [pc |-> "idle", list |-> << >>, i |-> 0, stack |-> << >>]

Init ==
  /\ jobSeq = 0 /\ nodes = {} /\ lockSeq = [id \in JobIds |-> 0]
  /\ locks = {} /\ procs = {}
  /\ jobId = [l \in Launch |-> -1]
  /\ pc = [p \in Process |-> "off"]
  /\ lock = [p \in Process |-> -1]
  /\ procsId = [p \in Process |-> -1]
  /\ tool = Idle /\ stop = 0
  /\ events = 0
  /\ disturbed = {} /\ old = {} /\ late = {}

Id(p) == jobId[p[1]]

Goto(p, where) == pc' = [pc EXCEPT ![p] = where]

-----------------------------------------------------------------------------
(***************************************************************************)
(* singa-run.sh and the processes                                          *)
(***************************************************************************)
\* The sequence number ZooKeeper appends to the lock node.
NextJobId == jobSeq

\* singatool create.  Another launch with the same id disturbs both while it
\* has a process that runs, may start or has nodes left.
GenerateJobID(l) ==
  /\ jobId[l] = -1
  /\ jobId' = [jobId EXCEPT ![l] = NextJobId]
  /\ jobSeq' = jobSeq + 1
  /\ LET same == {m \in Launch : jobId[m] = NextJobId}
     IN  disturbed' = disturbed \cup same
           \cup {m \in {l} : \E p \in Process : p[1] \in same /\ pc[p] # "gone"}
  /\ UNCHANGED <<nodes, lockSeq, locks, procs, pc, lock, procsId, tool, stop,
                 events, old, late>>

\* singa-run.sh goes on to start a process on every host, in the background.
\* singa-stop.sh kills singa and singatool but not the shell that runs this.
StartProcess(p) ==
  /\ Id(p) # -1 /\ pc[p] = "off"
  /\ Goto(p, "job")
  /\ late' = IF p[2] <= stop \/ p[1] \in old THEN late \cup {p} ELSE late
  /\ UNCHANGED <<zkVars, jobId, lock, procsId, tool, stop, events, disturbed, old>>

\* ZKClusterRT::Init, one node after the other; a node that is already there
\* is fine, a missing parent is waited for.
CreateNode(p, n, next) ==
  /\ pc[p] = n
  /\ n # "job" => <<Id(p), "job">> \in nodes
  /\ nodes' = nodes \cup {<<Id(p), n>>}
  /\ Goto(p, next)
  /\ UNCHANGED <<jobSeq, lockSeq, locks, procs, jobId, lock, procsId, tool, stop, histVars>>

\* RegistProc, first request: a sequential node.
CreateLock(p) ==
  /\ pc[p] = "lock" /\ <<Id(p), "proc-lock">> \in nodes
  /\ locks' = locks \cup {[job |-> Id(p), seq |-> lockSeq[Id(p)], owner |-> p]}
  /\ lock' = [lock EXCEPT ![p] = lockSeq[Id(p)]]
  /\ lockSeq' = [lockSeq EXCEPT ![Id(p)] = @ + 1]
  /\ Goto(p, "children")
  /\ UNCHANGED <<jobSeq, nodes, procs, jobId, procsId, tool, stop, histVars>>

SeqsOf(p) == {k.seq : k \in {k \in locks : k.job = Id(p)}}

\* Fault: the number of locks instead of the own position.
LocksBesideOwn(p) == Cardinality(SeqsOf(p)) - 1

\* Own position among the sorted locks.
Position(p) == Cardinality({s \in SeqsOf(p) : s < lock[p]})

\* Fault: as with a lock, only the first goes on.
ReadLocksInTurn(p) ==
  /\ pc[p] = "children" /\ <<Id(p), "proc-lock">> \in nodes
  /\ Position(p) = 0
  /\ procsId' = [procsId EXCEPT ![p] = 0]
  /\ Goto(p, "publish")
  /\ UNCHANGED <<zkVars, jobId, lock, tool, stop, histVars>>

\* Second request: the locks.  An own node that is gone ends the process.
ReadLocks(p) ==
  /\ pc[p] = "children"
  /\ IF lock[p] \in SeqsOf(p)
     THEN /\ procsId' = [procsId EXCEPT ![p] = Position(p)]
          /\ Goto(p, "publish")
          /\ UNCHANGED disturbed
     ELSE /\ Goto(p, "dead")
          /\ disturbed' = disturbed \cup {p[1]}
          /\ UNCHANGED procsId
  /\ UNCHANGED <<zkVars, jobId, lock, tool, stop, events, old, late>>

\* Third request: the endpoint; a node that exists counts as created.
Publish(p) ==
  /\ pc[p] = "publish" /\ <<Id(p), "proc">> \in nodes
  /\ procs' = IF \E e \in procs : e.job = Id(p) /\ e.id = procsId[p] THEN procs
              ELSE procs \cup {[job |-> Id(p), id |-> procsId[p], owner |-> p]}
  /\ Goto(p, "run")
  /\ UNCHANGED <<jobSeq, nodes, lockSeq, locks, jobId, lock, procsId, tool, stop, histVars>>

\* CreateNode gives up after kNumRetry times without a parent.
ParentMissing(p) ==
  \/ pc[p] \in {"proc", "proc-lock"} /\ <<Id(p), "job">> \notin nodes
  \/ pc[p] = "lock" /\ <<Id(p), "proc-lock">> \notin nodes
  \/ pc[p] = "publish" /\ <<Id(p), "proc">> \notin nodes

GiveUp(p) ==
  /\ ParentMissing(p)
  /\ Goto(p, "dead")
  /\ disturbed' = disturbed \cup {p[1]}
  /\ UNCHANGED <<zkVars, jobId, lock, procsId, tool, stop, events, old, late>>

Live(p) == pc[p] \notin {"off", "dead", "gone"}

Crash(p) ==
  /\ Live(p) /\ events < MaxEvents
  /\ events' = events + 1
  /\ disturbed' = disturbed \cup {p[1]}
  /\ Goto(p, "dead")
  /\ UNCHANGED <<zkVars, jobId, lock, procsId, tool, stop, old, late>>

\* The session of a dead process times out: its ephemeral nodes go.
Expire(p) ==
  /\ pc[p] = "dead"
  /\ locks' = {k \in locks : k.owner # p}
  /\ procs' = {e \in procs : e.owner # p}
  /\ Goto(p, "gone")
  /\ UNCHANGED <<jobSeq, nodes, lockSeq, jobId, lock, procsId, tool, stop, histVars>>

-----------------------------------------------------------------------------
(***************************************************************************)
(* singatool                                                               *)
(***************************************************************************)
\* A set of ids in ascending order.
Sorted(S) == CHOOSE f \in [1..Cardinality(S) -> S] : \A i, j \in DOMAIN f : i < j => f[i] < f[j]

\* list: read the jobs, sorted by id.
ListJobs ==
  /\ tool.pc = "idle" /\ events < MaxEvents
  /\ events' = events + 1
  /\ tool' = [pc |-> "list", i |-> 1, stack |-> << >>,
              list |-> Sorted({n[1] : n \in {m \in nodes : m[2] = "job"}})]
  /\ UNCHANGED <<zkVars, procVars, stop, disturbed, old, late>>

\* Fault: one job fewer is kept.
MayRemoveOneMore == tool.i + JobsNotRemoved <= Len(tool.list) + 1

\* The job is not among the last ones listed (counted from 0 in the code).
MayRemove == tool.i - 1 + JobsNotRemoved < Len(tool.list)

\* A path is <<kind, job id, key>>; the parts it has not are -1.
App == <<"app", -1, -1>>
JobLock == <<"job-lock", -1, -1>>
JobPath(id) == <<"job", id, -1>>

Exist(path) ==
  CASE path[1] = "lock" -> \E k \in locks : k.job = path[2] /\ k.seq = path[3]
    [] path[1] = "endpoint" -> \E e \in procs : e.job = path[2] /\ e.id = path[3]
    [] path[1] \in {"job", "proc", "proc-lock"} -> <<path[2], path[1]>> \in nodes
    [] OTHER -> TRUE

GetChild(path) ==
  CASE path[1] = "app" -> {JobPath(n[1]) : n \in {m \in nodes : m[2] = "job"}}
    [] path[1] = "job" -> {<<n, path[2], -1>> : n \in {m \in {"proc", "proc-lock"} :
                                                         <<path[2], m>> \in nodes}}
    [] path[1] = "proc" -> {<<"endpoint", path[2], e.id>> : e \in {e \in procs : e.job = path[2]}}
    [] path[1] = "proc-lock" -> {<<"lock", path[2], k.seq>> : k \in {k \in locks : k.job = path[2]}}
    [] OTHER -> {}

\* A call of CleanPath: its path and the children it has still to clean.  The
\* first call is that of the caller, whose path is kept.
Frame(path, children) == [path |-> path, todo |-> children]
Caller == <<"caller", -1, -1>>
Leaf == {"lock", "endpoint", "job-lock"}

\* The endpoints of the next job; none, and an old job: CleanPath.  A job
\* without proc node stops singatool.
ListNext ==
  /\ tool.pc = "list" /\ tool.stack = << >>
  /\ LET id == tool.list[tool.i]
     IN  tool' = IF tool.i > Len(tool.list) \/ <<id, "proc">> \notin nodes THEN Idle
                 ELSE IF {e \in procs : e.job = id} = {} /\ MayRemove
                 THEN [tool EXCEPT !.stack = <<Frame(Caller, {JobPath(id)})>>]
                 ELSE [tool EXCEPT !.i = @ + 1]
  /\ UNCHANGED <<zkVars, procVars, stop, histVars>>

\* ZooKeeper lists children in no certain order: either way above the jobs, by
\* number below.
First(todo) ==
  {c \in todo : \/ c \in {App, JobLock}
                \/ \A d \in todo : \/ c[2] < d[2]
                                    \/ /\ c[2] = d[2] /\ c[3] <= d[3]
                                       /\ c[1] = "proc-lock" => d[1] # "proc"}

\* LOG(FATAL) ends singatool, and singa-stop.sh with it.
ToolDies ==
  /\ tool' = Idle
  /\ stop' = IF tool.pc = "cleanup" THEN 0 ELSE stop

\* The calls of CleanPath that are left; out of the last one, the caller goes on.
Return(stack) ==
  LET done == Len(stack) = 1 /\ Head(stack).todo = {}
  IN  /\ tool' = IF ~done THEN [tool EXCEPT !.stack = stack]
                 ELSE IF tool.pc = "list" THEN [tool EXCEPT !.i = @ + 1, !.stack = << >>]
                 ELSE Idle
      /\ stop' = IF done /\ tool.pc = "cleanup" THEN 0 ELSE stop

\* Ids start from 0 again when job-lock is gone, locks when proc-lock is.
Remove(path) ==
  /\ nodes' = nodes \ {<<path[2], path[1]>>}
  /\ locks' = {k \in locks : path # <<"lock", k.job, k.seq>>}
  /\ procs' = {e \in procs : path # <<"endpoint", e.job, e.id>>}
  /\ lockSeq' = IF path[1] = "proc-lock" THEN [lockSeq EXCEPT ![path[2]] = 0] ELSE lockSeq
  /\ jobSeq' = IF path = JobLock THEN 0 ELSE jobSeq
  /\ old' = IF path = JobLock THEN {l \in Launch : jobId[l] # -1} ELSE old
  /\ disturbed' = disturbed \cup {l \in Launch : jobId[l] # -1 /\ jobId[l] = path[2]}

\* CleanPath on the next child reads the child's children; it is fatal if the
\* child has gone meanwhile.
CleanPath ==
  /\ tool.stack # << >>
  /\ LET top == Head(tool.stack)
     IN  \E c \in First(top.todo) :
           /\ c[1] \notin Leaf
           /\ IF Exist(c)
              THEN /\ tool' = [tool EXCEPT !.stack = <<Frame(c, GetChild(c)),
                                                       [top EXCEPT !.todo = @ \ {c}]>> \o Tail(@)]
                   /\ UNCHANGED stop
              ELSE ToolDies
  /\ UNCHANGED <<zkVars, procVars, histVars>>

\* On a child that never has children: what comes between the two requests
\* makes no difference, deleting a node that is not there is fine.
CleanLeaf ==
  /\ tool.stack # << >>
  /\ LET top == Head(tool.stack)
     IN  \E c \in First(top.todo) :
           /\ c[1] \in Leaf
           /\ IF Exist(c)
              THEN Remove(c) /\ Return(<<[top EXCEPT !.todo = @ \ {c}]>> \o Tail(tool.stack))
              ELSE ToolDies /\ UNCHANGED <<zkVars, disturbed, old>>
  /\ UNCHANGED <<procVars, events, late>>

\* The last request of CleanPath: fatal if the node has a child again.
DeleteNode ==
  /\ Len(tool.stack) > 1 /\ Head(tool.stack).todo = {}
  /\ LET path == Head(tool.stack).path
     IN  IF GetChild(path) # {}
         THEN ToolDies /\ UNCHANGED <<zkVars, disturbed, old>>
         ELSE Remove(path) /\ Return(Tail(tool.stack))
  /\ UNCHANGED <<procVars, events, late>>

\* singatool clean, by singa-console.sh after it has killed the processes that
\* were listed: the endpoints go at once.
Clean(l) ==
  /\ tool.pc = "idle" /\ events < MaxEvents /\ jobId[l] # -1
  /\ LET ends == {e \in procs : e.job = jobId[l]}
     IN  /\ ends # {} /\ \A e \in ends : pc[e.owner] = "dead"
         /\ tool' = [Idle EXCEPT !.pc = "clean",
                       !.stack = <<Frame(Caller, GetChild(<<"proc", jobId[l], -1>>))>>]
  /\ events' = events + 1
  /\ UNCHANGED <<zkVars, procVars, stop, disturbed, old, late>>

-----------------------------------------------------------------------------
(***************************************************************************)
(* singa-stop.sh                                                           *)
(***************************************************************************)
\* Fault: a process that has not registered yet is not found.
KillRegistered ==
  /\ stop < nhosts /\ (stop = 0 => events + 2 <= MaxEvents)
  /\ events' = IF stop = 0 THEN events + 2 ELSE events
  /\ stop' = stop + 1
  /\ LET killed == {p \in Process : p[2] = stop + 1 /\ pc[p] = "run"}
     IN  /\ pc' = [p \in Process |-> IF p \in killed THEN "dead" ELSE pc[p]]
         /\ disturbed' = disturbed \cup {p[1] : p \in killed}
  /\ UNCHANGED <<zkVars, jobId, lock, procsId, tool, old, late>>

\* killall on the next host: every process there, and singatool if it runs there.
KillHost ==
  /\ stop < nhosts /\ (stop = 0 => events + 2 <= MaxEvents)
  /\ events' = IF stop = 0 THEN events + 2 ELSE events
  /\ stop' = stop + 1
  /\ LET killed == {p \in Process : p[2] = stop + 1 /\ Live(p)}
     IN  /\ pc' = [p \in Process |-> IF p \in killed THEN "dead" ELSE pc[p]]
         /\ disturbed' = disturbed \cup {p[1] : p \in killed}
         /\ lock' = [p \in Process |-> IF p \in killed THEN -1 ELSE lock[p]]
         /\ procsId' = [p \in Process |-> IF p \in killed THEN -1 ELSE procsId[p]]
  /\ tool' \in {tool, Idle}
  /\ UNCHANGED <<zkVars, jobId, old, late>>

\* After the last host, singatool cleanup: all jobs and the counter of ids, in
\* the order in which ZooKeeper lists them.
Cleanup ==
  /\ stop = nhosts /\ nhosts > 0 /\ tool.pc = "idle"
  /\ tool' = [Idle EXCEPT !.pc = "cleanup", !.stack = <<Frame(Caller, {App, JobLock})>>]
  /\ UNCHANGED <<zkVars, procVars, stop, histVars>>

-----------------------------------------------------------------------------
ProcessStep(p) ==
  \/ CreateNode(p, "job", "proc")
  \/ CreateNode(p, "proc", "proc-lock")
  \/ CreateNode(p, "proc-lock", "lock")
  \/ CreateLock(p) \/ ReadLocks(p) \/ Publish(p) \/ GiveUp(p)

ToolStep == ListJobs \/ ListNext \/ CleanPath \/ CleanLeaf \/ DeleteNode

Next ==
  \/ \E l \in Launch : GenerateJobID(l) \/ Clean(l)
  \/ \E p \in Process : StartProcess(p) \/ ProcessStep(p) \/ Crash(p) \/ Expire(p)
  \/ ToolStep
  \/ KillHost \/ Cleanup

\* singa-run.sh and processes run and ZooKeeper answers; nothing makes anyone
\* use the tools.
Spec == /\ Init /\ [][Next]_vars
        /\ \A p \in Process : WF_vars(StartProcess(p)) /\ WF_vars(ProcessStep(p))

-----------------------------------------------------------------------------
\* Processes that start together, in any order, get different ids and each
\* publishes its own endpoint under its id, unless a process of the job
\* crashed or the job was cleaned up.
OwnEndpoint ==
  \A p \in Process : pc[p] = "run" /\ p[1] \notin disturbed =>
    {e.owner : e \in {e \in procs : e.job = Id(p) /\ e.id = procsId[p]}} = {p}

\* Two launches with live processes have the same job id, after singatool
\* cleanup has reset the counter, only if a process of one of them was started
\* by singa-run.sh after singa-stop.sh had killed on its host: the launch had
\* its id before the reset.  Everything else singa-stop.sh ends in time.
JobIdsDiffer ==
  \A p, q \in Process : p[1] # q[1] /\ Live(p) /\ Live(q) /\ Id(p) = Id(q) =>
    p \in late \/ q \in late

\* Listing removes no node of a job that has fewer than kJobsNotRemoved
\* newer ones, however stale the list is when it gets there.
RecentJobsStay ==
  [][\A n \in nodes \ nodes' :
       tool.pc = "list" => Cardinality({m \in nodes : m[2] = "job" /\ m[1] > n[1]})
                             >= JobsNotRemoved]_vars

\* All ids of an undisturbed job get an endpoint, so that no stub waits for
\* ever for another process to register.
AllRegister ==
  []<>(\A l \in Launch \ disturbed : jobId[l] # -1 =>
         {e.id : e \in {e \in procs : e.job = jobId[l]}} = 0..nprocs[l] - 1)
=============================================================================
