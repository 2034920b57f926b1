-------------------------- MODULE ServerGroupProofs --------------------------
(***************************************************************************)
(* Servers of a single synchronous worker group stop only after all its    *)
(* workers have left.                                                      *)
(*                                                                         *)
(* The watch only says that the child list is empty now.  That every       *)
(* worker has been in the list before follows from training: a worker that *)
(* has left has made at least two steps, the second one needed the answers *)
(* to the first, and these needed the first step of every worker.          *)
(***************************************************************************)
EXTENDS ServerGroup, TLAPS

\* The jobs the theorem is about: one worker group, at least two steps.
SyncGroup ==
  /\ \A v, w \in Worker : grpOf[v] = grpOf[w]
  /\ TrainSteps >= 2

\* Membership and training go together.
MemberInv ==
  /\ \A w \in Worker : wpc[w] = "start" => retry[w] < NumRetry
  /\ \A w \in Worker : w \in children <=> wpc[w] = "train"
  /\ \A w \in Worker : wpc[w] \in {"start", "fatal"} => step[w] = 0
  /\ \A w \in Worker : wpc[w] = "stop" => step[w] >= 2

\* No worker is two steps ahead of an answer, no answer ahead of a worker.
AnswerInv ==
  \A s \in Keeper, w \in Worker :
    /\ answered[s][grpOf[w]] <= step[w]
    /\ step[w] <= answered[s][grpOf[w]] + 1

\* A child event means that somebody has joined.
EventInv == event # {} => \E w \in Worker : wpc[w] \in {"train", "stop"}

GroupInv == TypeOK /\ MemberInv /\ AnswerInv /\ EventInv /\ StopOnlyAfterAllLeft

LEMMA GroupInit == Init => GroupInv
<1> SUFFICES ASSUME Init PROVE GroupInv
  OBVIOUS
<1>1. TypeOK
  <2>1. answered \in [Server -> [Group -> Nat]]
    BY DEF Init
  <2>2. retry \in [Worker -> 0..NumRetry]
    BY GroupAssumption DEF Init
  <2> QED BY <2>1, <2>2 DEF Init, TypeOK
<1>2. MemberInv /\ EventInv /\ StopOnlyAfterAllLeft
  BY GroupAssumption DEF Init, MemberInv, EventInv, StopOnlyAfterAllLeft
<1>3. AnswerInv
  <2> SUFFICES ASSUME NEW s \in Keeper, NEW w \in Worker
               PROVE  answered[s][grpOf[w]] = 0 /\ step[w] = 0
    BY DEF AnswerInv
  <2>1. s \in Server /\ grpOf[w] \in Group
    BY GroupAssumption
  <2>2. answered = [z \in Server |-> [g \in Group |-> 0]] /\ step = [z \in Worker |-> 0]
    BY DEF Init
  <2>3. answered[s] = [g \in Group |-> 0]
    BY <2>1, <2>2
  <2> QED BY <2>1, <2>2, <2>3
<1> QED BY <1>1, <1>2, <1>3 DEF GroupInv

\* Once a worker has left, every worker has made a step and has joined.
LEMMA LeftMeansAllJoined ==
  ASSUME SyncGroup, GroupInv, NEW w \in Worker, wpc[w] = "stop", NEW v \in Worker
  PROVE  wpc[v] \in {"train", "stop"}
<1>1. PICK s \in Keeper : TRUE
  BY GroupAssumption
<1>2. /\ answered[s][grpOf[w]] \in Nat /\ step[w] \in Nat /\ step[v] \in Nat
      /\ wpc[v] \in {"start", "train", "stop", "fatal"}
  BY <1>1, GroupAssumption DEF GroupInv, TypeOK
<1>3. step[w] >= 2 /\ step[w] <= answered[s][grpOf[w]] + 1
  BY <1>1 DEF GroupInv, MemberInv, AnswerInv
<1>4. answered[s][grpOf[w]] <= step[v]
  BY <1>1 DEF GroupInv, AnswerInv, SyncGroup
<1>5. step[v] # 0
  BY <1>2, <1>3, <1>4
<1> QED BY <1>2, <1>5 DEF GroupInv, MemberInv

LEMMA ServerStepInv ==
  ASSUME SyncGroup, GroupInv, NEW s \in Server, ServerThread(s)
  PROVE  GroupInv'
<1>1. CASE \E g \in Group : HandleUpdate(s, g)
  <2>1. PICK g \in Group : HandleUpdate(s, g)
    BY <1>1
  <2>2. /\ answered \in [Server -> [Group -> Nat]] /\ step \in [Worker -> Nat]
        /\ grpOf \in [Worker -> Group] /\ s \in Keeper /\ Keeper \subseteq Server
    BY <2>1, GroupAssumption DEF GroupInv, TypeOK, HandleUpdate, UpdateReady
  <2>3. /\ answered' = [answered EXCEPT ![s][g] = answered[s][g] + 1]
        /\ \A w \in Worker : grpOf[w] = g => step[w] > answered[s][g]
        /\ spc' = [spc EXCEPT ![s] = "loop"]
        /\ UNCHANGED <<zkVars, fn, running, workerVars>>
    BY <2>1 DEF HandleUpdate, UpdateReady
  <2>4. TypeOK'
    BY <2>2, <2>3 DEF GroupInv, TypeOK, zkVars, workerVars
  <2>5. AnswerInv'
    <3> SUFFICES ASSUME NEW z \in Keeper, NEW w \in Worker
                 PROVE  /\ answered'[z][grpOf[w]] <= step[w]
                        /\ step[w] <= answered'[z][grpOf[w]] + 1
      BY <2>3 DEF AnswerInv, workerVars
    <3>1. /\ answered[z][grpOf[w]] <= step[w] /\ step[w] <= answered[z][grpOf[w]] + 1
          /\ z \in Server /\ grpOf[w] \in Group
          /\ answered[z][grpOf[w]] \in Nat /\ step[w] \in Nat
      BY <2>2 DEF GroupInv, AnswerInv
    <3>2. CASE z = s /\ grpOf[w] = g
      <4>1. answered'[z][grpOf[w]] = answered[z][grpOf[w]] + 1
        BY <2>2, <2>3, <3>1, <3>2
      <4>2. step[w] > answered[z][grpOf[w]]
        BY <2>3, <3>2
      <4> QED BY <3>1, <4>1, <4>2
    <3>3. CASE ~(z = s /\ grpOf[w] = g)
      BY <2>2, <2>3, <3>1, <3>3
    <3> QED BY <3>2, <3>3
  <2>6. MemberInv' /\ EventInv' /\ StopOnlyAfterAllLeft'
    BY <2>3 DEF GroupInv, MemberInv, EventInv, StopOnlyAfterAllLeft, AllLeft, zkVars, workerVars
  <2> QED BY <2>4, <2>5, <2>6 DEF GroupInv
<1>2. CASE CreateGroupNode(s) \/ WatchSGroup(s) \/ CheckRunning(s) \/ PollTimeout(s)
  <2>1. TypeOK'
    BY <1>2 DEF GroupInv, TypeOK, CreateGroupNode, WatchSGroup, CheckRunning, PollTimeout,
                zkVars, workerVars
  <2>2. UNCHANGED <<children, event, running, answered, wpc, retry, step>>
    BY <1>2 DEF CreateGroupNode, WatchSGroup, CheckRunning, PollTimeout, zkVars, workerVars
  <2>3. MemberInv' /\ AnswerInv' /\ EventInv' /\ StopOnlyAfterAllLeft'
    BY <2>2 DEF GroupInv, MemberInv, AnswerInv, EventInv, StopOnlyAfterAllLeft, AllLeft
  <2> QED BY <2>1, <2>3 DEF GroupInv
<1> QED BY <1>1, <1>2 DEF ServerThread

LEMMA ChildChangesInv ==
  ASSUME SyncGroup, GroupInv, NEW s \in Server, ChildChanges(s)
  PROVE  GroupInv'
<1>1. TypeOK'
  BY DEF GroupInv, TypeOK, ChildChanges, workerVars
<1>2. UNCHANGED <<children, answered, wpc, retry, step>> /\ event' \subseteq event
  BY DEF ChildChanges, workerVars
<1>3. MemberInv' /\ AnswerInv' /\ EventInv'
  BY <1>2 DEF GroupInv, MemberInv, AnswerInv, EventInv
<1>4. children = {} => AllLeft
  <2> SUFFICES ASSUME children = {}, NEW v \in Worker PROVE wpc[v] = "stop"
    BY DEF AllLeft
  <2>1. PICK w \in Worker : wpc[w] \in {"train", "stop"}
    BY DEF ChildChanges, GroupInv, EventInv
  <2>2. wpc[w] = "stop"
    BY <2>1 DEF GroupInv, MemberInv
  <2>3. wpc[v] \in {"train", "stop"}
    BY <2>2, LeftMeansAllJoined
  <2> QED BY <2>3 DEF GroupInv, MemberInv
<1>5. running' = running \/ children = {}
  BY DEF ChildChanges
<1>6. AllLeft' = AllLeft
  BY <1>2 DEF AllLeft
<1>7. StopOnlyAfterAllLeft'
  BY <1>4, <1>5, <1>6 DEF GroupInv, StopOnlyAfterAllLeft
<1> QED BY <1>1, <1>3, <1>7 DEF GroupInv

LEMMA WorkerStepInv ==
  ASSUME SyncGroup, GroupInv, NEW w \in Worker, WorkerThread(w)
  PROVE  GroupInv'
<1>1. /\ wpc \in [Worker -> {"start", "train", "stop", "fatal"}]
      /\ step \in [Worker -> Nat] /\ retry \in [Worker -> 0..NumRetry]
      /\ TrainSteps \in Nat /\ NumRetry \in Nat \ {0}
      /\ answered \in [Server -> [Group -> Nat]]
      /\ grpOf \in [Worker -> Group] /\ Keeper \subseteq Server
  BY GroupAssumption DEF GroupInv, TypeOK
<1>2. ~AllLeft /\ \A s \in Server : running[s]
  BY DEF WorkerThread, JoinSGroup, JoinRetry, TrainOneBatch, LeaveSGroup, AllLeft, GroupInv,
         StopOnlyAfterAllLeft
<1>3. UNCHANGED serverVars
  BY DEF WorkerThread, JoinSGroup, JoinRetry, TrainOneBatch, LeaveSGroup
<1>4. StopOnlyAfterAllLeft'
  BY <1>2, <1>3 DEF StopOnlyAfterAllLeft, serverVars
<1>5. CASE JoinSGroup(w)
  <2>1. TypeOK'
    BY <1>5 DEF GroupInv, TypeOK, JoinSGroup, ChangeChildren, serverVars
  <2>2. MemberInv'
    BY <1>1, <1>5 DEF GroupInv, MemberInv, JoinSGroup, ChangeChildren
  <2>3. AnswerInv' /\ EventInv'
    BY <1>1, <1>5 DEF GroupInv, AnswerInv, EventInv, JoinSGroup, serverVars
  <2> QED BY <1>4, <2>1, <2>2, <2>3 DEF GroupInv
<1>6. CASE JoinRetry(w)
  <2>1. retry[w] < NumRetry
    BY <1>6 DEF GroupInv, MemberInv, JoinRetry
  <2>2. TypeOK'
    BY <1>1, <1>6, <2>1 DEF GroupInv, TypeOK, JoinRetry, serverVars, zkVars
  <2>3. MemberInv'
    BY <1>1, <1>6, <2>1 DEF GroupInv, MemberInv, JoinRetry, zkVars
  <2>4. AnswerInv'
    BY <1>6 DEF GroupInv, AnswerInv, JoinRetry, serverVars
  <2>5. EventInv'
    BY <1>1, <1>6 DEF GroupInv, EventInv, JoinRetry, zkVars
  <2> QED BY <1>4, <2>2, <2>3, <2>4, <2>5 DEF GroupInv
<1>7. CASE TrainOneBatch(w)
  <2>1. TypeOK'
    BY <1>1, <1>7 DEF GroupInv, TypeOK, TrainOneBatch, serverVars, zkVars
  <2>2. MemberInv' /\ EventInv'
    BY <1>1, <1>7 DEF GroupInv, MemberInv, EventInv, TrainOneBatch, zkVars
  <2>3. AnswerInv'
    <3> SUFFICES ASSUME NEW s \in Keeper, NEW v \in Worker
                 PROVE  /\ answered[s][grpOf[v]] <= step'[v]
                        /\ step'[v] <= answered[s][grpOf[v]] + 1
      BY <1>3 DEF AnswerInv, serverVars
    <3>1. /\ answered[s][grpOf[v]] \in Nat /\ step[v] \in Nat
          /\ answered[s][grpOf[v]] <= step[v] /\ step[v] <= answered[s][grpOf[v]] + 1
      BY <1>1 DEF GroupInv, AnswerInv
    <3>2. v = w => step[v] <= answered[s][grpOf[v]]
      BY <1>1, <1>7, <3>1 DEF TrainOneBatch, Collected
    <3>3. step'[v] = IF v = w THEN step[v] + 1 ELSE step[v]
      BY <1>1, <1>7 DEF TrainOneBatch
    <3> QED BY <3>1, <3>2, <3>3
  <2> QED BY <1>4, <2>1, <2>2, <2>3 DEF GroupInv
<1>8. CASE LeaveSGroup(w)
  <2>1. TypeOK'
    BY <1>8 DEF GroupInv, TypeOK, LeaveSGroup, ChangeChildren, serverVars
  <2>2. MemberInv'
    BY <1>1, <1>8 DEF GroupInv, MemberInv, LeaveSGroup, ChangeChildren, SyncGroup
  <2>3. AnswerInv' /\ EventInv'
    BY <1>1, <1>8 DEF GroupInv, AnswerInv, EventInv, LeaveSGroup, serverVars
  <2> QED BY <1>4, <2>1, <2>2, <2>3 DEF GroupInv
<1> QED BY <1>5, <1>6, <1>7, <1>8 DEF WorkerThread

LEMMA GroupInvariant == ASSUME SyncGroup PROVE Spec => []GroupInv
<1>1. GroupInv /\ UNCHANGED vars => GroupInv'
  BY DEF GroupInv, TypeOK, MemberInv, AnswerInv, EventInv, StopOnlyAfterAllLeft, AllLeft, vars,
         zkVars, serverVars, workerVars
<1>2. GroupInv /\ [Next]_vars => GroupInv'
  BY <1>1, ServerStepInv, ChildChangesInv, WorkerStepInv DEF Next, Terminated
<1> QED BY <1>2, GroupInit, PTL DEF Spec

\* The threads and the group node keep their types, the retries of a join stay
\* within their limit, in a job of one synchronous group.
THEOREM GroupTypeCorrect == ASSUME SyncGroup PROVE Spec => []TypeOK
<1>1. GroupInv => TypeOK
  BY DEF GroupInv
<1> QED BY <1>1, GroupInvariant, PTL

\* The servers of one synchronous group are told to stop only when every worker
\* has left, whatever the number of servers, workers and steps.
THEOREM GroupStopsLast == ASSUME SyncGroup PROVE Spec => []StopOnlyAfterAllLeft
<1>1. GroupInv => StopOnlyAfterAllLeft
  BY DEF GroupInv
<1> QED BY <1>1, GroupInvariant, PTL
=============================================================================
