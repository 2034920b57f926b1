-------------------------- MODULE ParamServerSafety --------------------------
(***************************************************************************)
(* Synchronous training is correct: IInv is an invariant of every SyncJob, *)
(* the safety properties follow from it, the blob's version only grows,    *)
(* and every step is a step of SyncSGD or leaves computed and applied      *)
(* alone.  Training with several worker groups, which update the           *)
(* parameters without waiting for each other, mixes no groups and keeps    *)
(* the gradients in order.                                                 *)
(***************************************************************************)
EXTENDS ParamServerInv, FiniteSetTheorems, SequenceTheorems, TLAPS

LEMMA NumLocalType == \A e \in Entry : NumLocal(e) \in Nat
<1> SUFFICES ASSUME NEW e \in Entry PROVE NumLocal(e) \in Nat
  OBVIOUS
<1>1. IsFiniteSet(Members(e))
  BY FS_Subset, TopologyAssumption DEF Members
<1> QED BY <1>1, FS_CardinalityType DEF NumLocal

LEMMA NumTotalType == \A g : NumTotal(g) \in Nat
<1> SUFFICES ASSUME NEW g PROVE NumTotal(g) \in Nat
  OBVIOUS
<1>1. IsFiniteSet({w \in Worker : grpOf[entryOf[w]] = g})
  BY FS_Subset, TopologyAssumption
<1> QED BY <1>1, FS_CardinalityType DEF NumTotal

LEMMA SliceCount == Cardinality(Slice) \in Nat \ {0}
BY FS_CardinalityType, FS_EmptySet, TopologyAssumption

(***************************************************************************)
(* Every variable keeps its type, for every cluster and every job.         *)
(***************************************************************************)
LEMMA GenMsgsType ==
  ASSUME NEW type \in {"kPut", "kGet", "kUpdate"}, NEW e \in Entry,
         NEW v \in Int, NEW n \in Int,
         NEW grads \in [Slice -> SUBSET Gradient]
  PROVE  GenMsgs(type, e, v, n, grads) \subseteq Request
BY DEF GenMsgs, Request

LEMMA TypeInit == Init => TypeOK
<1> SUFFICES ASSUME Init PROVE TypeOK
  OBVIOUS
<1> USE NumbersAssumption DEF Init
<1>1. Uninitialized \in Values
  BY DEF Uninitialized, Values
<1>2. WorkerTypeOK
  BY <1>1 DEF WorkerTypeOK
<1>3. StubTypeOK
  BY <1>1, NumLocalType DEF StubTypeOK
<1>4. MsgTypeOK
  BY DEF MsgTypeOK
<1>5. ServerTypeOK
  BY DEF ServerTypeOK
<1> QED BY <1>2, <1>3, <1>4, <1>5 DEF TypeOK

LEMMA SendType ==
  ASSUME MsgTypeOK, NEW w \in Worker, NEW v \in Int,
         NEW type \in {"kPut", "kGet", "kUpdate", "kStop"}, SendToStub(w, type, v)
  PROVE  dealer' \in [Worker -> Seq(StubMsg)]
<1>1. [type |-> type, version |-> v] \in StubMsg
  BY DEF StubMsg
<1>2. dealer[w] \in Seq(StubMsg)
  BY DEF MsgTypeOK
<1>3. Append(dealer[w], [type |-> type, version |-> v]) \in Seq(StubMsg)
  BY <1>1, <1>2, AppendProperties
<1> QED BY <1>3 DEF MsgTypeOK, SendToStub

LEMMA TypeWorker ==
  ASSUME TypeOK, NEW w \in Worker, WorkerStep(w)
  PROVE  TypeOK'
<1> DEFINE e == entryOf[w]
<1>1. WorkerTypeOK /\ StubTypeOK /\ MsgTypeOK /\ ServerTypeOK
  BY DEF TypeOK
<1>2. step[w] \in Int /\ e \in Entry
  BY <1>1, TopologyAssumption DEF WorkerTypeOK
<1>3. data[e] \in Values /\ version[e] \in Int
  BY <1>1, <1>2 DEF StubTypeOK
<1>4. requests' = requests /\ replies' = replies /\ UNCHANGED <<stubVars, serverVars, status>>
  BY DEF WorkerStep, InitLocalParams, Put, Get, Forward, Backward, Checkpoint, Stop
<1>5. ServerTypeOK'
  BY <1>1, <1>4 DEF ServerTypeOK, serverVars
<1>6. StubTypeOK'
  <2>1. CASE InitLocalParams(w)
    <3>1. Filled \in Values
      BY DEF Filled, Values
    <3>2. \/ /\ version' = [version EXCEPT ![e] = InitVersion]
             /\ data' = [data EXCEPT ![e] = Filled]
          \/ UNCHANGED blobVars
      BY <2>1 DEF InitLocalParams
    <3>3. version' \in [Entry -> Int]
      BY <1>1, <3>2, NumbersAssumption DEF StubTypeOK, blobVars
    <3>4. data' \in [Entry -> Values]
      BY <1>1, <3>1, <3>2 DEF StubTypeOK, blobVars
    <3> QED
      BY <1>1, <1>4, <3>3, <3>4 DEF StubTypeOK, stubVars
  <2>2. CASE UNCHANGED blobVars
    BY <1>1, <1>4, <2>2 DEF StubTypeOK, blobVars, stubVars
  <2> QED BY <2>1, <2>2
      DEF WorkerStep, Put, Get, Forward, Backward, Checkpoint, Stop
<1>7. MsgTypeOK'
  <2>1. dealer' \in [Worker -> Seq(StubMsg)]
    <3>1. CASE UNCHANGED dealer
      BY <1>1, <3>1 DEF MsgTypeOK
    <3>2. CASE \E type \in {"kPut", "kGet", "kUpdate", "kStop"}, v \in Int : SendToStub(w, type, v)
      BY <1>1, <3>2, SendType
    <3> QED BY <1>2, <3>1, <3>2, NumbersAssumption
        DEF WorkerStep, InitLocalParams, Put, Get, Forward, Backward, Checkpoint, Stop
  <2> QED BY <1>1, <1>4, <2>1 DEF MsgTypeOK
<1>8. WorkerTypeOK'
  <2>0. checkpoint' \subseteq [step : Nat, version : Int, values : Values]
    <3>1. CASE WriteCheckpoint(w)
      BY <1>1, <1>3, <3>1 DEF WriteCheckpoint, CheckpointFile, WorkerTypeOK
    <3>2. CASE UNCHANGED checkpoint
      BY <1>1, <3>2 DEF WorkerTypeOK
    <3> QED BY <3>1, <3>2
        DEF WorkerStep, InitLocalParams, Put, Get, Forward, Backward, Checkpoint, Stop
  <2>1. CASE InitLocalParams(w) \/ Put(w) \/ Get(w)
    BY <1>1, <2>0, <2>1 DEF InitLocalParams, Put, Get, WorkerTypeOK
  <2>2. CASE Forward(w)
    BY <1>1, <1>3, <2>0, <2>2 DEF Forward, WorkerTypeOK
  <2>3. CASE Backward(w)
    BY <1>1, <1>3, <2>0, <2>3 DEF Backward, WorkerTypeOK
  <2>4. CASE Checkpoint(w) \/ Stop(w)
    BY <1>1, <2>0, <2>4 DEF Checkpoint, Stop, WorkerTypeOK
  <2> QED BY <2>1, <2>2, <2>3, <2>4 DEF WorkerStep
<1> QED BY <1>5, <1>6, <1>7, <1>8 DEF TypeOK

LEMMA ReceiveType ==
  ASSUME MsgTypeOK, NEW w \in Worker, NEW type, Receive(w, type)
  PROVE  /\ dealer' \in [Worker -> Seq(StubMsg)]
         /\ Head(dealer[w]) \in StubMsg
         /\ Head(dealer[w]).version \in Int
<1>1. dealer[w] \in Seq(StubMsg) /\ dealer[w] # <<>>
  BY DEF MsgTypeOK, Receive
<1>2. Head(dealer[w]) \in StubMsg /\ Tail(dealer[w]) \in Seq(StubMsg)
  BY <1>1, HeadTailProperties
<1> QED BY <1>2 DEF MsgTypeOK, Receive, StubMsg

LEMMA LocalGradsType ==
  ASSUME WorkerTypeOK, NEW e \in Entry
  PROVE  LocalGrads(e) \in [Slice -> SUBSET Gradient]
<1>1. \A x \in Worker, s \in Slice :
        [worker |-> x, step |-> grad[x].step, base |-> grad[x].base[s]] \in Gradient
  BY DEF Gradient, Values, WorkerTypeOK
<1> QED BY <1>1 DEF LocalGrads, Members

LEMMA TypeStubRequest ==
  ASSUME TypeOK, NEW w \in Worker, StubRequest(w)
  PROVE  TypeOK'
<1> DEFINE e == entryOf[w]
<1>1. WorkerTypeOK /\ StubTypeOK /\ MsgTypeOK /\ ServerTypeOK
  BY DEF TypeOK
<1>2. e \in Entry
  BY TopologyAssumption
<1>3. replies' = replies /\ UNCHANGED <<workerVars, blobVars, serverVars, status>>
  BY DEF StubRequest, StubHandlePut, StubHandleGet, StubHandleUpdate, StubHandleStop
<1>4. WorkerTypeOK'
  BY <1>1, <1>3 DEF WorkerTypeOK, workerVars
<1>5. ServerTypeOK'
  BY <1>1, <1>3 DEF ServerTypeOK, serverVars
<1>6. NoGrads \in [Slice -> SUBSET Gradient]
  BY DEF NoGrads
<1>7. CASE StubHandlePut(w)
  <2>1. Receive(w, "kPut")
    BY <1>7 DEF StubHandlePut
  <2>2. requests' \subseteq Request
    <3>1. GenMsgs("kPut", e, Head(dealer[w]).version, NumTotal(grpOf[e]), NoGrads)
            \subseteq Request
      <4>1. Head(dealer[w]).version \in Int
        BY <1>1, <2>1, ReceiveType
      <4>2. NumTotal(grpOf[e]) \in Int
        BY NumTotalType
      <4> QED BY <1>2, <1>6, <4>1, <4>2, GenMsgsType
    <3> QED BY <1>1, <1>7, <3>1 DEF StubHandlePut, MsgTypeOK
  <2>3. MsgTypeOK'
    BY <1>1, <1>3, <2>1, <2>2, ReceiveType DEF MsgTypeOK
  <2>4. StubTypeOK'
    BY <1>1, <1>3, <1>7 DEF StubHandlePut, StubTypeOK, stubVars, blobVars
  <2> QED BY <1>4, <1>5, <2>3, <2>4 DEF TypeOK
<1>8. CASE StubHandleGet(w)
  <2>1. Receive(w, "kGet")
    BY <1>8 DEF StubHandleGet
  <2>2. requests' \subseteq Request
    <3>1. GenMsgs("kGet", e, Head(dealer[w]).version, 0, NoGrads) \subseteq Request
      BY <1>1, <1>2, <1>6, <2>1, GenMsgsType, ReceiveType
    <3> QED BY <1>1, <1>8, <3>1 DEF StubHandleGet, MsgTypeOK
  <2>3. MsgTypeOK'
    BY <1>1, <1>3, <2>1, <2>2, ReceiveType DEF MsgTypeOK
  <2>4. Head(dealer[w]).version \in Int
    BY <1>1, <2>1, ReceiveType
  <2>5. StubTypeOK'
    BY <1>1, <1>2, <1>3, <1>8, <2>4, SliceCount DEF StubHandleGet, StubTypeOK, blobVars
  <2> QED BY <1>4, <1>5, <2>3, <2>5 DEF TypeOK
<1>9. CASE StubHandleUpdate(w)
  <2>1. Receive(w, "kUpdate")
    BY <1>9 DEF StubHandleUpdate
  <2>2. requests' \subseteq Request
    <3>1. GenMsgs("kUpdate", e, Head(dealer[w]).version, NumLocal(e), LocalGrads(e))
            \subseteq Request
      BY <1>1, <1>2, <2>1, NumLocalType, LocalGradsType, GenMsgsType, ReceiveType
    <3> QED BY <1>1, <1>9, <3>1 DEF StubHandleUpdate, MsgTypeOK
  <2>3. MsgTypeOK'
    BY <1>1, <1>3, <2>1, <2>2, ReceiveType DEF MsgTypeOK
  <2>4. StubTypeOK'
    BY <1>1, <1>2, <1>3, <1>9, SliceCount DEF StubHandleUpdate, StubTypeOK, blobVars
  <2> QED BY <1>4, <1>5, <2>3, <2>4 DEF TypeOK
<1>10. CASE StubHandleStop(w)
  <2>1. Receive(w, "kStop") /\ requests' = requests
    BY <1>10 DEF StubHandleStop
  <2>2. MsgTypeOK'
    BY <1>1, <1>3, <2>1, ReceiveType DEF MsgTypeOK
  <2>3. StubTypeOK'
    BY <1>1, <1>2, <1>3, <1>10 DEF StubHandleStop, StubTypeOK, blobVars
  <2> QED BY <1>4, <1>5, <2>2, <2>3 DEF TypeOK
<1> QED BY <1>7, <1>8, <1>9, <1>10 DEF StubRequest

LEMMA TypeStubReply ==
  ASSUME TypeOK, NEW r \in replies, StubReply(r)
  PROVE  TypeOK'
<1>1. WorkerTypeOK /\ StubTypeOK /\ MsgTypeOK /\ ServerTypeOK
  BY DEF TypeOK
<1>2. r.entry \in Entry /\ r.slice \in Slice /\ r.version \in Int /\ r.value \in Int
  BY <1>1 DEF MsgTypeOK, Reply
<1>3. UNCHANGED <<workerVars, dealer, requests, serverVars, num_update, next_version,
                  nworkers>>
  BY DEF StubReply, HandleGetResponse, HandleUpdateResponse
<1>4. WorkerTypeOK'
  BY <1>1, <1>3 DEF WorkerTypeOK, workerVars
<1>5. ServerTypeOK'
  BY <1>1, <1>3 DEF ServerTypeOK, serverVars, StubReply, HandleGetResponse,
                   HandleUpdateResponse
<1>6. MsgTypeOK'
  BY <1>1, <1>3 DEF MsgTypeOK, StubReply, HandleGetResponse, HandleUpdateResponse
<1>7. /\ data' \in [Entry -> Values]
      /\ version' \in [Entry -> Int]
      /\ num_pending' \in [Entry -> Int]
  <2>1. CASE ParseResponse(r)
    BY <1>1, <1>2, <2>1 DEF ParseResponse, StubTypeOK, Values
  <2>2. CASE UNCHANGED <<num_pending, blobVars>>
    BY <1>1, <2>2 DEF StubTypeOK, blobVars
  <2> QED BY <2>1, <2>2 DEF StubReply, HandleGetResponse, HandleUpdateResponse
<1>8. StubTypeOK'
  BY <1>1, <1>3, <1>7 DEF StubTypeOK, StubReply, HandleGetResponse, HandleUpdateResponse
<1> QED BY <1>4, <1>5, <1>6, <1>8 DEF TypeOK

LEMMA TypeServer ==
  ASSUME TypeOK, NEW m \in requests, ServerStep(m)
  PROVE  TypeOK'
<1>1. WorkerTypeOK /\ StubTypeOK /\ MsgTypeOK /\ ServerTypeOK
  BY DEF TypeOK
<1>2. /\ m \in Request /\ m.entry \in Entry /\ m.slice \in Slice
      /\ m.version \in Int /\ m.num \in Int
  BY <1>1 DEF MsgTypeOK, Request
<1>3. requests' = requests \ {m} /\ UNCHANGED <<workerVars, dealer, blobVars, stubVars>>
  BY DEF ServerStep, ServerHandlePut, ServerHandleGet, ServerHandleUpdate
<1>4. WorkerTypeOK'
  BY <1>1, <1>3 DEF WorkerTypeOK, workerVars
<1>5. StubTypeOK'
  BY <1>1, <1>3 DEF StubTypeOK, stubVars, blobVars
<1>6. CASE ServerHandlePut(m)
  <2>1. MsgTypeOK'
    BY <1>1, <1>3, <1>6 DEF ServerHandlePut, MsgTypeOK
  <2>2. ServerTypeOK'
    BY <1>1, <1>2, <1>6 DEF ServerHandlePut, ServerTypeOK, serverVars
  <2> QED BY <1>4, <1>5, <2>1, <2>2 DEF TypeOK
<1>7. CASE ServerHandleGet(m)
  <2>1. replies' \subseteq Reply
    <3>1. server_version[m.slice] \in Int /\ Len(log[m.slice]) \in Int
      BY <1>1, <1>2, LenProperties DEF ServerTypeOK
    <3> QED BY <1>1, <1>2, <1>7, <3>1 DEF ServerHandleGet, Reply, MsgTypeOK
  <2>2. MsgTypeOK'
    BY <1>1, <1>3, <2>1 DEF MsgTypeOK
  <2>3. ServerTypeOK'
    BY <1>1, <1>7 DEF ServerHandleGet, ServerTypeOK, serverVars
  <2> QED BY <1>4, <1>5, <2>2, <2>3 DEF TypeOK
<1>8. CASE ServerHandleUpdate(m)
  <2> DEFINE s == m.slice
             buffered == buffer_requests[s] \cup {m}
             grads == UNION {b.grads : b \in buffered}
  <2>1. buffered \subseteq Request
    BY <1>1, <1>2 DEF ServerTypeOK
  <2>2. grads \subseteq Gradient
    BY <2>1 DEF Request
  <2>3. /\ log[s] \in Seq(SUBSET Gradient) /\ Len(log[s]) + 1 \in Int
        /\ server_local_version[s] + 1 \in Int
    BY <1>1, <1>2, LenProperties DEF ServerTypeOK
  <2>4. Append(log[s], grads) \in Seq(SUBSET Gradient)
    BY <2>2, <2>3, AppendProperties
  <2>5. replies' \subseteq Reply
    <3>1. \A b \in buffered : b.entry \in Entry
      BY <2>1 DEF Request
    <3>2. \A v \in Int, x \in Int :
            {[type |-> "kRUpdate", entry |-> b.entry, slice |-> s,
              version |-> v, value |-> x] : b \in buffered} \subseteq Reply
      BY <1>2, <3>1 DEF Reply
    <3> QED BY <1>1, <1>8, <2>3, <3>2 DEF ServerHandleUpdate, MsgTypeOK
  <2>6. MsgTypeOK'
    BY <1>1, <1>3, <2>5 DEF MsgTypeOK
  <2>7. log' \in [Slice -> Seq(SUBSET Gradient)]
    BY <1>1, <1>2, <1>8, <2>4 DEF ServerHandleUpdate, ServerTypeOK
  <2>8. buffer_requests' \in [Slice -> SUBSET Request]
    BY <1>1, <1>2, <1>8, <2>1 DEF ServerHandleUpdate, ServerTypeOK
  <2>9. /\ server_num_update' \in [Slice -> Int]
        /\ server_local_version' \in [Slice -> Int]
        /\ status' \in {"running", "fatal"}
        /\ UNCHANGED <<shard, num_total, server_version>>
    <3>1. server_num_update[s] + m.num \in Int
      BY <1>1, <1>2 DEF ServerTypeOK
    <3>2. server_num_update' \in [Slice -> Int]
      BY <1>1, <1>2, <1>8, <3>1 DEF ServerHandleUpdate, ServerTypeOK
    <3>3. server_local_version' \in [Slice -> Int]
      BY <1>1, <1>2, <1>8, <2>3 DEF ServerHandleUpdate, ServerTypeOK
    <3>4. status' \in {"running", "fatal"} /\ UNCHANGED <<shard, num_total, server_version>>
      BY <1>8 DEF ServerHandleUpdate
    <3> QED BY <3>2, <3>3, <3>4
  <2>10. ServerTypeOK'
    BY <1>1, <2>7, <2>8, <2>9 DEF ServerTypeOK
  <2> QED BY <1>4, <1>5, <2>6, <2>10 DEF TypeOK
<1> QED BY <1>6, <1>7, <1>8 DEF ServerStep

LEMMA TypeStutter == TypeOK /\ UNCHANGED vars => TypeOK'
BY DEF TypeOK, WorkerTypeOK, StubTypeOK, MsgTypeOK, ServerTypeOK,
       vars, workerVars, blobVars, stubVars, serverVars

\* Every variable of the protocol has its type in every state, whatever the
\* cluster, the number of slices and the job.
THEOREM TypeCorrect == Spec => []TypeOK
<1>1. TypeOK /\ [Next]_vars => TypeOK'
  BY TypeWorker, TypeStubRequest, TypeStubReply, TypeServer, TypeStutter
     DEF Next, Terminated
<1> QED BY <1>1, TypeInit, PTL DEF Spec

-----------------------------------------------------------------------------
(***************************************************************************)
(* Facts about the topology                                                *)
(***************************************************************************)
LEMMA MembersFinite ==
  ASSUME NEW e \in Entry
  PROVE  /\ IsFiniteSet(Members(e)) /\ Members(e) # {} /\ Members(e) \subseteq Worker
         /\ NumLocal(e) \in Nat \ {0}
<1>1. IsFiniteSet(Members(e)) /\ Members(e) \subseteq Worker
  BY FS_Subset, TopologyAssumption DEF Members
<1>2. Members(e) # {}
  BY TopologyAssumption DEF Members
<1> QED BY <1>1, <1>2, FS_CardinalityType, FS_EmptySet DEF NumLocal

LEMMA OwnerEntry == entryOf[Owner] \in Entry
BY TopologyAssumption

LEMMA SliceSets ==
  ASSUME NEW S \in SUBSET Slice
  PROVE  /\ IsFiniteSet(S) /\ Cardinality(S) \in Nat
         /\ Cardinality(S) = 0 <=> S = {}
         /\ Cardinality(S) <= Cardinality(Slice)
BY FS_Subset, FS_CardinalityType, FS_EmptySet, TopologyAssumption

\* Removing one pending slice: the count of the rest says whether it was the
\* last, and so does the count modulo the number of slices.
LEMMA LastPending ==
  ASSUME NEW S \in SUBSET Slice, NEW s \in S
  PROVE  /\ Cardinality(S \ {s}) = Cardinality(S) - 1
         /\ (Cardinality(S) - 1) % Cardinality(Slice) = 0 <=> S \ {s} = {}
<1>1. Cardinality(S \ {s}) = Cardinality(S) - 1
  BY SliceSets, FS_RemoveElement
<1>2. Cardinality(S) - 1 \in Nat /\ Cardinality(S) - 1 < Cardinality(Slice)
  BY <1>1, SliceSets
<1>3. Cardinality(S) - 1 = 0 <=> S \ {s} = {}
  BY <1>1, SliceSets
<1>4. \A i \in Nat, n \in Nat \ {0} : i < n => i % n = i
  OBVIOUS
<1> QED BY <1>1, <1>2, <1>3, <1>4, SliceCount

(***************************************************************************)
(* Facts about the dealers                                                 *)
(***************************************************************************)
LEMMA SendEffect ==
  ASSUME MsgTypeOK, NEW w \in Worker, NEW v \in Int,
         NEW type \in {"kPut", "kGet", "kUpdate", "kStop"}, SendToStub(w, type, v)
  PROVE  /\ Len(dealer[w]) \in Nat
         /\ Len(dealer'[w]) = Len(dealer[w]) + 1
         /\ \A i \in 1..Len(dealer[w]) : dealer'[w][i] = dealer[w][i]
         /\ dealer'[w][Len(dealer[w]) + 1].type = type
         /\ dealer'[w][Len(dealer[w]) + 1].version = v
         /\ dealer'[w] # <<>>
         /\ \A x \in Worker : x # w => dealer'[x] = dealer[x]
<1>1. dealer[w] \in Seq(StubMsg) /\ dealer \in [Worker -> Seq(StubMsg)]
  BY DEF MsgTypeOK
<1>2. dealer'[w] = Append(dealer[w], [type |-> type, version |-> v])
  BY <1>1 DEF SendToStub
<1>3. [type |-> type, version |-> v] \in StubMsg
  BY DEF StubMsg
<1>4. \A x \in Worker : x # w => dealer'[x] = dealer[x]
  BY <1>1 DEF SendToStub
<1>5. dealer'[w][Len(dealer[w]) + 1] = [type |-> type, version |-> v]
  BY <1>1, <1>2, <1>3, AppendProperties
<1>6. /\ Len(dealer[w]) \in Nat /\ Len(dealer'[w]) = Len(dealer[w]) + 1
      /\ \A i \in 1..Len(dealer[w]) : dealer'[w][i] = dealer[w][i]
      /\ dealer'[w] # <<>>
  BY <1>1, <1>2, <1>3, AppendProperties, LenProperties
<1> QED BY <1>4, <1>5, <1>6

LEMMA ReceiveEffect ==
  ASSUME MsgTypeOK, NEW w \in Worker, NEW type, Receive(w, type)
  PROVE  /\ Len(dealer[w]) \in Nat \ {0}
         /\ dealer[w][1] = Head(dealer[w]) /\ dealer[w][1].type = type
         /\ Len(dealer'[w]) = Len(dealer[w]) - 1
         /\ \A i \in 1..Len(dealer'[w]) : dealer'[w][i] = dealer[w][i + 1]
         /\ \A x \in Worker : x # w => dealer'[x] = dealer[x]
<1>1. dealer[w] \in Seq(StubMsg) /\ dealer \in [Worker -> Seq(StubMsg)] /\ dealer[w] # <<>>
  BY DEF MsgTypeOK, Receive
<1>2. dealer'[w] = Tail(dealer[w]) /\ Head(dealer[w]).type = type
  BY <1>1 DEF Receive
<1>3. \A x \in Worker : x # w => dealer'[x] = dealer[x]
  BY <1>1 DEF Receive
<1>4. Len(dealer[w]) \in Nat \ {0} /\ dealer[w][1] = Head(dealer[w])
  BY <1>1, HeadTailProperties, EmptySeq, LenProperties
<1>5. Len(dealer'[w]) = Len(dealer[w]) - 1
  BY <1>1, <1>2, HeadTailProperties
<1>6. \A i \in 1..Len(dealer'[w]) : dealer'[w][i] = dealer[w][i + 1]
  BY <1>1, <1>2, HeadTailProperties
<1> QED BY <1>2, <1>3, <1>4, <1>5, <1>6

\* Sending anything but an update, and receiving anything but an update, leave
\* the workers counted for the current round alone.
LEMMA QueuedAfterSend ==
  ASSUME MsgTypeOK, NEW w \in Worker, NEW v \in Int,
         NEW type \in {"kPut", "kGet", "kUpdate", "kStop"}, SendToStub(w, type, v)
  PROVE  /\ \A x \in Worker : x # w => (UpdateQueued(x)' <=> UpdateQueued(x))
         /\ type = "kUpdate" => UpdateQueued(w)'
         /\ type # "kUpdate" => (UpdateQueued(w)' <=> UpdateQueued(w))
<1> DEFINE n == Len(dealer[w])
<1>0. /\ n \in Nat /\ Len(dealer'[w]) = n + 1
      /\ \A i \in 1..n : dealer'[w][i] = dealer[w][i]
      /\ dealer'[w][n + 1].type = type
      /\ \A x \in Worker : x # w => dealer'[x] = dealer[x]
  BY SendEffect
<1>1. \A x \in Worker : x # w => (UpdateQueued(x)' <=> UpdateQueued(x))
  BY <1>0 DEF UpdateQueued
<1>2. type = "kUpdate" => UpdateQueued(w)'
  BY <1>0 DEF UpdateQueued
<1>3. type # "kUpdate" => (UpdateQueued(w)' <=> UpdateQueued(w))
  <2>1. \A i \in 1..n+1 : i \in 1..n \/ i = n + 1
    BY <1>0
  <2>2. \A i \in 1..n : i \in 1..n+1
    BY <1>0
  <2> QED BY <1>0, <2>1, <2>2 DEF UpdateQueued
<1> QED BY <1>1, <1>2, <1>3

LEMMA QueuedAfterReceive ==
  ASSUME MsgTypeOK, DealerInv, NEW w \in Worker, NEW type, Receive(w, type)
  PROVE  /\ \A x \in Worker : x # w => (UpdateQueued(x)' <=> UpdateQueued(x))
         /\ type = "kUpdate" => UpdateQueued(w) /\ ~UpdateQueued(w)'
         /\ type # "kUpdate" => (UpdateQueued(w)' <=> UpdateQueued(w))
<1>0. /\ Len(dealer[w]) \in Nat \ {0} /\ Len(dealer'[w]) = Len(dealer[w]) - 1
      /\ dealer[w][1].type = type
      /\ \A i \in 1..Len(dealer'[w]) : dealer'[w][i] = dealer[w][i + 1]
      /\ \A x \in Worker : x # w => dealer'[x] = dealer[x]
  BY ReceiveEffect
<1>1. \A x \in Worker : x # w => (UpdateQueued(x)' <=> UpdateQueued(x))
  BY <1>0 DEF UpdateQueued
<1>2. ASSUME type = "kUpdate" PROVE UpdateQueued(w) /\ ~UpdateQueued(w)'
  <2>1. \A j \in 1..Len(dealer[w]) : dealer[w][j].type = "kUpdate" => j = 1
    BY <1>0, <1>2 DEF DealerInv, DealerOK
  <2> QED BY <1>0, <1>2, <2>1 DEF UpdateQueued
<1>3. type # "kUpdate" => (UpdateQueued(w)' <=> UpdateQueued(w))
  <2>1. \A j \in 1..Len(dealer[w]) : j # 1 =>
          j - 1 \in 1..Len(dealer'[w]) /\ dealer'[w][j - 1] = dealer[w][j]
    BY <1>0
  <2>2. \A i \in 1..Len(dealer'[w]) : i + 1 \in 1..Len(dealer[w])
    BY <1>0
  <2> QED BY <1>0, <2>1, <2>2 DEF UpdateQueued
<1> QED BY <1>1, <1>2, <1>3

(***************************************************************************)
(* What a part of the invariant depends on                                 *)
(***************************************************************************)
LEMMA WorkerFrame ==
  WorkerInv /\ UNCHANGED <<pc, step, local_version, seen, grad, version>> => WorkerInv'
BY DEF WorkerInv, WorkerOK, Ready

LEMMA DealerFrame ==
  DealerInv /\ UNCHANGED <<dealer, pc, step, version>> => DealerInv'
BY DEF DealerInv, DealerOK, Ready

LEMMA PutFrame ==
  PutInv /\ UNCHANGED <<pc, version, dealer, shard, requests>> => PutInv'
BY DEF PutInv, PutRequestOK, NotYetPut, Ready

LEMMA StubFrame ==
  ASSUME StubInv, UNCHANGED <<num_pending, pending_get, pending_update, num_update,
                              version, data>>,
         \A e \in Entry : Counted(e)' = Counted(e)
  PROVE  StubInv'
BY DEF StubInv, StubOK, Ready

LEMMA CountedFrame ==
  ASSUME UNCHANGED <<step, version>>,
         \A x \in Worker : UpdateQueued(x)' <=> UpdateQueued(x)
  PROVE  \A e \in Entry : Counted(e)' = Counted(e)
BY DEF Counted, Members

LEMMA QueuedFrame ==
  dealer' = dealer => \A x \in Worker : UpdateQueued(x)' <=> UpdateQueued(x)
BY DEF UpdateQueued

LEMMA GetFrame ==
  GetInv /\ UNCHANGED <<next_version, pending_get, data, version, requests, replies,
                        pc, dealer>> => GetInv'
BY DEF GetInv, GetEntryOK, GetRequestOK, GetReplyOK, GetSentOK, Ready

LEMMA UpdateFrame ==
  UpdateInv /\ UNCHANGED <<requests, pending_update, version, log, buffer_requests,
                           replies>> => UpdateInv'
BY DEF UpdateInv, UpdateRequestOK, BufferOK, UpdateReplyOK, UpdateMsg

LEMMA UpdateShrinks ==
  ASSUME UpdateInv, UNCHANGED <<pending_update, version, log, buffer_requests>>,
         \A m \in requests' : m.type = "kUpdate" => m \in requests,
         \A r \in replies' : r.type = "kRUpdate" => r \in replies
  PROVE  UpdateInv'
<1>1. \A e, s : UpdateMsg(e, s)' = UpdateMsg(e, s)
  BY DEF UpdateMsg, NumLocal, Members
<1>2. \A m \in requests' : m.type = "kUpdate" => UpdateRequestOK(m)'
  BY <1>1 DEF UpdateInv, UpdateRequestOK
<1>3. \A s \in Slice : \A b \in buffer_requests[s] : BufferOK(s, b)'
  BY <1>1 DEF UpdateInv, BufferOK
<1>4. \A r \in replies' : r.type = "kRUpdate" => UpdateReplyOK(r)'
  BY DEF UpdateInv, UpdateReplyOK
<1> QED BY <1>2, <1>3, <1>4 DEF UpdateInv

LEMMA ServerFrame ==
  ServerInv /\ UNCHANGED <<log, buffer_requests, shard, num_total, server_version,
                           server_local_version, server_num_update, version,
                           pending_update>> => ServerInv'
BY DEF ServerInv, ServerOK, LagOK, BufferedShares, Ready

LEMMA LogFrame == ExactAggregation /\ UNCHANGED log => ExactAggregation'
BY DEF ExactAggregation

LEMMA CheckpointFrame ==
  PeriodicCheckpointExact /\ UNCHANGED checkpoint => PeriodicCheckpointExact'
BY DEF PeriodicCheckpointExact

(***************************************************************************)
(* Worker actions                                                          *)
(***************************************************************************)
\* The blob of the owner's process is filled exactly when the owner leaves
\* InitLocalParams, and nothing has happened in that process before.
LEMMA InvInitLocalParams ==
  ASSUME SyncJob, IInv, NEW w \in Worker, InitLocalParams(w)
  PROVE  IInv'
<1> DEFINE e == entryOf[w]
<1>1. TypeOK /\ WorkerTypeOK /\ StubTypeOK /\ MsgTypeOK
  BY DEF IInv, TypeOK
<1>2. e \in Entry /\ Owner \in Worker /\ entryOf \in [Worker -> Entry]
  BY TopologyAssumption
<1>3. /\ pc[w] = "init" /\ pc'[w] = "warmup"
      /\ \A x \in Worker : x # w => pc'[x] = pc[x]
      /\ UNCHANGED <<step, local_version, seen, grad, checkpoint, dealer, requests,
                     replies, status>>
      /\ UNCHANGED <<num_update, next_version, pending_get, pending_update, num_pending>>
      /\ UNCHANGED <<shard, num_total, server_num_update, server_version,
                     server_local_version, buffer_requests, log>>
  BY <1>1, <1>2 DEF InitLocalParams, WorkerTypeOK, SyncJob, InFirstGroup, stubVars, serverVars
<1>4. WorkerInv /\ DealerInv /\ PutInv /\ StubInv /\ GetInv /\ UpdateInv /\ ServerInv
  BY DEF IInv
<1>5. TypeOK'
  BY <1>1, TypeWorker DEF WorkerStep
<1>6. NoFatal' /\ ExactAggregation' /\ PeriodicCheckpointExact'
  BY <1>3, LogFrame, CheckpointFrame DEF IInv, NoFatal
<1>7. CASE w = Owner
  <2>1. ~Ready(e) /\ version[e] = -1 /\ NotYetPut
    BY <1>3, <1>4, <1>7 DEF PutInv, Ready
  <2>2. /\ version'[e] = Step0 /\ \A f \in Entry : f # e => version'[f] = version[f]
        /\ data'[e] = Filled /\ \A f \in Entry : f # e => data'[f] = data[f]
    BY <1>1, <1>2, <1>7, <2>1 DEF InitLocalParams, StubTypeOK, SyncJob
  <2>3. Ready(e)' /\ \A f \in Entry : f # e => (Ready(f)' <=> Ready(f))
    BY <2>2, NumbersAssumption DEF Ready
  <2>4. pending_get[e] = {} /\ pending_update[e] = {} /\ num_update[e] = 0
    BY <1>2, <1>4, <1>7, <2>1 DEF StubInv, StubOK, GetInv, GetEntryOK
  <2>5. \A x \in Members(e) : x \in Worker /\ step[x] = Step0
    BY <1>4, <2>1 DEF Members, WorkerInv, WorkerOK
  <2>6. WorkerInv'
    <3> SUFFICES ASSUME NEW x \in Worker PROVE WorkerOK(x)'
      BY DEF WorkerInv
    <3>1. WorkerOK(x) /\ step[x] \in Nat
      BY <1>1, <1>4 DEF WorkerInv, WorkerTypeOK
    <3>2. CASE entryOf[x] = e
      BY <1>3, <2>1, <2>2, <2>3, <3>1, <3>2, NumbersAssumption DEF WorkerOK
    <3>3. CASE entryOf[x] # e
      <4>1. x # w /\ entryOf[x] \in Entry
        BY <1>2, <3>3
      <4> QED BY <1>3, <2>2, <2>3, <3>1, <3>3, <4>1 DEF WorkerOK
    <3> QED BY <3>2, <3>3
  <2>7. DealerInv'
    <3> SUFFICES ASSUME NEW x \in Worker, NEW i \in 1..Len(dealer[x])
                 PROVE  DealerOK(x, i)'
      BY <1>3 DEF DealerInv
    <3>1. DealerOK(x, i) /\ entryOf[x] \in Entry
      BY <1>2, <1>4 DEF DealerInv
    <3>2. pc'[x] = "stop" <=> pc[x] = "stop"
      BY <1>3
    <3> QED BY <1>3, <2>1, <2>2, <2>3, <3>1, <3>2 DEF DealerOK
  <2>8. PutInv'
    BY <1>2, <1>3, <1>4, <1>7, <2>3 DEF PutInv, PutRequestOK, NotYetPut
  <2>9. StubInv'
    <3> SUFFICES ASSUME NEW f \in Entry PROVE StubOK(f)'
      BY DEF StubInv
    <3>1. StubOK(f)
      BY <1>4 DEF StubInv
    <3>2. CASE f = e
      <4>1. Counted(e)' = {}
        BY <1>3, <2>2, <2>5, NumbersAssumption DEF Counted, Members
      <4>2. Members(e) # {} /\ Members(e)' = Members(e)
        BY <1>2, MembersFinite DEF Members
      <4>3. \A s \in Slice : data'[e][s] = 0
        BY <2>2 DEF Filled
      <4> QED BY <1>3, <2>2, <2>3, <2>4, <3>1, <3>2, <4>1, <4>2, <4>3, FS_EmptySet,
                 NumbersAssumption DEF StubOK
    <3>3. CASE f # e
      <4>1. Counted(f)' = Counted(f) /\ Members(f)' = Members(f)
        BY <1>3, <2>2, <3>3 DEF Counted, Members, UpdateQueued
      <4> QED BY <1>3, <2>2, <2>3, <3>1, <3>3, <4>1 DEF StubOK
    <3> QED BY <3>2, <3>3
  <2>10. GetInv'
    <3>1. \A f \in Entry : GetEntryOK(f)'
      BY <1>3, <1>4, <1>7, <2>2, <2>3, <2>4 DEF GetInv, GetEntryOK
    <3>2. \A x \in Worker : GetSentOK(x)'
      BY <1>2, <1>3, <1>4, <2>3 DEF GetInv, GetSentOK
    <3> QED BY <1>3, <1>4, <3>1, <3>2 DEF GetInv, GetRequestOK, GetReplyOK
  <2>11. UpdateInv'
    <3>1. ASSUME NEW f \in Entry, NEW s \in Slice, s \in pending_update[f]
          PROVE  version'[f] = version[f] /\ UpdateMsg(f, s)' = UpdateMsg(f, s)
      <4>1. version'[f] = version[f]
        BY <2>2, <2>4, <3>1
      <4> QED BY <4>1 DEF UpdateMsg, NumLocal, Members
    <3>2. ASSUME NEW m \in requests, m.type = "kUpdate" PROVE UpdateRequestOK(m)'
      <4>1. UpdateRequestOK(m) /\ m.entry \in Entry /\ m.slice \in Slice
        BY <1>1, <1>4, <3>2 DEF UpdateInv, MsgTypeOK, Request
      <4> QED BY <1>3, <3>1, <4>1 DEF UpdateRequestOK
    <3>3. ASSUME NEW s \in Slice, NEW b \in buffer_requests[s] PROVE BufferOK(s, b)'
      <4>1. BufferOK(s, b) /\ b.entry \in Entry
        BY <1>1, <1>4 DEF UpdateInv, TypeOK, ServerTypeOK, Request
      <4> QED BY <1>3, <3>1, <4>1 DEF BufferOK
    <3>4. ASSUME NEW r \in replies, r.type = "kRUpdate" PROVE UpdateReplyOK(r)'
      <4>1. UpdateReplyOK(r) /\ r.entry \in Entry /\ r.slice \in Slice
        BY <1>1, <1>4, <3>4 DEF UpdateInv, MsgTypeOK, Reply
      <4> QED BY <1>3, <3>1, <4>1 DEF UpdateReplyOK
    <3> QED BY <1>3, <3>2, <3>3, <3>4 DEF UpdateInv
  <2>12. ServerInv'
    <3>1. \A s \in Slice : ServerOK(s)'
      BY <1>3, <1>4 DEF ServerInv, ServerOK, BufferedShares
    <3>2. ASSUME NEW s \in Slice, NEW f \in Entry PROVE LagOK(f, s)'
      <4>1. LagOK(f, s)
        BY <1>4 DEF ServerInv
      <4>2. CASE f = e
        BY <1>3, <2>1, <2>2, <2>3, <2>4, <4>1, <4>2, NumbersAssumption DEF LagOK
      <4>3. CASE f # e
        BY <1>3, <2>2, <2>3, <4>1, <4>3 DEF LagOK
      <4> QED BY <4>2, <4>3
    <3> QED BY <3>1, <3>2 DEF ServerInv
  <2> QED BY <1>5, <1>6, <2>6, <2>7, <2>8, <2>9, <2>10, <2>11, <2>12 DEF IInv
<1>8. CASE w # Owner
  <2>1. UNCHANGED <<version, data>>
    BY <1>8 DEF InitLocalParams, blobVars
  <2>2. WorkerInv'
    BY <1>3, <1>4, <2>1 DEF WorkerInv, WorkerOK, Ready
  <2>3. DealerInv'
    BY <1>3, <1>4, <2>1 DEF DealerInv, DealerOK, Ready
  <2>4. PutInv'
    BY <1>2, <1>3, <1>4, <1>8, <2>1 DEF PutInv, PutRequestOK, NotYetPut, Ready
  <2>5. GetInv'
    BY <1>3, <1>4, <2>1
       DEF GetInv, GetEntryOK, GetRequestOK, GetReplyOK, GetSentOK, Ready
  <2> QED BY <1>3, <1>4, <1>5, <1>6, <2>1, <2>2, <2>3, <2>4, <2>5, QueuedFrame, CountedFrame,
             StubFrame, UpdateFrame, ServerFrame DEF IInv
<1> QED BY <1>7, <1>8

\* A message other than an update joins a dealer.
LEMMA DealerAfterSend ==
  ASSUME MsgTypeOK, DealerInv, NEW w \in Worker, NEW v \in Int,
         NEW type \in {"kPut", "kGet", "kStop"}, SendToStub(w, type, v),
         UNCHANGED <<step, version>>,
         \A x \in Worker : pc[x] = "stop" => pc'[x] = "stop",
         type = "kPut" => w = Owner /\ v = Step0,
         type = "kGet" => v = WarmupSteps /\ entryOf[w] # entryOf[Owner],
         type = "kStop" => pc'[w] = "stop"
  PROVE  DealerInv'
<1> DEFINE n == Len(dealer[w])
<1>1. /\ n \in Nat /\ Len(dealer'[w]) = n + 1
      /\ \A i \in 1..n : dealer'[w][i] = dealer[w][i]
      /\ dealer'[w][n + 1].type = type /\ dealer'[w][n + 1].version = v
      /\ \A x \in Worker : x # w => dealer'[x] = dealer[x]
  BY SendEffect
<1> SUFFICES ASSUME NEW x \in Worker, NEW i \in 1..Len(dealer'[x])
             PROVE  DealerOK(x, i)'
  BY DEF DealerInv
<1>2. CASE x # w
  <2>1. DealerOK(x, i) /\ dealer'[x] = dealer[x]
    BY <1>1, <1>2 DEF DealerInv
  <2> QED BY <2>1 DEF DealerOK, Ready
<1>3. CASE x = w /\ i = n + 1
  BY <1>1, <1>3 DEF DealerOK
<1>4. CASE x = w /\ i # n + 1
  <2>1. i \in 1..n /\ \A j \in 1..n+1 : j \in 1..n \/ j = n + 1
    BY <1>1, <1>4
  <2>2. DealerOK(x, i) /\ dealer'[x][i] = dealer[x][i]
    BY <1>1, <1>4, <2>1 DEF DealerInv
  <2> QED BY <1>1, <1>4, <2>1, <2>2 DEF DealerOK, Ready
<1> QED BY <1>2, <1>3, <1>4

\* Nothing new can be wrong in a dealer that got shorter.
LEMMA DealerAfterReceive ==
  ASSUME MsgTypeOK, DealerInv, NEW w \in Worker, NEW type, Receive(w, type),
         UNCHANGED <<pc, step, version>>
  PROVE  DealerInv'
<1>1. /\ Len(dealer[w]) \in Nat \ {0} /\ Len(dealer'[w]) = Len(dealer[w]) - 1
      /\ \A i \in 1..Len(dealer'[w]) : dealer'[w][i] = dealer[w][i + 1]
      /\ \A x \in Worker : x # w => dealer'[x] = dealer[x]
  BY ReceiveEffect
<1> SUFFICES ASSUME NEW x \in Worker, NEW i \in 1..Len(dealer'[x])
             PROVE  DealerOK(x, i)'
  BY DEF DealerInv
<1>2. CASE x # w
  <2>1. DealerOK(x, i) /\ dealer'[x] = dealer[x]
    BY <1>1, <1>2 DEF DealerInv
  <2> QED BY <2>1 DEF DealerOK, Ready
<1>3. CASE x = w
  <2>1. \A j \in 1..Len(dealer'[w]) : j + 1 \in 1..Len(dealer[w])
    BY <1>1
  <2>2. DealerOK(w, i + 1)
    BY <1>3, <2>1 DEF DealerInv
  <2>3. dealer'[w][i] = dealer[w][i + 1]
    BY <1>1, <1>3
  <2>4. ASSUME dealer[w][i + 1].type = "kUpdate", NEW j \in 1..Len(dealer'[w]),
               dealer'[w][j].type = "kUpdate"
        PROVE  j = i
    <3>1. dealer[w][j + 1].type = "kUpdate"
      BY <1>1, <2>4
    <3>2. j + 1 = i + 1
      BY <2>1, <2>2, <2>4, <3>1 DEF DealerOK
    <3> QED BY <3>2
  <2> QED BY <1>3, <2>2, <2>3, <2>4 DEF DealerOK, Ready
<1> QED BY <1>2, <1>3

\* The owner puts the Param to an empty dealer.
LEMMA InvPut ==
  ASSUME SyncJob, IInv, NEW w \in Worker, Put(w)
  PROVE  IInv'
<1>1. TypeOK /\ WorkerTypeOK /\ MsgTypeOK /\ step[w] \in Int
  BY DEF IInv, TypeOK, WorkerTypeOK
<1>2. /\ pc[w] = "warmup" /\ pc'[w] = "get"
      /\ \A x \in Worker : x # w => pc'[x] = pc[x]
      /\ UNCHANGED <<step, local_version, seen, grad, checkpoint, version, data,
                     requests, replies, status>>
      /\ UNCHANGED <<num_update, next_version, pending_get, pending_update, num_pending>>
      /\ UNCHANGED <<shard, num_total, server_num_update, server_version,
                     server_local_version, buffer_requests, log>>
  BY <1>1 DEF Put, WorkerTypeOK, blobVars, stubVars, serverVars
<1>3. WorkerInv /\ DealerInv /\ PutInv /\ StubInv /\ GetInv /\ UpdateInv /\ ServerInv
  BY DEF IInv
<1>4. TypeOK'
  BY <1>1, TypeWorker DEF WorkerStep
<1>5. NoFatal' /\ ExactAggregation' /\ PeriodicCheckpointExact'
  BY <1>2, LogFrame, CheckpointFrame DEF IInv, NoFatal
<1>6. WorkerInv'
  BY <1>2, <1>3 DEF WorkerInv, WorkerOK, Ready
<1>7. GetInv' /\ DealerInv' /\ PutInv' /\ \A x \in Worker : UpdateQueued(x)' <=> UpdateQueued(x)
  <2>1. CASE w = Owner
    <3>1. step[w] = Step0
      BY <1>2, <1>3 DEF WorkerInv, WorkerOK
    <3>2. SendToStub(w, "kPut", step[w])
      BY <2>1 DEF Put
    <3>3. DealerInv'
      BY <1>1, <1>2, <1>3, <2>1, <3>1, <3>2, DealerAfterSend
    <3>4. \A x \in Worker : UpdateQueued(x)' <=> UpdateQueued(x)
      BY <1>1, <3>2, QueuedAfterSend
    <3>5. Len(dealer[w]) = 0 /\ Len(dealer'[w]) = 1 /\ NotYetPut
      <4>1. dealer[w] = <<>> /\ NotYetPut
        BY <1>2, <1>3, <2>1 DEF PutInv
      <4>2. Len(dealer'[w]) = Len(dealer[w]) + 1
        BY <1>1, <3>2, SendEffect
      <4>3. Len(dealer[w]) = 0
        BY <4>1
      <4> QED BY <4>1, <4>2, <4>3
    <3>6. PutInv'
      BY <1>2, <1>3, <2>1, <3>5 DEF PutInv, NotYetPut, PutRequestOK, Ready
    <3>7. \A x \in Worker : x # w => dealer'[x] = dealer[x]
      BY <1>1, <3>2, SendEffect
    <3>8. GetInv'
      BY <1>2, <1>3, <3>7
         DEF GetInv, GetEntryOK, GetRequestOK, GetReplyOK, GetSentOK, Ready
    <3> QED BY <3>3, <3>4, <3>6, <3>8
  <2>2. CASE w # Owner
    <3>1. dealer' = dealer
      BY <2>2 DEF Put
    <3>2. DealerInv'
      BY <1>2, <1>3, <3>1 DEF DealerInv, DealerOK, Ready
    <3>3. PutInv'
      BY <1>2, <1>3, <2>2, <3>1, TopologyAssumption
         DEF PutInv, NotYetPut, PutRequestOK, Ready
    <3>4. GetInv'
      BY <1>2, <1>3, <3>1
         DEF GetInv, GetEntryOK, GetRequestOK, GetReplyOK, GetSentOK, Ready
    <3> QED BY <3>1, <3>2, <3>3, <3>4, QueuedFrame
  <2> QED BY <2>1, <2>2
<1> QED BY <1>2, <1>3, <1>4, <1>5, <1>6, <1>7, CountedFrame, StubFrame, UpdateFrame,
           ServerFrame DEF IInv

\* Only workers of processes without the owner still have to ask.
LEMMA InvGet ==
  ASSUME SyncJob, IInv, NEW w \in Worker, Get(w)
  PROVE  IInv'
<1> DEFINE e == entryOf[w]
<1>1. TypeOK /\ WorkerTypeOK /\ MsgTypeOK /\ StubTypeOK
  BY DEF IInv, TypeOK
<1>2. e \in Entry /\ version[e] \in Int /\ WarmupSteps \in Nat
  BY <1>1, TopologyAssumption, NumbersAssumption DEF StubTypeOK
<1>3. /\ pc[w] = "get" /\ pc'[w] = "train"
      /\ \A x \in Worker : x # w => pc'[x] = pc[x]
      /\ UNCHANGED <<step, local_version, seen, grad, checkpoint, version, data,
                     requests, replies, status>>
      /\ UNCHANGED <<num_update, next_version, pending_get, pending_update, num_pending>>
      /\ UNCHANGED <<shard, num_total, server_num_update, server_version,
                     server_local_version, buffer_requests, log>>
  BY <1>1 DEF Get, WorkerTypeOK, blobVars, stubVars, serverVars
<1>4. WorkerInv /\ DealerInv /\ PutInv /\ StubInv /\ GetInv /\ UpdateInv /\ ServerInv
  BY DEF IInv
<1>5. TypeOK'
  BY <1>1, TypeWorker DEF WorkerStep
<1>6. NoFatal' /\ ExactAggregation' /\ PeriodicCheckpointExact'
  BY <1>3, LogFrame, CheckpointFrame DEF IInv, NoFatal
<1>7. WorkerInv'
  BY <1>3, <1>4 DEF WorkerInv, WorkerOK, Ready
<1>8. GetInv' /\ DealerInv' /\ PutInv' /\ \A x \in Worker : UpdateQueued(x)' <=> UpdateQueued(x)
  <2>1. CASE version[e] >= WarmupSteps
    <3>1. dealer' = dealer /\ Ready(e)
      BY <1>2, <2>1 DEF Get, Ready
    <3>2. DealerInv'
      BY <1>3, <1>4, <3>1 DEF DealerInv, DealerOK, Ready
    <3>3. PutInv'
      BY <1>3, <1>4, <3>1, TopologyAssumption DEF PutInv, NotYetPut, PutRequestOK, Ready
    <3>4. GetInv'
      BY <1>3, <1>4, <3>1
         DEF GetInv, GetEntryOK, GetRequestOK, GetReplyOK, GetSentOK, Ready
    <3> QED BY <3>1, <3>2, <3>3, <3>4, QueuedFrame
  <2>2. CASE ~(version[e] >= WarmupSteps)
    <3>1. SendToStub(w, "kGet", WarmupSteps)
      BY <2>2 DEF Get
    <3>2. ~Ready(e)
      BY <1>2, <1>4, <2>2, NumbersAssumption DEF WorkerInv, WorkerOK, SyncJob
    <3>3. e # entryOf[Owner] /\ w # Owner
      BY <1>4, <3>2 DEF Get, SyncJob, PutInv
    <3>4. DealerInv'
      BY <1>1, <1>2, <1>3, <1>4, <3>1, <3>3, DealerAfterSend
    <3>5. \A x \in Worker : UpdateQueued(x)' <=> UpdateQueued(x)
      BY <1>1, <1>2, <3>1, QueuedAfterSend
    <3>6. dealer'[w] # <<>> /\ \A x \in Worker : x # w => dealer'[x] = dealer[x]
      BY <1>1, <1>2, <3>1, SendEffect
    <3>7. PutInv'
      BY <1>3, <1>4, <3>3, <3>6, TopologyAssumption
         DEF PutInv, NotYetPut, PutRequestOK, Ready
    <3>8. GetInv'
      BY <1>3, <1>4, <3>6
         DEF GetInv, GetEntryOK, GetRequestOK, GetReplyOK, GetSentOK, Ready
    <3> QED BY <3>4, <3>5, <3>7, <3>8
  <2> QED BY <2>1, <2>2
<1> QED BY <1>3, <1>4, <1>5, <1>6, <1>7, <1>8, CountedFrame, StubFrame, UpdateFrame,
           ServerFrame DEF IInv

\* Once Collect returns, the worker is in the round of its process and every
\* slice of the blob is up to date.
LEMMA CollectedRound ==
  ASSUME SyncJob, IInv, NEW w \in Worker, Collected(w)
  PROVE  LET e == entryOf[w] IN
         /\ Ready(e) /\ step[w] = version[e] /\ pending_update[e] = {}
         /\ \A s \in Slice : data[e][s] = step[w] - Step0
<1> DEFINE e == entryOf[w]
<1>1. WorkerOK(w) /\ e \in Entry /\ StubOK(e)
  BY TopologyAssumption DEF IInv, WorkerInv, StubInv
<1>2. version[e] \in Int /\ step[w] \in Nat /\ version[e] > local_version[w]
  BY <1>1 DEF IInv, TypeOK, StubTypeOK, WorkerTypeOK, Collected
<1>3. Ready(e)
  BY <1>1, <1>2, NumbersAssumption DEF WorkerOK, Ready
<1>4. step[w] = version[e]
  BY <1>1, <1>2, <1>3, NumbersAssumption DEF WorkerOK
<1>5. w \in Members(e) /\ w \notin Counted(e)
  BY <1>2, <1>4 DEF Members, Counted
<1>6. pending_update[e] = {}
  BY <1>1, <1>5 DEF StubOK
<1>7. \A s \in Slice : data[e][s] = step[w] - Step0
  BY <1>1, <1>2, <1>3, <1>4, <1>6, NumbersAssumption DEF StubOK
<1> QED BY <1>3, <1>4, <1>6, <1>7

LEMMA InvForward ==
  ASSUME SyncJob, IInv, NEW w \in Worker, Forward(w)
  PROVE  IInv'
<1> DEFINE e == entryOf[w]
<1>1. TypeOK /\ WorkerTypeOK
  BY DEF IInv, TypeOK
<1>2. WorkerInv /\ DealerInv /\ PutInv /\ StubInv /\ GetInv /\ UpdateInv /\ ServerInv
  BY DEF IInv
<1>3. /\ Ready(e) /\ step[w] = version[e]
      /\ \A s \in Slice : data[e][s] = step[w] - Step0
  BY CollectedRound DEF Forward
<1>4. pc[w] \in {"train", "checkpointed"} /\ step[w] < TrainSteps
  <2>1. step[w] \in Nat /\ WorkerOK(w) /\ step[w] >= Step0
    BY <1>1, <1>2 DEF WorkerTypeOK, WorkerInv, WorkerOK
  <2>2. ~(step[w] < WarmupSteps)
    BY <2>1, NumbersAssumption DEF SyncJob
  <2> QED BY <2>1, <2>2, NumbersAssumption DEF Forward, StopNow, WorkerOK
<1>5. /\ pc'[w] = "backward" /\ seen'[w] = data[e]
      /\ \A x \in Worker : x # w => pc'[x] = pc[x] /\ seen'[x] = seen[x]
      /\ UNCHANGED <<step, local_version, grad, checkpoint, dealer, version, data,
                     requests, replies, status>>
      /\ UNCHANGED <<num_update, next_version, pending_get, pending_update, num_pending>>
      /\ UNCHANGED <<shard, num_total, server_num_update, server_version,
                     server_local_version, buffer_requests, log>>
  BY <1>1, <1>4 DEF Forward, WorkerTypeOK, blobVars, stubVars, serverVars
<1>6. TypeOK'
  BY <1>1, TypeWorker DEF WorkerStep
<1>7. NoFatal' /\ ExactAggregation' /\ PeriodicCheckpointExact'
  BY <1>5, LogFrame, CheckpointFrame DEF IInv, NoFatal
<1>8. WorkerInv'
  <2> SUFFICES ASSUME NEW x \in Worker PROVE WorkerOK(x)'
    BY DEF WorkerInv
  <2>1. WorkerOK(x)
    BY <1>2 DEF WorkerInv
  <2>2. CASE x = w
    BY <1>3, <1>4, <1>5, <2>1, <2>2 DEF WorkerOK, Ready
  <2>3. CASE x # w
    BY <1>5, <2>1, <2>3 DEF WorkerOK, Ready
  <2> QED BY <2>2, <2>3
<1>9. DealerInv'
  BY <1>2, <1>4, <1>5 DEF DealerInv, DealerOK, Ready
<1>10. PutInv'
  BY <1>2, <1>4, <1>5, TopologyAssumption DEF PutInv, NotYetPut, PutRequestOK, Ready
<1>11. GetInv'
  BY <1>2, <1>5 DEF GetInv, GetEntryOK, GetRequestOK, GetReplyOK, GetSentOK, Ready
<1> QED BY <1>2, <1>5, <1>6, <1>7, <1>8, <1>9, <1>10, <1>11, QueuedFrame, CountedFrame,
           StubFrame, UpdateFrame, ServerFrame DEF IInv

LEMMA InvCheckpoint ==
  ASSUME SyncJob, IInv, NEW w \in Worker, Checkpoint(w)
  PROVE  IInv'
<1> DEFINE e == entryOf[w]
<1>1. TypeOK /\ WorkerTypeOK
  BY DEF IInv, TypeOK
<1>2. WorkerInv /\ DealerInv /\ PutInv /\ StubInv /\ GetInv /\ UpdateInv /\ ServerInv
  BY DEF IInv
<1>3. /\ Ready(e) /\ step[w] = version[e]
      /\ \A s \in Slice : data[e][s] = step[w] - Step0
  BY CollectedRound DEF Checkpoint
<1>4. step[w] < TrainSteps
  BY <1>1, NumbersAssumption DEF Checkpoint, StopNow, WorkerTypeOK
<1>5. /\ pc[w] = "train" /\ pc'[w] = "checkpointed"
      /\ \A x \in Worker : x # w => pc'[x] = pc[x]
      /\ UNCHANGED <<step, local_version, seen, grad, dealer, version, data, requests,
                     replies, status>>
      /\ UNCHANGED <<num_update, next_version, pending_get, pending_update, num_pending>>
      /\ UNCHANGED <<shard, num_total, server_num_update, server_version,
                     server_local_version, buffer_requests, log>>
  BY <1>1 DEF Checkpoint, WorkerTypeOK, blobVars, stubVars, serverVars
<1>6. TypeOK'
  BY <1>1, TypeWorker DEF WorkerStep
<1>7. NoFatal' /\ ExactAggregation'
  BY <1>5, LogFrame DEF IInv, NoFatal
<1>8. PeriodicCheckpointExact'
  <2>1. \A c \in checkpoint' : c \in checkpoint \/ c = CheckpointFile(w)
    BY DEF Checkpoint, WriteCheckpoint
  <2>2. /\ CheckpointFile(w).version = CheckpointFile(w).step
        /\ \A s \in Slice : CheckpointFile(w).values[s] = CheckpointFile(w).step - Step0
    BY <1>3 DEF CheckpointFile
  <2> QED BY <2>1, <2>2 DEF IInv, PeriodicCheckpointExact
<1>9. WorkerInv'
  <2> SUFFICES ASSUME NEW x \in Worker PROVE WorkerOK(x)'
    BY DEF WorkerInv
  <2>1. WorkerOK(x)
    BY <1>2 DEF WorkerInv
  <2> QED BY <1>3, <1>4, <1>5, <2>1 DEF WorkerOK, Ready
<1>10. DealerInv'
  BY <1>2, <1>5 DEF DealerInv, DealerOK, Ready
<1>11. PutInv'
  BY <1>2, <1>5, TopologyAssumption DEF PutInv, NotYetPut, PutRequestOK, Ready
<1>12. GetInv'
  BY <1>2, <1>5 DEF GetInv, GetEntryOK, GetRequestOK, GetReplyOK, GetSentOK, Ready
<1> QED BY <1>2, <1>5, <1>6, <1>7, <1>8, <1>9, <1>10, <1>11, <1>12, QueuedFrame,
           CountedFrame, StubFrame, UpdateFrame, ServerFrame DEF IInv

LEMMA InvStop ==
  ASSUME SyncJob, IInv, NEW w \in Worker, Stop(w)
  PROVE  IInv'
<1>1. TypeOK /\ WorkerTypeOK /\ MsgTypeOK
  BY DEF IInv, TypeOK
<1>2. WorkerInv /\ DealerInv /\ PutInv /\ StubInv /\ GetInv /\ UpdateInv /\ ServerInv
  BY DEF IInv
<1>3. /\ pc[w] = "train" /\ pc'[w] = "stop" /\ SendToStub(w, "kStop", 0)
      /\ \A x \in Worker : x # w => pc'[x] = pc[x]
      /\ UNCHANGED <<step, local_version, seen, grad, version, data, requests,
                     replies, status>>
      /\ UNCHANGED <<num_update, next_version, pending_get, pending_update, num_pending>>
      /\ UNCHANGED <<shard, num_total, server_num_update, server_version,
                     server_local_version, buffer_requests, log>>
  BY <1>1 DEF Stop, WorkerTypeOK, blobVars, stubVars, serverVars
<1>4. TypeOK'
  BY <1>1, TypeWorker DEF WorkerStep
<1>5. NoFatal' /\ ExactAggregation'
  BY <1>3, LogFrame DEF IInv, NoFatal
<1>6. PeriodicCheckpointExact'
  <2>1. \A c \in checkpoint' : c \in checkpoint \/ c.step = step[w]
    BY DEF Stop, WriteCheckpoint, CheckpointFile
  <2>2. ~(step[w] < TrainSteps)
    BY <1>1, NumbersAssumption DEF Stop, StopNow, WorkerTypeOK
  <2> QED BY <2>1, <2>2 DEF IInv, PeriodicCheckpointExact
<1>7. WorkerInv'
  BY <1>2, <1>3 DEF WorkerInv, WorkerOK, Ready
<1>8. DealerInv'
  BY <1>1, <1>2, <1>3, DealerAfterSend
<1>9. \A x \in Worker : UpdateQueued(x)' <=> UpdateQueued(x)
  BY <1>1, <1>3, QueuedAfterSend
<1>10. /\ \A x \in Worker : x # w => dealer'[x] = dealer[x]
       /\ Len(dealer[w]) \in Nat /\ Len(dealer'[w]) = Len(dealer[w]) + 1
       /\ \A i \in 1..Len(dealer[w]) : dealer'[w][i] = dealer[w][i]
       /\ dealer'[w][Len(dealer[w]) + 1].type = "kStop"
  BY <1>1, <1>3, SendEffect
<1>11. PutInv'
  <2>1. \A i \in 1..Len(dealer'[Owner]) : dealer'[Owner][i].type = "kPut" =>
          i \in 1..Len(dealer[Owner]) /\ dealer[Owner][i].type = "kPut"
    BY <1>10, TopologyAssumption
  <2>2. NotYetPut' <=> NotYetPut
    BY <1>3 DEF NotYetPut
  <2>3. pc'[Owner] \in {"init", "warmup"} => pc[Owner] = pc'[Owner] /\ dealer'[Owner] = dealer[Owner]
    BY <1>3, <1>10, TopologyAssumption
  <2>4. pc'[Owner] = "init" <=> pc[Owner] = "init"
    BY <1>3, TopologyAssumption
  <2> QED BY <1>2, <1>3, <2>1, <2>2, <2>3, <2>4 DEF PutInv, PutRequestOK, Ready
<1>12. GetInv'
  BY <1>2, <1>3, <1>10 DEF GetInv, GetEntryOK, GetRequestOK, GetReplyOK, GetSentOK, Ready
<1> QED BY <1>2, <1>3, <1>4, <1>5, <1>6, <1>7, <1>8, <1>9, <1>11, <1>12, CountedFrame,
           StubFrame, UpdateFrame, ServerFrame DEF IInv

\* The worker moves one step ahead of its process and queues its update.
LEMMA InvBackward ==
  ASSUME SyncJob, IInv, NEW w \in Worker, Backward(w)
  PROVE  IInv'
<1> DEFINE e == entryOf[w]
           n == Len(dealer[w])
<1>1. TypeOK /\ WorkerTypeOK /\ MsgTypeOK /\ StubTypeOK
  BY DEF IInv, TypeOK
<1>2. WorkerInv /\ DealerInv /\ PutInv /\ StubInv /\ GetInv /\ UpdateInv /\ ServerInv
  BY DEF IInv
<1>3. /\ pc[w] = "backward" /\ step[w] = version[e] /\ Ready(e) /\ version[e] >= Step0
      /\ \A s \in Slice : seen[w][s] = step[w] - Step0
  BY <1>2 DEF Backward, WorkerInv, WorkerOK
<1>4. e \in Entry /\ version[e] \in Int /\ step[w] \in Nat /\ Step0 \in Nat
  BY <1>1, TopologyAssumption, NumbersAssumption DEF WorkerTypeOK, StubTypeOK
<1>5. /\ pc'[w] = "train" /\ local_version'[w] = version[e] /\ step'[w] = step[w] + 1
      /\ grad'[w] = [step |-> step[w], base |-> seen[w]]
      /\ \A x \in Worker : x # w => /\ pc'[x] = pc[x] /\ step'[x] = step[x]
                                    /\ local_version'[x] = local_version[x]
                                    /\ grad'[x] = grad[x]
      /\ SendToStub(w, "kUpdate", step[w])
      /\ UNCHANGED <<seen, checkpoint, version, data, requests, replies, status>>
      /\ UNCHANGED <<num_update, next_version, pending_get, pending_update, num_pending>>
      /\ UNCHANGED <<shard, num_total, server_num_update, server_version,
                     server_local_version, buffer_requests, log>>
  BY <1>1, <1>3 DEF Backward, WorkerTypeOK, blobVars, stubVars, serverVars
<1>6. TypeOK'
  BY <1>1, TypeWorker DEF WorkerStep
<1>7. NoFatal' /\ ExactAggregation' /\ PeriodicCheckpointExact'
  BY <1>5, LogFrame, CheckpointFrame DEF IInv, NoFatal
<1>8. WorkerInv'
  <2> SUFFICES ASSUME NEW x \in Worker PROVE WorkerOK(x)'
    BY DEF WorkerInv
  <2>1. WorkerOK(x)
    BY <1>2 DEF WorkerInv
  <2>2. CASE x = w
    BY <1>3, <1>4, <1>5, <2>2 DEF WorkerOK, Ready
  <2>3. CASE x # w
    BY <1>5, <2>1, <2>3 DEF WorkerOK, Ready
  <2> QED BY <2>2, <2>3
<1>9. /\ n \in Nat /\ Len(dealer'[w]) = n + 1
      /\ \A i \in 1..n : dealer'[w][i] = dealer[w][i]
      /\ dealer'[w][n + 1].type = "kUpdate" /\ dealer'[w][n + 1].version = step[w]
      /\ \A x \in Worker : x # w => dealer'[x] = dealer[x]
  BY <1>1, <1>4, <1>5, SendEffect
<1>10. \A i \in 1..n : dealer[w][i].type \notin {"kUpdate", "kStop"}
  BY <1>2, <1>3, <1>4 DEF DealerInv, DealerOK
<1>11. DealerInv'
  <2> SUFFICES ASSUME NEW x \in Worker, NEW i \in 1..Len(dealer'[x])
               PROVE  DealerOK(x, i)'
    BY DEF DealerInv
  <2>1. CASE x # w
    <3>1. DealerOK(x, i) /\ dealer'[x] = dealer[x]
      BY <1>2, <1>9, <2>1 DEF DealerInv
    <3> QED BY <1>5, <2>1, <3>1 DEF DealerOK, Ready
  <2>2. CASE x = w /\ i = n + 1
    <3>1. \A j \in 1..n+1 : dealer'[w][j].type = "kUpdate" => j = n + 1
      BY <1>9, <1>10
    <3> QED BY <1>3, <1>4, <1>5, <1>9, <2>2, <3>1 DEF DealerOK, Ready
  <2>3. CASE x = w /\ i # n + 1
    <3>1. i \in 1..n
      BY <1>9, <2>3
    <3>2. DealerOK(x, i) /\ dealer'[x][i] = dealer[x][i]
      BY <1>2, <1>9, <2>3, <3>1 DEF DealerInv
    <3> QED BY <1>10, <2>3, <3>1, <3>2 DEF DealerOK
  <2> QED BY <2>1, <2>2, <2>3
<1>12. PutInv'
  <2>1. \A i \in 1..Len(dealer'[Owner]) : dealer'[Owner][i].type = "kPut" =>
          i \in 1..Len(dealer[Owner]) /\ dealer[Owner][i].type = "kPut"
    BY <1>9, TopologyAssumption
  <2>2. NotYetPut' <=> NotYetPut
    BY <1>5 DEF NotYetPut
  <2>3. pc'[Owner] \in {"init", "warmup"} => pc[Owner] = pc'[Owner] /\ dealer'[Owner] = dealer[Owner]
    BY <1>5, <1>9, TopologyAssumption
  <2>4. pc'[Owner] = "init" <=> pc[Owner] = "init"
    BY <1>3, <1>5, TopologyAssumption
  <2> QED BY <1>2, <1>5, <2>1, <2>2, <2>3, <2>4 DEF PutInv, PutRequestOK, Ready
<1>13. \A f \in Entry : Counted(f)' = Counted(f)
  <2>1. \A x \in Worker : x # w => (UpdateQueued(x)' <=> UpdateQueued(x))
    BY <1>9 DEF UpdateQueued
  <2>2. UpdateQueued(w)'
    BY <1>9 DEF UpdateQueued
  <2>3. step[w] # version[e] + 1
    BY <1>3, <1>4
  <2> QED BY <1>5, <2>1, <2>2, <2>3 DEF Counted, Members
<1>14. GetInv'
  BY <1>2, <1>3, <1>5, <1>9
     DEF GetInv, GetEntryOK, GetRequestOK, GetReplyOK, GetSentOK, Ready
<1> QED BY <1>2, <1>5, <1>6, <1>7, <1>8, <1>11, <1>12, <1>13, <1>14, StubFrame,
           UpdateFrame, ServerFrame DEF IInv

(***************************************************************************)
(* Stub actions on requests of the workers                                 *)
(***************************************************************************)
\* The Param stays put once when the stub takes any message but the put.
LEMMA PutAfterReceive ==
  ASSUME MsgTypeOK, PutInv, NEW w \in Worker, NEW type, Receive(w, type),
         UNCHANGED <<pc, version, shard>>, type # "kPut",
         \A m \in requests' : m.type = "kPut" => m \in requests
  PROVE  PutInv'
<1>1. /\ Len(dealer[w]) \in Nat \ {0} /\ Len(dealer'[w]) = Len(dealer[w]) - 1
      /\ dealer[w][1].type = type
      /\ \A i \in 1..Len(dealer'[w]) : dealer'[w][i] = dealer[w][i + 1]
      /\ \A x \in Worker : x # w => dealer'[x] = dealer[x]
  BY ReceiveEffect
<1>2. NotYetPut => NotYetPut'
  BY DEF NotYetPut
<1>3. pc[Owner] \in {"init", "warmup"} => dealer'[Owner] = dealer[Owner]
  <2>1. dealer[w] # <<>>
    BY DEF Receive
  <2> QED BY <1>1, <2>1, TopologyAssumption DEF PutInv
<1>4. \A i \in 1..Len(dealer'[Owner]) : dealer'[Owner][i].type = "kPut" => i = 1 /\ NotYetPut
  <2>1. CASE w = Owner
    <3>1. \A i \in 1..Len(dealer'[Owner]) : i + 1 \in 1..Len(dealer[Owner]) /\ i + 1 # 1
      BY <1>1, <2>1
    <3> QED BY <1>1, <2>1, <3>1 DEF PutInv
  <2>2. CASE w # Owner
    BY <1>1, <2>2, TopologyAssumption DEF PutInv
  <2> QED BY <2>1, <2>2
<1> QED BY <1>2, <1>3, <1>4 DEF PutInv, PutRequestOK, Ready

\* A worker that trains without values has a Get on its way.
LEMMA GetSentAfterReceive ==
  ASSUME MsgTypeOK, DealerInv, PutInv, GetInv, NEW w \in Worker, NEW type,
         type \in {"kPut", "kUpdate", "kStop"}, Receive(w, type),
         UNCHANGED <<pc, version, next_version>>
  PROVE  \A x \in Worker : GetSentOK(x)'
<1>1. /\ Len(dealer[w]) \in Nat \ {0} /\ dealer[w][1].type = type
      /\ \A x \in Worker : x # w => dealer'[x] = dealer[x]
  BY ReceiveEffect
<1>2. pc[w] = "train" => Ready(entryOf[w])
  <2>1. DealerOK(w, 1)
    BY <1>1 DEF DealerInv
  <2>2. type = "kPut" => Ready(entryOf[w])
    BY <1>1, <2>1 DEF DealerOK, PutInv, Receive
  <2> QED BY <1>1, <2>1, <2>2 DEF DealerOK
<1> QED BY <1>1, <1>2 DEF GetInv, GetSentOK, Ready

LEMMA InvStubHandlePut ==
  ASSUME SyncJob, IInv, NEW w \in Worker, StubHandlePut(w)
  PROVE  IInv'
<1> DEFINE e == entryOf[w]
           new == GenMsgs("kPut", e, Head(dealer[w]).version, NumTotal(grpOf[e]), NoGrads)
<1>1. TypeOK /\ MsgTypeOK
  BY DEF IInv, TypeOK
<1>2. WorkerInv /\ DealerInv /\ PutInv /\ StubInv /\ GetInv /\ UpdateInv /\ ServerInv
  BY DEF IInv
<1>3. /\ Receive(w, "kPut") /\ requests' = requests \cup new
      /\ UNCHANGED <<pc, step, local_version, seen, grad, checkpoint, version, data,
                     replies, status>>
      /\ UNCHANGED <<num_update, next_version, pending_get, pending_update, num_pending>>
      /\ UNCHANGED <<shard, num_total, server_num_update, server_version,
                     server_local_version, buffer_requests, log>>
  BY DEF StubHandlePut, workerVars, blobVars, stubVars, serverVars
<1>4. /\ Len(dealer[w]) \in Nat \ {0} /\ Len(dealer'[w]) = Len(dealer[w]) - 1
      /\ dealer[w][1] = Head(dealer[w]) /\ dealer[w][1].type = "kPut"
      /\ \A i \in 1..Len(dealer'[w]) : dealer'[w][i] = dealer[w][i + 1]
      /\ \A x \in Worker : x # w => dealer'[x] = dealer[x]
  BY <1>1, <1>3, ReceiveEffect
<1>5. w = Owner /\ Head(dealer[w]).version = Step0 /\ NotYetPut
      /\ pc[Owner] \notin {"init", "warmup"}
  <2>1. DealerOK(w, 1) /\ dealer[w] # <<>>
    BY <1>2, <1>3, <1>4 DEF DealerInv, Receive
  <2> QED BY <1>2, <1>4, <2>1 DEF DealerOK, PutInv
<1>6. \A m \in new : m.type = "kPut" /\ PutRequestOK(m)
  <2>1. NumTotal(grpOf[e]) = Cardinality(Worker)
    <3>1. \A x \in Worker : entryOf[x] \in Entry
      BY TopologyAssumption
    <3>2. {x \in Worker : grpOf[entryOf[x]] = grpOf[e]} = Worker
      BY <3>1 DEF SyncJob
    <3> QED BY <3>2 DEF NumTotal
  <2> QED BY <1>5, <2>1 DEF GenMsgs, PutRequestOK, NotYetPut, NoGrads
<1>7. TypeOK'
  BY <1>1, TypeStubRequest DEF StubRequest
<1>8. NoFatal' /\ ExactAggregation' /\ PeriodicCheckpointExact' /\ WorkerInv' /\ ServerInv'
  BY <1>2, <1>3, LogFrame, CheckpointFrame, WorkerFrame, ServerFrame DEF IInv, NoFatal
<1>9. DealerInv'
  BY <1>1, <1>2, <1>3, DealerAfterReceive
<1>10. \A x \in Worker : UpdateQueued(x)' <=> UpdateQueued(x)
  BY <1>1, <1>2, <1>3, QueuedAfterReceive
<1>11. StubInv'
  BY <1>2, <1>3, <1>10, CountedFrame, StubFrame
<1>12. PutInv'
  <2>1. \A i \in 1..Len(dealer'[Owner]) : i + 1 \in 1..Len(dealer[Owner]) /\ i + 1 # 1
    BY <1>4, <1>5
  <2>2. \A i \in 1..Len(dealer'[Owner]) : dealer'[Owner][i].type # "kPut"
    BY <1>2, <1>4, <1>5, <2>1 DEF PutInv
  <2> QED BY <1>2, <1>3, <1>5, <1>6, <2>2 DEF PutInv, PutRequestOK, Ready
<1>13. \A x \in Worker : GetSentOK(x)'
  BY <1>1, <1>2, <1>3, GetSentAfterReceive
<1>14. GetInv'
  BY <1>2, <1>3, <1>6, <1>13 DEF GetInv, GetEntryOK, GetRequestOK, GetReplyOK, Ready
<1>15. UpdateInv'
  BY <1>2, <1>3, <1>6, UpdateShrinks
<1> QED BY <1>7, <1>8, <1>9, <1>11, <1>12, <1>14, <1>15 DEF IInv

LEMMA InvStubHandleStop ==
  ASSUME SyncJob, IInv, NEW w \in Worker, StubHandleStop(w)
  PROVE  IInv'
<1>1. TypeOK /\ MsgTypeOK
  BY DEF IInv, TypeOK
<1>2. WorkerInv /\ DealerInv /\ PutInv /\ StubInv /\ GetInv /\ UpdateInv /\ ServerInv
  BY DEF IInv
<1>3. /\ Receive(w, "kStop")
      /\ UNCHANGED <<pc, step, local_version, seen, grad, checkpoint, version, data,
                     requests, replies, status>>
      /\ UNCHANGED <<num_update, next_version, pending_get, pending_update, num_pending>>
      /\ UNCHANGED <<shard, num_total, server_num_update, server_version,
                     server_local_version, buffer_requests, log>>
  BY DEF StubHandleStop, workerVars, blobVars, serverVars
<1>4. TypeOK'
  BY <1>1, TypeStubRequest DEF StubRequest
<1>5. NoFatal' /\ ExactAggregation' /\ PeriodicCheckpointExact' /\ WorkerInv' /\ UpdateInv'
      /\ ServerInv'
  BY <1>2, <1>3, LogFrame, CheckpointFrame, WorkerFrame, UpdateFrame, ServerFrame
     DEF IInv, NoFatal
<1>6. DealerInv'
  BY <1>1, <1>2, <1>3, DealerAfterReceive
<1>7. \A x \in Worker : UpdateQueued(x)' <=> UpdateQueued(x)
  BY <1>1, <1>2, <1>3, QueuedAfterReceive
<1>8. StubInv'
  BY <1>2, <1>3, <1>7, CountedFrame, StubFrame
<1>9. PutInv'
  BY <1>1, <1>2, <1>3, PutAfterReceive
<1>10. \A x \in Worker : GetSentOK(x)'
  BY <1>1, <1>2, <1>3, GetSentAfterReceive
<1>11. GetInv'
  BY <1>2, <1>3, <1>10 DEF GetInv, GetEntryOK, GetRequestOK, GetReplyOK, Ready
<1> QED BY <1>4, <1>5, <1>6, <1>8, <1>9, <1>11 DEF IInv

\* The first Get of a process is passed on, the others are not.
LEMMA InvStubHandleGet ==
  ASSUME SyncJob, IInv, NEW w \in Worker, StubHandleGet(w)
  PROVE  IInv'
<1> DEFINE e == entryOf[w]
           v == Head(dealer[w]).version
           new == GenMsgs("kGet", e, v, 0, NoGrads)
<1>1. TypeOK /\ MsgTypeOK /\ StubTypeOK /\ e \in Entry /\ WarmupSteps \in Nat
  BY TopologyAssumption, NumbersAssumption DEF IInv, TypeOK
<1>2. WorkerInv /\ DealerInv /\ PutInv /\ StubInv /\ GetInv /\ UpdateInv /\ ServerInv
  BY DEF IInv
<1>3. /\ Receive(w, "kGet")
      /\ UNCHANGED <<pc, step, local_version, seen, grad, checkpoint, version, data,
                     replies, status>>
      /\ UNCHANGED <<num_update, pending_update>>
      /\ UNCHANGED <<shard, num_total, server_num_update, server_version,
                     server_local_version, buffer_requests, log>>
  BY DEF StubHandleGet, workerVars, blobVars, serverVars
<1>4. /\ Len(dealer[w]) \in Nat \ {0}
      /\ dealer[w][1] = Head(dealer[w]) /\ dealer[w][1].type = "kGet"
      /\ \A x \in Worker : x # w => dealer'[x] = dealer[x]
  BY <1>1, <1>3, ReceiveEffect
<1>5. v = WarmupSteps /\ e # entryOf[Owner]
  <2>1. DealerOK(w, 1)
    BY <1>2, <1>4 DEF DealerInv
  <2> QED BY <1>4, <2>1 DEF DealerOK
<1>6. TypeOK'
  BY <1>1, TypeStubRequest DEF StubRequest
<1>7. NoFatal' /\ ExactAggregation' /\ PeriodicCheckpointExact' /\ WorkerInv' /\ ServerInv'
  BY <1>2, <1>3, LogFrame, CheckpointFrame, WorkerFrame, ServerFrame DEF IInv, NoFatal
<1>8. DealerInv'
  BY <1>1, <1>2, <1>3, DealerAfterReceive
<1>9. \A x \in Worker : UpdateQueued(x)' <=> UpdateQueued(x)
  BY <1>1, <1>2, <1>3, QueuedAfterReceive
<1>10. \A f \in Entry : Counted(f)' = Counted(f)
  BY <1>3, <1>9, CountedFrame
<1>11. GetEntryOK(e) /\ StubOK(e)
  BY <1>1, <1>2 DEF GetInv, StubInv
<1>12. CASE next_version[e] = -1
  <2>1. ~Ready(e) /\ pending_get[e] = {} /\ pending_update[e] = {} /\ num_pending[e] = 0
    <3>1. ~Ready(e) /\ pending_get[e] = {} /\ pending_update[e] = {}
      BY <1>5, <1>11, <1>12 DEF GetEntryOK, StubOK
    <3> QED
      BY <1>5, <1>11, <3>1, FS_EmptySet DEF StubOK
  <2>2. /\ next_version'[e] = WarmupSteps /\ requests' = requests \cup new
        /\ pending_get'[e] = Slice /\ num_pending'[e] = Cardinality(Slice)
        /\ \A f \in Entry : f # e => /\ next_version'[f] = next_version[f]
                                     /\ pending_get'[f] = pending_get[f]
                                     /\ num_pending'[f] = num_pending[f]
    <3>1. v > next_version[e]
      BY <1>1, <1>5, <1>12
    <3> QED BY <1>1, <1>5, <2>1, <3>1, SliceCount DEF StubHandleGet, StubTypeOK
  <2>3. \A m \in new : /\ m.type = "kGet" /\ m.entry = e /\ m.slice \in Slice
                       /\ m.version = WarmupSteps /\ m.num = 0 /\ m.grads = {}
    BY <1>5 DEF GenMsgs, NoGrads
  <2>4. PutInv'
    BY <1>1, <1>2, <1>3, <2>2, <2>3, PutAfterReceive
  <2>5. StubInv'
    <3> SUFFICES ASSUME NEW f \in Entry PROVE StubOK(f)'
      BY DEF StubInv
    <3>1. StubOK(f)
      BY <1>2 DEF StubInv
    <3>2. CASE f = e
      <4>1. ~Ready(e)' /\ pending_update'[e] = {}
        BY <1>3, <2>1 DEF Ready
      <4>2. num_pending'[e] = Cardinality(pending_get'[e]) + Cardinality(pending_update'[e])
        BY <2>2, <4>1, FS_EmptySet, SliceCount
      <4> QED BY <1>3, <2>1, <3>1, <3>2, <4>1, <4>2 DEF StubOK
    <3>3. CASE f # e
      BY <1>3, <1>10, <2>2, <3>1, <3>3 DEF StubOK, Ready
    <3> QED BY <3>2, <3>3
  <2>6. GetInv'
    <3>1. ASSUME NEW f \in Entry PROVE GetEntryOK(f)'
      <4>1. GetEntryOK(f)
        BY <1>2 DEF GetInv
      <4>2. CASE f = e
        BY <1>1, <1>3, <1>5, <2>1, <2>2, <4>2, TopologyAssumption DEF GetEntryOK, Ready
      <4>3. CASE f # e
        BY <1>3, <2>2, <4>1, <4>3 DEF GetEntryOK, Ready
      <4> QED BY <4>2, <4>3
    <3>2. ASSUME NEW x \in Worker PROVE GetSentOK(x)'
      <4>1. entryOf[x] \in Entry /\ GetSentOK(x)
        BY <1>2, TopologyAssumption DEF GetInv
      <4> QED BY <1>1, <1>3, <1>4, <2>2, <4>1 DEF GetSentOK, Ready
    <3>3. ASSUME NEW m \in requests', m.type = "kGet" PROVE GetRequestOK(m)'
      <4>1. CASE m \in new
        BY <2>2, <2>3, <4>1 DEF GetRequestOK
      <4>2. CASE m \in requests
        <5>1. GetRequestOK(m) /\ m.entry \in Entry /\ m.slice \in Slice
          BY <1>1, <1>2, <3>3, <4>2 DEF GetInv, MsgTypeOK, Request
        <5> QED BY <2>2, <5>1 DEF GetRequestOK
      <4> QED BY <2>2, <4>1, <4>2
    <3>4. ASSUME NEW r \in replies, r.type = "kRGet" PROVE GetReplyOK(r)'
      <4>1. GetReplyOK(r) /\ r.entry \in Entry
        BY <1>1, <1>2, <3>4 DEF GetInv, MsgTypeOK, Reply
      <4>2. r.entry # e
        BY <2>1, <4>1 DEF GetReplyOK
      <4> QED BY <2>2, <2>3, <4>1, <4>2 DEF GetReplyOK
    <3> QED BY <1>3, <3>1, <3>2, <3>3, <3>4 DEF GetInv
  <2>7. UpdateInv'
    BY <1>2, <1>3, <2>2, <2>3, UpdateShrinks
  <2> QED BY <1>6, <1>7, <1>8, <2>4, <2>5, <2>6, <2>7 DEF IInv
<1>13. CASE next_version[e] # -1
  <2>1. UNCHANGED <<next_version, requests, pending_get, num_pending>>
    BY <1>1, <1>5, <1>11, <1>13 DEF StubHandleGet, GetEntryOK
  <2>2. PutInv'
    BY <1>1, <1>2, <1>3, <2>1, PutAfterReceive
  <2>3. StubInv'
    BY <1>2, <1>3, <1>10, <2>1, StubFrame
  <2>4. GetInv'
    BY <1>2, <1>3, <1>4, <1>13, <2>1
       DEF GetInv, GetEntryOK, GetRequestOK, GetReplyOK, GetSentOK, Ready
  <2> QED BY <1>2, <1>3, <1>6, <1>7, <1>8, <2>1, <2>2, <2>3, <2>4, UpdateFrame DEF IInv
<1> QED BY <1>12, <1>13

\* The stub counts one more worker; with the last one it sends the sum of
\* exactly the gradients of this round.
LEMMA InvStubHandleUpdate ==
  ASSUME SyncJob, IInv, NEW w \in Worker, StubHandleUpdate(w)
  PROVE  IInv'
<1> DEFINE e == entryOf[w]
           new == GenMsgs("kUpdate", e, Head(dealer[w]).version, NumLocal(e), LocalGrads(e))
<1>1. TypeOK /\ WorkerTypeOK /\ MsgTypeOK /\ StubTypeOK /\ e \in Entry /\ version[e] \in Int
  BY TopologyAssumption DEF IInv, TypeOK, StubTypeOK
<1>2. WorkerInv /\ DealerInv /\ PutInv /\ StubInv /\ GetInv /\ UpdateInv /\ ServerInv
  BY DEF IInv
<1>3. /\ Receive(w, "kUpdate")
      /\ UNCHANGED <<pc, step, local_version, seen, grad, checkpoint, version, data,
                     replies, status>>
      /\ UNCHANGED <<next_version, pending_get>>
      /\ UNCHANGED <<shard, num_total, server_num_update, server_version,
                     server_local_version, buffer_requests, log>>
  BY DEF StubHandleUpdate, workerVars, blobVars, serverVars
<1>4. Ready(e) /\ step[w] = version[e] + 1 /\ Head(dealer[w]).version = version[e]
  <2>1. /\ Len(dealer[w]) \in Nat \ {0}
        /\ dealer[w][1] = Head(dealer[w]) /\ dealer[w][1].type = "kUpdate"
    BY <1>1, <1>3, ReceiveEffect
  <2>2. DealerOK(w, 1)
    BY <1>2, <2>1 DEF DealerInv
  <2> QED BY <2>1, <2>2 DEF DealerOK
<1>5. /\ UpdateQueued(w) /\ ~UpdateQueued(w)'
      /\ \A x \in Worker : x # w => (UpdateQueued(x)' <=> UpdateQueued(x))
  BY <1>1, <1>2, <1>3, QueuedAfterReceive
<1>6. /\ w \in Members(e) /\ w \notin Counted(e) /\ Counted(e)' = Counted(e) \cup {w}
      /\ \A f \in Entry : f # e => Counted(f)' = Counted(f)
      /\ Counted(e)' \subseteq Members(e)
  BY <1>3, <1>4, <1>5 DEF Counted, Members
<1>7. StubOK(e) /\ pending_update[e] = {} /\ pending_get[e] = {} /\ num_pending[e] = 0
  <2>1. StubOK(e)
    BY <1>1, <1>2 DEF StubInv
  <2>2. pending_update[e] = {} /\ pending_get[e] = {}
    BY <1>4, <1>6, <2>1 DEF StubOK
  <2> QED BY <2>1, <2>2, FS_EmptySet DEF StubOK
<1>8. /\ num_update[e] + 1 = Cardinality(Counted(e)')
      /\ Cardinality(Counted(e)') \in Nat /\ Cardinality(Counted(e)') <= NumLocal(e)
      /\ Cardinality(Counted(e)') = NumLocal(e) <=> Counted(e)' = Members(e)
  <2>1. IsFiniteSet(Members(e)) /\ IsFiniteSet(Counted(e)) /\ IsFiniteSet(Counted(e)')
    BY <1>1, <1>6, MembersFinite, FS_Subset
  <2>2. Cardinality(Counted(e) \cup {w}) = Cardinality(Counted(e)) + 1
    BY <1>6, <2>1, FS_AddElement
  <2>3. num_update[e] = Cardinality(Counted(e))
    BY <1>4, <1>7 DEF StubOK
  <2>4. Cardinality(Counted(e)') <= Cardinality(Members(e))
        /\ (Cardinality(Members(e)) = Cardinality(Counted(e)') => Members(e) = Counted(e)')
    BY <1>6, <2>1, FS_Subset
  <2>5. Cardinality(Counted(e)') \in Nat
    BY <2>1, FS_CardinalityType
  <2> QED BY <1>6, <2>2, <2>3, <2>4, <2>5 DEF NumLocal
<1>9. NumLocal(e) \in Nat
  BY <1>1, NumLocalType
<1>10. TypeOK'
  BY <1>1, TypeStubRequest DEF StubRequest
<1>11. NoFatal' /\ ExactAggregation' /\ PeriodicCheckpointExact' /\ WorkerInv'
  BY <1>2, <1>3, LogFrame, CheckpointFrame, WorkerFrame DEF IInv, NoFatal
<1>12. DealerInv'
  BY <1>1, <1>2, <1>3, DealerAfterReceive
<1>13. \A x \in Worker : GetSentOK(x)'
  BY <1>1, <1>2, <1>3, GetSentAfterReceive
<1>14. CASE Counted(e)' = Members(e)
  <2>1. /\ requests' = requests \cup new
        /\ pending_update'[e] = Slice /\ num_pending'[e] = Cardinality(Slice)
        /\ num_update'[e] = 0
        /\ \A f \in Entry : f # e => /\ pending_update'[f] = pending_update[f]
                                     /\ num_pending'[f] = num_pending[f]
                                     /\ num_update'[f] = num_update[f]
    <3>1. num_update[e] + 1 >= NumLocal(e)
      BY <1>8, <1>9, <1>14
    <3> QED BY <1>1, <1>7, <3>1, SliceCount DEF StubHandleUpdate, StubTypeOK
  <2>2. \A m \in new : m.type = "kUpdate" /\ m.entry = e /\ m.slice \in Slice
                       /\ m = UpdateMsg(e, m.slice)
    <3>1. \A x \in Members(e) : /\ x \in Worker /\ grad[x].step = version[e]
                                /\ \A s \in Slice : grad[x].base[s] = version[e] - Step0
      <4>1. ASSUME NEW x \in Members(e)
            PROVE  /\ x \in Worker /\ grad[x].step = version[e]
                   /\ \A s \in Slice : grad[x].base[s] = version[e] - Step0
        <5>1. x \in Worker /\ entryOf[x] = e /\ step[x] = version[e] + 1
          BY <1>3, <1>14 DEF Members, Counted
        <5>2. WorkerOK(x)
          BY <1>2, <5>1 DEF WorkerInv
        <5> QED BY <1>1, <1>4, <5>1, <5>2, NumbersAssumption DEF WorkerOK
      <4> QED BY <4>1
    <3>2. \A s \in Slice : LocalGrads(e)[s] = UpdateMsg(e, s).grads
      BY <3>1 DEF LocalGrads, UpdateMsg
    <3>3. \A s \in Slice : UpdateMsg(e, s) =
            [type |-> "kUpdate", entry |-> e, slice |-> s, version |-> version[e],
             num |-> NumLocal(e), grads |-> LocalGrads(e)[s]]
      BY <3>2 DEF UpdateMsg
    <3> QED BY <1>4, <3>3 DEF GenMsgs
  <2>3. PutInv'
    BY <1>1, <1>2, <1>3, <2>1, <2>2, PutAfterReceive
  <2>4. StubInv'
    <3> SUFFICES ASSUME NEW f \in Entry PROVE StubOK(f)'
      BY DEF StubInv
    <3>1. StubOK(f) /\ Members(f)' = Members(f)
      BY <1>2 DEF StubInv, Members
    <3>2. CASE f = e
      <4>1. pending_update'[e] # {} /\ Ready(e)'
        BY <1>3, <1>4, <2>1, TopologyAssumption DEF Ready
      <4>2. num_pending'[e] = Cardinality(pending_get'[e]) + Cardinality(pending_update'[e])
        BY <1>3, <1>7, <2>1, FS_EmptySet, SliceCount
      <4>3. \A s \in Slice : data'[e][s] = version'[e] - Step0
        BY <1>1, <1>3, <1>4, <1>7, NumbersAssumption DEF StubOK
      <4> QED BY <1>1, <1>3, <1>7, <1>14, <2>1, <3>1, <3>2, <4>1, <4>2, <4>3,
                 NumbersAssumption DEF StubOK
    <3>3. CASE f # e
      BY <1>3, <1>6, <2>1, <3>1, <3>3 DEF StubOK, Ready
    <3> QED BY <3>2, <3>3
  <2>5. GetInv'
    BY <1>2, <1>3, <1>13, <2>1, <2>2 DEF GetInv, GetEntryOK, GetRequestOK, GetReplyOK, Ready
  <2>6. UpdateInv'
    <3>0. \A f, s : UpdateMsg(f, s)' = UpdateMsg(f, s)
      BY <1>3 DEF UpdateMsg, NumLocal, Members
    <3>1. ASSUME NEW m \in requests', m.type = "kUpdate" PROVE UpdateRequestOK(m)'
      <4>1. CASE m \in requests
        <5>1. UpdateRequestOK(m) /\ m.entry \in Entry /\ m.slice \in Slice
          BY <1>1, <1>2, <3>1, <4>1 DEF UpdateInv, MsgTypeOK, Request
        <5>2. m.entry # e
          BY <1>7, <5>1 DEF UpdateRequestOK
        <5> QED BY <1>3, <2>1, <3>0, <5>1, <5>2 DEF UpdateRequestOK
      <4>2. CASE m \in new
        <5>1. m.entry = e /\ m.slice \in Slice /\ m = UpdateMsg(e, m.slice)
          BY <2>2, <4>2
        <5>2. Len(log[m.slice]) = version[e] - Step0
          BY <1>1, <1>2, <1>4, <1>7, <5>1 DEF ServerInv, LagOK
        <5>3. m \notin buffer_requests[m.slice]
          BY <1>2, <1>7, <5>1 DEF UpdateInv, BufferOK
        <5> QED BY <1>3, <2>1, <3>0, <5>1, <5>2, <5>3 DEF UpdateRequestOK
      <4> QED BY <2>1, <4>1, <4>2
    <3>2. ASSUME NEW s \in Slice, NEW b \in buffer_requests[s] PROVE BufferOK(s, b)'
      <4>1. BufferOK(s, b) /\ b.entry \in Entry
        BY <1>1, <1>2 DEF UpdateInv, TypeOK, ServerTypeOK, Request
      <4>2. b.entry # e
        BY <1>7, <4>1 DEF BufferOK
      <4> QED BY <1>3, <2>1, <3>0, <4>1, <4>2 DEF BufferOK
    <3>3. ASSUME NEW r \in replies, r.type = "kRUpdate" PROVE UpdateReplyOK(r)'
      <4>1. UpdateReplyOK(r) /\ r.entry \in Entry /\ r.slice \in Slice
        BY <1>1, <1>2, <3>3 DEF UpdateInv, MsgTypeOK, Reply
      <4>2. r.entry # e
        BY <1>7, <4>1 DEF UpdateReplyOK
      <4> QED BY <1>3, <2>1, <4>1, <4>2 DEF UpdateReplyOK
    <3> QED BY <1>3, <3>1, <3>2, <3>3 DEF UpdateInv
  <2>7. ServerInv'
    <3>1. \A s \in Slice : ServerOK(s)'
      BY <1>2, <1>3 DEF ServerInv, ServerOK, BufferedShares
    <3>2. ASSUME NEW s \in Slice, NEW f \in Entry PROVE LagOK(f, s)'
      <4>1. LagOK(f, s)
        BY <1>2 DEF ServerInv
      <4>2. CASE f = e
        BY <1>3, <1>4, <1>7, <2>1, <4>1, <4>2 DEF LagOK, Ready
      <4>3. CASE f # e
        BY <1>3, <2>1, <4>1, <4>3 DEF LagOK, Ready
      <4> QED BY <4>2, <4>3
    <3> QED BY <3>1, <3>2 DEF ServerInv
  <2> QED BY <1>10, <1>11, <1>12, <2>3, <2>4, <2>5, <2>6, <2>7 DEF IInv
<1>15. CASE Counted(e)' # Members(e)
  <2>1. /\ UNCHANGED <<requests, pending_update, num_pending>>
        /\ num_update'[e] = Cardinality(Counted(e)')
        /\ \A f \in Entry : f # e => num_update'[f] = num_update[f]
    <3>1. ~(num_update[e] + 1 >= NumLocal(e))
      BY <1>8, <1>9, <1>15
    <3> QED BY <1>1, <1>8, <3>1 DEF StubHandleUpdate, StubTypeOK
  <2>2. PutInv'
    BY <1>1, <1>2, <1>3, <2>1, PutAfterReceive
  <2>3. StubInv'
    <3> SUFFICES ASSUME NEW f \in Entry PROVE StubOK(f)'
      BY DEF StubInv
    <3>1. StubOK(f) /\ Members(f)' = Members(f)
      BY <1>2 DEF StubInv, Members
    <3>2. CASE f = e
      BY <1>3, <1>4, <1>7, <1>15, <2>1, <3>1, <3>2 DEF StubOK, Ready
    <3>3. CASE f # e
      BY <1>3, <1>6, <2>1, <3>1, <3>3 DEF StubOK, Ready
    <3> QED BY <3>2, <3>3
  <2>4. GetInv'
    BY <1>2, <1>3, <1>13, <2>1 DEF GetInv, GetEntryOK, GetRequestOK, GetReplyOK, Ready
  <2> QED BY <1>2, <1>3, <1>10, <1>11, <1>12, <2>1, <2>2, <2>3, <2>4, UpdateFrame,
             ServerFrame DEF IInv
<1> QED BY <1>14, <1>15

(***************************************************************************)
(* Stub actions on replies of the servers                                  *)
(***************************************************************************)
\* The last slice of a Get makes the blob ready for the first round.
LEMMA InvHandleGetResponse ==
  ASSUME SyncJob, IInv, NEW r \in replies, HandleGetResponse(r)
  PROVE  IInv'
<1> DEFINE e == r.entry
           rest == pending_get[e] \ {r.slice}
<1>1. TypeOK /\ WorkerTypeOK /\ MsgTypeOK /\ StubTypeOK /\ Step0 \in Nat
  BY NumbersAssumption DEF IInv, TypeOK
<1>2. WorkerInv /\ DealerInv /\ PutInv /\ StubInv /\ GetInv /\ UpdateInv /\ ServerInv
  BY DEF IInv
<1>3. r \in Reply /\ e \in Entry /\ r.slice \in Slice /\ pending_get[e] \in SUBSET Slice
  BY <1>1 DEF MsgTypeOK, Reply, StubTypeOK
<1>4. r.slice \in pending_get[e] /\ r.version = Step0 /\ r.value = 0
  BY <1>2 DEF GetInv, GetReplyOK, HandleGetResponse
<1>5. StubOK(e) /\ GetEntryOK(e)
  BY <1>2, <1>3 DEF StubInv, GetInv
<1>6. /\ ~Ready(e) /\ version[e] = -1 /\ pending_update[e] = {} /\ num_update[e] = 0
      /\ e # entryOf[Owner] /\ next_version[e] # -1
  BY <1>4, <1>5 DEF StubOK, GetEntryOK, Ready
<1>7. num_pending[e] = Cardinality(pending_get[e]) /\ Cardinality(pending_get[e]) \in Nat
  BY <1>3, <1>5, <1>6, FS_EmptySet, SliceSets DEF StubOK
<1>8. /\ num_pending[e] - 1 = Cardinality(rest)
      /\ (num_pending[e] - 1) % Cardinality(Slice) = 0 <=> rest = {}
  BY <1>3, <1>4, <1>7, LastPending
<1>9. /\ replies' = replies \ {r}
      /\ UNCHANGED <<pc, step, local_version, seen, grad, checkpoint, dealer, requests,
                     status>>
      /\ UNCHANGED <<num_update, next_version, pending_update>>
      /\ UNCHANGED <<shard, num_total, server_num_update, server_version,
                     server_local_version, buffer_requests, log>>
  BY <1>4 DEF HandleGetResponse, workerVars, serverVars
<1>10. /\ pending_get'[e] = rest /\ num_pending'[e] = Cardinality(rest)
       /\ data'[e] = [data[e] EXCEPT ![r.slice] = 0]
       /\ version'[e] = IF rest = {} THEN Step0 ELSE -1
       /\ \A f \in Entry : f # e => /\ pending_get'[f] = pending_get[f]
                                    /\ num_pending'[f] = num_pending[f]
                                    /\ data'[f] = data[f] /\ version'[f] = version[f]
  <2>1. pending_get'[e] = rest /\ \A f \in Entry : f # e => pending_get'[f] = pending_get[f]
    BY <1>1, <1>3, <1>4 DEF HandleGetResponse, StubTypeOK
  <2>2. ParseResponse(r)
    BY <1>4 DEF HandleGetResponse
  <2>3. /\ num_pending'[e] = num_pending[e] - 1
        /\ \A f \in Entry : f # e => num_pending'[f] = num_pending[f]
    BY <1>1, <1>3, <2>2 DEF ParseResponse, StubTypeOK
  <2>4. /\ data'[e] = [data[e] EXCEPT ![r.slice] = 0]
        /\ \A f \in Entry : f # e => data'[f] = data[f]
    BY <1>1, <1>3, <1>4, <2>2 DEF ParseResponse, StubTypeOK
  <2>5. /\ version'[e] = IF rest = {} THEN Step0 ELSE -1
        /\ \A f \in Entry : f # e => version'[f] = version[f]
    BY <1>1, <1>3, <1>4, <1>6, <1>8, <2>2 DEF ParseResponse, StubTypeOK
  <2> QED BY <1>8, <2>1, <2>3, <2>4, <2>5
<1>11. /\ Ready(e)' <=> rest = {}
       /\ \A f \in Entry : f # e => (Ready(f)' <=> Ready(f))
  BY <1>1, <1>10 DEF Ready
<1>12. \A x \in Worker : entryOf[x] \in Entry
  BY TopologyAssumption
<1>13. TypeOK'
  BY <1>1, TypeStubReply DEF StubReply
<1>14. NoFatal' /\ ExactAggregation' /\ PeriodicCheckpointExact'
  BY <1>9, LogFrame, CheckpointFrame DEF IInv, NoFatal
<1>15. WorkerInv'
  <2> SUFFICES ASSUME NEW x \in Worker PROVE WorkerOK(x)'
    BY DEF WorkerInv
  <2>1. WorkerOK(x) /\ entryOf[x] \in Entry
    BY <1>2, <1>12 DEF WorkerInv
  <2>2. CASE entryOf[x] = e
    BY <1>1, <1>6, <1>9, <1>10, <1>11, <2>1, <2>2 DEF WorkerOK
  <2>3. CASE entryOf[x] # e
    BY <1>9, <1>10, <1>11, <2>1, <2>3 DEF WorkerOK
  <2> QED BY <2>2, <2>3
<1>16. DealerInv'
  <2> SUFFICES ASSUME NEW x \in Worker, NEW i \in 1..Len(dealer[x]) PROVE DealerOK(x, i)'
    BY <1>9 DEF DealerInv
  <2>1. DealerOK(x, i) /\ entryOf[x] \in Entry
    BY <1>2, <1>12 DEF DealerInv
  <2>2. CASE entryOf[x] = e
    BY <1>6, <1>9, <2>1, <2>2 DEF DealerOK
  <2>3. CASE entryOf[x] # e
    BY <1>9, <1>10, <1>11, <2>1, <2>3 DEF DealerOK
  <2> QED BY <2>2, <2>3
<1>17. PutInv'
  BY <1>2, <1>6, <1>9, <1>11, OwnerEntry DEF PutInv, PutRequestOK, NotYetPut
<1>18. StubInv'
  <2> SUFFICES ASSUME NEW f \in Entry PROVE StubOK(f)'
    BY DEF StubInv
  <2>1. StubOK(f) /\ Members(f)' = Members(f)
    BY <1>2 DEF StubInv, Members
  <2>2. CASE f = e
    <3>1. num_pending'[e] = Cardinality(pending_get'[e]) + Cardinality(pending_update'[e])
      <4>1. Cardinality(rest) \in Nat
        BY <1>3, SliceSets
      <4> QED BY <1>6, <1>9, <1>10, <4>1, FS_EmptySet
    <3>2. CASE rest # {}
      BY <1>6, <1>9, <1>10, <1>11, <2>2, <3>1, <3>2 DEF StubOK
    <3>3. CASE rest = {}
      <4>1. Counted(e)' = {}
        <5>1. \A x \in Members(e) : x \in Worker /\ step[x] = Step0
          BY <1>2, <1>6 DEF Members, WorkerInv, WorkerOK
        <5> QED BY <1>1, <1>9, <1>10, <3>3, <5>1 DEF Counted, Members
      <4>2. Members(e) # {}
        BY <1>3, MembersFinite
      <4>3. \A s \in Slice : data'[e][s] = 0
        BY <1>1, <1>3, <1>5, <1>6, <1>10, <3>3 DEF GetEntryOK, StubTypeOK, Values
      <4>4. /\ Ready(e)' /\ version'[e] = Step0 /\ pending_get'[e] = {}
            /\ pending_update'[e] = {} /\ num_update'[e] = Cardinality({})
        BY <1>6, <1>9, <1>10, <1>11, <3>3, FS_EmptySet
      <4> QED BY <1>1, <2>1, <2>2, <3>1, <4>1, <4>2, <4>3, <4>4 DEF StubOK
    <3> QED BY <3>2, <3>3
  <2>3. CASE f # e
    <3>1. Counted(f)' = Counted(f)
      BY <1>9, <1>10, <2>3 DEF Counted, Members, UpdateQueued
    <3> QED BY <1>9, <1>10, <1>11, <2>1, <2>3, <3>1 DEF StubOK
  <2> QED BY <2>2, <2>3
<1>19. GetInv'
  <2>1. ASSUME NEW f \in Entry PROVE GetEntryOK(f)'
    <3>1. GetEntryOK(f)
      BY <1>2 DEF GetInv
    <3>2. CASE f = e
      <4>1. \A s \in Slice \ rest : data'[e][s] = 0
        BY <1>1, <1>3, <1>5, <1>6, <1>10 DEF GetEntryOK, StubTypeOK, Values
      <4> QED BY <1>5, <1>6, <1>9, <1>10, <1>11, <3>2, <4>1 DEF GetEntryOK
    <3>3. CASE f # e
      BY <1>9, <1>10, <1>11, <3>1, <3>3 DEF GetEntryOK
    <3> QED BY <3>2, <3>3
  <2>2. ASSUME NEW x \in Worker PROVE GetSentOK(x)'
    BY <1>2, <1>6, <1>9, <1>11, <1>12 DEF GetInv, GetSentOK
  <2>3. ASSUME NEW m \in requests, m.type = "kGet" PROVE GetRequestOK(m)'
    <3>1. GetRequestOK(m) /\ m.entry \in Entry
      BY <1>1, <1>2, <2>3 DEF GetInv, MsgTypeOK, Request
    <3>2. m.entry = e => m.slice # r.slice
      BY <1>2, <2>3 DEF GetInv, GetReplyOK, HandleGetResponse
    <3> QED BY <1>10, <3>1, <3>2 DEF GetRequestOK
  <2>4. ASSUME NEW q \in replies', q.type = "kRGet" PROVE GetReplyOK(q)'
    <3>1. q \in replies /\ q # r /\ GetReplyOK(q) /\ q \in Reply
      BY <1>1, <1>2, <1>9, <2>4 DEF GetInv, MsgTypeOK
    <3>2. q.entry = e => q.slice # r.slice
      BY <1>3, <1>4, <2>4, <3>1 DEF GetReplyOK, Reply, HandleGetResponse
    <3>3. q.entry \in Entry
      BY <3>1 DEF Reply
    <3> QED BY <1>9, <1>10, <3>1, <3>2, <3>3 DEF GetReplyOK
  <2> QED BY <1>9, <2>1, <2>2, <2>3, <2>4 DEF GetInv
<1>20. UpdateInv'
  <2>1. ASSUME NEW f \in Entry, NEW s, s \in pending_update[f]
        PROVE  version'[f] = version[f] /\ UpdateMsg(f, s)' = UpdateMsg(f, s)
    <3>1. version'[f] = version[f]
      BY <1>6, <1>10, <2>1
    <3> QED BY <3>1 DEF UpdateMsg, NumLocal, Members
  <2>2. ASSUME NEW m \in requests, m.type = "kUpdate" PROVE UpdateRequestOK(m)'
    <3>1. UpdateRequestOK(m) /\ m.entry \in Entry
      BY <1>1, <1>2, <2>2 DEF UpdateInv, MsgTypeOK, Request
    <3> QED BY <1>9, <2>1, <3>1 DEF UpdateRequestOK
  <2>3. ASSUME NEW s \in Slice, NEW b \in buffer_requests[s] PROVE BufferOK(s, b)'
    <3>1. BufferOK(s, b) /\ b.entry \in Entry
      BY <1>1, <1>2 DEF UpdateInv, TypeOK, ServerTypeOK, Request
    <3> QED BY <1>9, <2>1, <3>1 DEF BufferOK
  <2>4. ASSUME NEW q \in replies', q.type = "kRUpdate" PROVE UpdateReplyOK(q)'
    <3>1. UpdateReplyOK(q) /\ q.entry \in Entry
      BY <1>1, <1>2, <1>9, <2>4 DEF UpdateInv, MsgTypeOK, Reply
    <3> QED BY <1>9, <2>1, <3>1 DEF UpdateReplyOK
  <2> QED BY <1>9, <2>2, <2>3, <2>4 DEF UpdateInv
<1>21. ServerInv'
  <2>1. \A s \in Slice : ServerOK(s)'
    BY <1>2, <1>9 DEF ServerInv, ServerOK, BufferedShares
  <2>2. ASSUME NEW s \in Slice, NEW f \in Entry PROVE LagOK(f, s)'
    <3>1. LagOK(f, s)
      BY <1>2 DEF ServerInv
    <3>2. CASE f = e
      BY <1>1, <1>6, <1>9, <1>10, <1>11, <3>1, <3>2 DEF LagOK
    <3>3. CASE f # e
      BY <1>9, <1>10, <1>11, <3>1, <3>3 DEF LagOK
    <3> QED BY <3>2, <3>3
  <2> QED BY <2>1, <2>2 DEF ServerInv
<1> QED BY <1>13, <1>14, <1>15, <1>16, <1>17, <1>18, <1>19, <1>20, <1>21 DEF IInv

\* The last slice of an update starts the next round of the process.
LEMMA InvHandleUpdateResponse ==
  ASSUME SyncJob, IInv, NEW r \in replies, HandleUpdateResponse(r)
  PROVE  IInv'
<1> DEFINE e == r.entry
           rest == pending_update[e] \ {r.slice}
           v == version[e]
<1>1. TypeOK /\ WorkerTypeOK /\ MsgTypeOK /\ StubTypeOK /\ Step0 \in Nat
  BY NumbersAssumption DEF IInv, TypeOK
<1>2. WorkerInv /\ DealerInv /\ PutInv /\ StubInv /\ GetInv /\ UpdateInv /\ ServerInv
  BY DEF IInv
<1>3. /\ r \in Reply /\ e \in Entry /\ r.slice \in Slice /\ v \in Int
      /\ pending_update[e] \in SUBSET Slice
  BY <1>1 DEF MsgTypeOK, Reply, StubTypeOK
<1>4. /\ r.slice \in pending_update[e] /\ r.version = v + 1 /\ r.value = v + 1 - Step0
      /\ Len(log[r.slice]) = v + 1 - Step0
  BY <1>2 DEF UpdateInv, UpdateReplyOK, HandleUpdateResponse
<1>5. StubOK(e)
  BY <1>2, <1>3 DEF StubInv
<1>6. /\ Ready(e) /\ v # -1 /\ pending_get[e] = {} /\ num_update[e] = 0
      /\ Counted(e) = Members(e)
  BY <1>4, <1>5 DEF StubOK, Ready
<1>7. \A x \in Worker : entryOf[x] = e =>
        step[x] = v + 1 /\ pc[x] \notin {"backward", "checkpointed"} /\ ~UpdateQueued(x)
  <2> SUFFICES ASSUME NEW x \in Worker, entryOf[x] = e
               PROVE  step[x] = v + 1 /\ pc[x] \notin {"backward", "checkpointed"}
                      /\ ~UpdateQueued(x)
    OBVIOUS
  <2>1. x \in Counted(e)
    BY <1>6 DEF Members
  <2>2. step[x] = v + 1 /\ ~UpdateQueued(x)
    BY <2>1 DEF Counted
  <2> QED BY <1>2, <1>3, <2>2 DEF WorkerInv, WorkerOK
<1>8. v >= Step0
  <2>1. PICK x \in Worker : entryOf[x] = e
    BY <1>3, TopologyAssumption
  <2> QED BY <1>2, <1>6, <2>1 DEF WorkerInv, WorkerOK
<1>9. num_pending[e] = Cardinality(pending_update[e]) /\ Cardinality(pending_update[e]) \in Nat
  BY <1>3, <1>5, <1>6, FS_EmptySet, SliceSets DEF StubOK
<1>10. /\ num_pending[e] - 1 = Cardinality(rest)
       /\ (num_pending[e] - 1) % Cardinality(Slice) = 0 <=> rest = {}
  <2>1. /\ Cardinality(rest) = Cardinality(pending_update[e]) - 1
        /\ (Cardinality(pending_update[e]) - 1) % Cardinality(Slice) = 0 <=> rest = {}
    BY <1>3, <1>4, LastPending
  <2> QED BY <1>9, <2>1
<1>11. /\ replies' = replies \ {r}
       /\ UNCHANGED <<pc, step, local_version, seen, grad, checkpoint, dealer, requests,
                      status>>
       /\ UNCHANGED <<num_update, next_version, pending_get>>
       /\ UNCHANGED <<shard, num_total, server_num_update, server_version,
                      server_local_version, buffer_requests, log>>
  BY <1>4 DEF HandleUpdateResponse, workerVars, serverVars
<1>12. /\ pending_update'[e] = rest /\ num_pending'[e] = Cardinality(rest)
       /\ data'[e] = [data[e] EXCEPT ![r.slice] = v + 1 - Step0]
       /\ version'[e] = IF rest = {} THEN v + 1 ELSE v
       /\ \A f \in Entry : f # e => /\ pending_update'[f] = pending_update[f]
                                    /\ num_pending'[f] = num_pending[f]
                                    /\ data'[f] = data[f] /\ version'[f] = version[f]
  <2>1. /\ pending_update'[e] = rest
        /\ \A f \in Entry : f # e => pending_update'[f] = pending_update[f]
    BY <1>1, <1>3, <1>4 DEF HandleUpdateResponse, StubTypeOK
  <2>2. ParseResponse(r)
    BY <1>4 DEF HandleUpdateResponse
  <2>3. /\ num_pending'[e] = num_pending[e] - 1
        /\ \A f \in Entry : f # e => num_pending'[f] = num_pending[f]
    BY <1>1, <1>3, <2>2 DEF ParseResponse, StubTypeOK
  <2>4. /\ data'[e] = [data[e] EXCEPT ![r.slice] = v + 1 - Step0]
        /\ \A f \in Entry : f # e => data'[f] = data[f]
    BY <1>1, <1>3, <1>4, <2>2 DEF ParseResponse, StubTypeOK
  <2>5. /\ version'[e] = IF rest = {} THEN v + 1 ELSE v
        /\ \A f \in Entry : f # e => version'[f] = version[f]
    BY <1>1, <1>3, <1>4, <1>10, <2>2 DEF ParseResponse, StubTypeOK
  <2> QED BY <1>10, <2>1, <2>3, <2>4, <2>5
<1>13. \A f \in Entry : Ready(f)' <=> Ready(f)
  BY <1>1, <1>3, <1>6, <1>8, <1>12 DEF Ready
<1>14. \A x \in Worker : entryOf[x] \in Entry
  BY TopologyAssumption
<1>15. TypeOK'
  BY <1>1, TypeStubReply DEF StubReply
<1>16. NoFatal' /\ ExactAggregation' /\ PeriodicCheckpointExact'
  BY <1>11, LogFrame, CheckpointFrame DEF IInv, NoFatal
<1>17. WorkerInv'
  <2> SUFFICES ASSUME NEW x \in Worker PROVE WorkerOK(x)'
    BY DEF WorkerInv
  <2>1. WorkerOK(x) /\ entryOf[x] \in Entry
    BY <1>2, <1>14 DEF WorkerInv
  <2>2. CASE entryOf[x] = e
    <3>1. version'[e] \in {v, v + 1}
      BY <1>12
    <3> QED BY <1>1, <1>3, <1>6, <1>7, <1>8, <1>11, <1>13, <2>1, <2>2, <3>1 DEF WorkerOK
  <2>3. CASE entryOf[x] # e
    BY <1>11, <1>12, <1>13, <2>1, <2>3 DEF WorkerOK
  <2> QED BY <2>2, <2>3
<1>18. DealerInv'
  <2> SUFFICES ASSUME NEW x \in Worker, NEW i \in 1..Len(dealer[x]) PROVE DealerOK(x, i)'
    BY <1>11 DEF DealerInv
  <2>1. DealerOK(x, i) /\ entryOf[x] \in Entry
    BY <1>2, <1>14 DEF DealerInv
  <2>2. CASE entryOf[x] = e
    <3>1. dealer[x][i].type # "kUpdate"
      BY <1>7, <2>2 DEF UpdateQueued
    <3> QED BY <1>11, <2>1, <2>2, <3>1 DEF DealerOK
  <2>3. CASE entryOf[x] # e
    BY <1>11, <1>12, <1>13, <2>1, <2>3 DEF DealerOK
  <2> QED BY <2>2, <2>3
<1>19. PutInv'
  BY <1>2, <1>11, <1>13, OwnerEntry DEF PutInv, PutRequestOK, NotYetPut
<1>20. StubInv'
  <2> SUFFICES ASSUME NEW f \in Entry PROVE StubOK(f)'
    BY DEF StubInv
  <2>1. StubOK(f) /\ Members(f)' = Members(f)
    BY <1>2 DEF StubInv, Members
  <2>2. CASE f = e
    <3>1. num_pending'[e] = Cardinality(pending_get'[e]) + Cardinality(pending_update'[e])
      <4>1. Cardinality(rest) \in Nat
        BY <1>3, SliceSets
      <4>2. Cardinality(pending_get'[e]) = 0
        BY <1>6, <1>11, FS_EmptySet
      <4> QED BY <1>12, <4>1, <4>2
    <3>2. \A s \in Slice : data[e][s] = v - Step0 + IF s \notin pending_update[e] THEN 1 ELSE 0
      BY <1>4, <1>5, <1>6 DEF StubOK
    <3>3. data[e] \in [Slice -> Int]
      BY <1>1, <1>3 DEF StubTypeOK, Values
    <3>4. CASE rest # {}
      <4>1. Counted(e)' = Counted(e)
        BY <1>11, <1>12, <3>4 DEF Counted, Members, UpdateQueued
      <4>2. \A s \in Slice : data'[e][s] = v - Step0 + IF s \notin rest THEN 1 ELSE 0
        <5> SUFFICES ASSUME NEW s \in Slice
                     PROVE  data'[e][s] = v - Step0 + IF s \notin rest THEN 1 ELSE 0
          OBVIOUS
        <5>1. data'[e][s] = IF s = r.slice THEN v + 1 - Step0 ELSE data[e][s]
          BY <1>12, <3>3
        <5>2. s \in rest <=> s \in pending_update[e] /\ s # r.slice
          OBVIOUS
        <5>3. v + 1 - Step0 = v - Step0 + 1
          BY <1>1, <1>3
        <5> QED BY <3>2, <5>1, <5>2, <5>3
      <4>3. /\ Ready(e)' /\ pending_update'[e] = rest /\ version'[e] = v
            /\ num_update'[e] = 0 /\ pending_get'[e] = {}
        BY <1>3, <1>6, <1>11, <1>12, <1>13, <3>4
      <4> QED BY <1>6, <2>1, <2>2, <3>1, <3>4, <4>1, <4>2, <4>3 DEF StubOK
    <3>5. CASE rest = {}
      <4>1. Counted(e)' = {}
        BY <1>3, <1>7, <1>11, <1>12, <3>5 DEF Counted, Members
      <4>2. Members(e) # {}
        BY <1>3, MembersFinite
      <4>3. \A s \in Slice : data'[e][s] = v + 1 - Step0
        <5> SUFFICES ASSUME NEW s \in Slice PROVE data'[e][s] = v + 1 - Step0
          OBVIOUS
        <5>1. data'[e][s] = IF s = r.slice THEN v + 1 - Step0 ELSE data[e][s]
          BY <1>12, <3>3
        <5>2. s # r.slice => s \notin pending_update[e]
          BY <3>5
        <5>3. v + 1 - Step0 = v - Step0 + 1
          BY <1>1, <1>3
        <5> QED BY <3>2, <5>1, <5>2, <5>3
      <4>4. /\ Ready(e)' /\ version'[e] = v + 1 /\ pending_get'[e] = {}
            /\ pending_update'[e] = {} /\ num_update'[e] = Cardinality({})
        BY <1>3, <1>6, <1>11, <1>12, <1>13, <3>5, FS_EmptySet
      <4> QED BY <1>1, <1>3, <2>1, <2>2, <3>1, <4>1, <4>2, <4>3, <4>4 DEF StubOK
    <3> QED BY <3>4, <3>5
  <2>3. CASE f # e
    <3>1. Counted(f)' = Counted(f)
      BY <1>11, <1>12, <2>3 DEF Counted, Members, UpdateQueued
    <3> QED BY <1>11, <1>12, <1>13, <2>1, <2>3, <3>1 DEF StubOK
  <2> QED BY <2>2, <2>3
<1>21. GetInv'
  <2>1. ASSUME NEW f \in Entry PROVE GetEntryOK(f)'
    <3>1. GetEntryOK(f)
      BY <1>2 DEF GetInv
    <3>2. CASE f = e
      BY <1>6, <1>11, <1>13, <3>1, <3>2 DEF GetEntryOK
    <3>3. CASE f # e
      BY <1>11, <1>12, <1>13, <3>1, <3>3 DEF GetEntryOK
    <3> QED BY <3>2, <3>3
  <2>2. ASSUME NEW x \in Worker PROVE GetSentOK(x)'
    BY <1>2, <1>11, <1>13, <1>14 DEF GetInv, GetSentOK
  <2> QED BY <1>2, <1>11, <2>1, <2>2 DEF GetInv, GetRequestOK, GetReplyOK
<1>22. UpdateInv'
  <2>1. ASSUME NEW f \in Entry, NEW s, s \in pending_update'[f]
        PROVE  version'[f] = version[f] /\ UpdateMsg(f, s)' = UpdateMsg(f, s)
    <3>1. version'[f] = version[f]
      BY <1>12, <2>1
    <3> QED BY <3>1 DEF UpdateMsg, NumLocal, Members
  <2>2. v + 1 - Step0 # v - Step0
    BY <1>1, <1>3
  <2>3. ASSUME NEW m \in requests, m.type = "kUpdate" PROVE UpdateRequestOK(m)'
    <3>1. UpdateRequestOK(m) /\ m.entry \in Entry
      BY <1>1, <1>2, <2>3 DEF UpdateInv, MsgTypeOK, Request
    <3>2. m.entry = e => m.slice # r.slice
      BY <1>4, <2>2, <3>1 DEF UpdateRequestOK
    <3>3. m.slice \in pending_update'[m.entry]
      BY <1>12, <3>1, <3>2 DEF UpdateRequestOK
    <3> QED BY <1>11, <2>1, <3>1, <3>3 DEF UpdateRequestOK
  <2>4. ASSUME NEW s \in Slice, NEW b \in buffer_requests[s] PROVE BufferOK(s, b)'
    <3>1. BufferOK(s, b) /\ b.entry \in Entry
      BY <1>1, <1>2 DEF UpdateInv, TypeOK, ServerTypeOK, Request
    <3>2. b.entry = e => s # r.slice
      BY <1>4, <2>2, <3>1 DEF BufferOK
    <3>3. s \in pending_update'[b.entry]
      BY <1>12, <3>1, <3>2 DEF BufferOK
    <3> QED BY <1>11, <2>1, <3>1, <3>3 DEF BufferOK
  <2>5. ASSUME NEW q \in replies', q.type = "kRUpdate" PROVE UpdateReplyOK(q)'
    <3>1. q # r /\ q \in Reply /\ UpdateReplyOK(q) /\ q.entry \in Entry
      BY <1>1, <1>2, <1>11, <2>5 DEF UpdateInv, MsgTypeOK, Reply
    <3>2. q.entry = e => q.slice # r.slice
      BY <1>3, <1>4, <2>5, <3>1 DEF UpdateReplyOK, Reply, HandleUpdateResponse
    <3>3. q.slice \in pending_update'[q.entry]
      BY <1>12, <3>1, <3>2 DEF UpdateReplyOK
    <3> QED BY <1>11, <2>1, <3>1, <3>3 DEF UpdateReplyOK
  <2> QED BY <1>11, <2>3, <2>4, <2>5 DEF UpdateInv
<1>23. ServerInv'
  <2>1. \A s \in Slice : ServerOK(s)'
    BY <1>2, <1>11 DEF ServerInv, ServerOK, BufferedShares
  <2>2. ASSUME NEW s \in Slice, NEW f \in Entry PROVE LagOK(f, s)'
    <3>1. LagOK(f, s)
      BY <1>2 DEF ServerInv
    <3>2. CASE f = e
      <4>1. \/ Len(log[s]) = v - Step0 + 1
            \/ Len(log[s]) = v - Step0 /\ s \in rest
        BY <1>1, <1>3, <1>4, <3>1, <3>2 DEF LagOK
      <4>2. v - Step0 + 1 = v + 1 - Step0
        BY <1>1, <1>3
      <4>3. Ready(e)' /\ log' = log /\ pending_update'[e] = rest
        BY <1>3, <1>6, <1>11, <1>12, <1>13
      <4>4. CASE rest = {}
        <5>1. version'[e] = v + 1
          BY <1>12, <4>4
        <5>2. s \notin rest
          BY <4>4
        <5>3. Len(log'[s]) = version'[e] - Step0
          <6>1. Len(log[s]) = v - Step0 + 1
            BY <4>1, <5>2
          <6>2. Len(log'[s]) = Len(log[s])
            BY <4>3
          <6> QED BY <1>1, <1>3, <5>1, <6>1, <6>2
        <5>4. pending_update'[e] = {}
          BY <4>3, <4>4
        <5> QED BY <3>2, <4>3, <5>3, <5>4 DEF LagOK
      <4>5. CASE rest # {}
        <5>1. version'[e] = v
          BY <1>12, <4>5
        <5> QED BY <3>2, <4>1, <4>3, <4>5, <5>1 DEF LagOK
      <4> QED BY <4>4, <4>5
    <3>3. CASE f # e
      BY <1>11, <1>12, <1>13, <3>1, <3>3 DEF LagOK
    <3> QED BY <3>2, <3>3
  <2> QED BY <2>1, <2>2 DEF ServerInv
<1> QED BY <1>15, <1>16, <1>17, <1>18, <1>19, <1>20, <1>21, <1>22, <1>23 DEF IInv

\* One gradient per worker, all alike but for the worker.
LEMMA RecordSet ==
  ASSUME NEW W, NEW a, NEW b
  PROVE  {[worker |-> w, step |-> a, base |-> b] : w \in W}
           = [worker : W, step : {a}, base : {b}]
<1> DEFINE A == {[worker |-> w, step |-> a, base |-> b] : w \in W}
           B == [worker : W, step : {a}, base : {b}]
<1>1. ASSUME NEW x \in B
      PROVE  x \in A
  <2>1. x.worker \in W /\ x = [worker |-> x.worker, step |-> a, base |-> b]
    OBVIOUS
  <2> QED BY <2>1
<1>2. ASSUME NEW x \in A
      PROVE  x \in B
  OBVIOUS
<1> HIDE DEF A, B
<1>3. A = B
  BY <1>1, <1>2
<1> QED BY <1>3 DEF A, B

(***************************************************************************)
(* Server actions                                                          *)
(***************************************************************************)
LEMMA InvServerHandlePut ==
  ASSUME SyncJob, IInv, NEW m \in requests, ServerHandlePut(m)
  PROVE  IInv'
<1>1. TypeOK /\ MsgTypeOK /\ ServerTypeOK
  BY DEF IInv, TypeOK
<1>2. WorkerInv /\ DealerInv /\ PutInv /\ StubInv /\ GetInv /\ UpdateInv /\ ServerInv
  BY DEF IInv
<1>3. m.type = "kPut" /\ PutRequestOK(m) /\ m \in Request /\ m.slice \in Slice
  BY <1>1, <1>2 DEF ServerHandlePut, PutInv, MsgTypeOK, Request
<1>4. /\ requests' = requests \ {m} /\ shard' = shard \cup {m.slice}
      /\ num_total'[m.slice] = Cardinality(Worker) /\ server_version'[m.slice] = Step0
      /\ server_local_version'[m.slice] = Step0
      /\ \A s \in Slice : s # m.slice =>
           /\ num_total'[s] = num_total[s] /\ server_version'[s] = server_version[s]
           /\ server_local_version'[s] = server_local_version[s]
      /\ UNCHANGED <<pc, step, local_version, seen, grad, checkpoint, dealer, version,
                     data, replies, status>>
      /\ UNCHANGED <<num_update, next_version, pending_get, pending_update, num_pending>>
      /\ UNCHANGED <<server_num_update, buffer_requests, log>>
  <2>1. m.slice \notin shard /\ m.num = Cardinality(Worker) /\ m.version = Step0
    BY <1>3 DEF PutRequestOK
  <2> QED BY <1>1, <1>3, <2>1
      DEF ServerHandlePut, ServerTypeOK, workerVars, blobVars, stubVars
<1>5. TypeOK'
  BY <1>1, TypeServer DEF ServerStep
<1>6. NoFatal' /\ ExactAggregation' /\ PeriodicCheckpointExact' /\ WorkerInv' /\ DealerInv'
      /\ StubInv'
  BY <1>2, <1>4, LogFrame, CheckpointFrame, WorkerFrame, DealerFrame, QueuedFrame,
     CountedFrame, StubFrame DEF IInv, NoFatal
<1>7. PutInv'
  <2>1. ~NotYetPut
    BY <1>3 DEF NotYetPut
  <2>2. ASSUME NEW q \in requests', q.type = "kPut" PROVE PutRequestOK(q)'
    <3>1. q # m /\ q \in Request /\ PutRequestOK(q)
      BY <1>1, <1>2, <1>4, <2>2 DEF PutInv, MsgTypeOK
    <3>2. q.slice # m.slice
      BY <1>3, <2>2, <3>1 DEF PutRequestOK, Request
    <3> QED BY <1>4, <3>1, <3>2 DEF PutRequestOK
  <2> QED BY <1>2, <1>4, <2>1, <2>2 DEF PutInv, Ready
<1>8. GetInv'
  BY <1>2, <1>4 DEF GetInv, GetEntryOK, GetRequestOK, GetReplyOK, GetSentOK, Ready
<1>9. UpdateInv'
  BY <1>2, <1>4, UpdateShrinks
<1>10. ServerInv'
  <2>1. ASSUME NEW s \in Slice PROVE ServerOK(s)'
    <3>1. ServerOK(s) /\ BufferedShares(s)' = BufferedShares(s)
      BY <1>2, <1>4 DEF ServerInv, BufferedShares
    <3>2. CASE s = m.slice
      <4>1. log[s] = <<>> /\ Step0 + Len(log[s]) = Step0
        BY <1>3, <3>1, <3>2, NumbersAssumption DEF ServerOK, PutRequestOK
      <4> QED BY <1>4, <3>1, <3>2, <4>1 DEF ServerOK
    <3>3. CASE s # m.slice
      BY <1>4, <3>1, <3>3 DEF ServerOK
    <3> QED BY <3>2, <3>3
  <2>2. \A s \in Slice, f \in Entry : LagOK(f, s)'
    BY <1>2, <1>4 DEF ServerInv, LagOK, Ready
  <2> QED BY <2>1, <2>2 DEF ServerInv
<1> QED BY <1>5, <1>6, <1>7, <1>8, <1>9, <1>10 DEF IInv

LEMMA InvServerHandleGet ==
  ASSUME SyncJob, IInv, NEW m \in requests, ServerHandleGet(m)
  PROVE  IInv'
<1> DEFINE s == m.slice
           new == [type |-> "kRGet", entry |-> m.entry, slice |-> s,
                   version |-> server_version[s], value |-> Len(log[s])]
<1>1. TypeOK /\ MsgTypeOK
  BY DEF IInv, TypeOK
<1>2. WorkerInv /\ DealerInv /\ PutInv /\ StubInv /\ GetInv /\ UpdateInv /\ ServerInv
  BY DEF IInv
<1>3. /\ m.type = "kGet" /\ GetRequestOK(m) /\ m \in Request /\ s \in Slice
      /\ m.entry \in Entry /\ s \in shard
  BY <1>1, <1>2 DEF ServerHandleGet, GetInv, MsgTypeOK, Request
<1>4. /\ requests' = requests \ {m} /\ replies' = replies \cup {new}
      /\ UNCHANGED <<pc, step, local_version, seen, grad, checkpoint, dealer, version,
                     data, status>>
      /\ UNCHANGED <<num_update, next_version, pending_get, pending_update, num_pending>>
      /\ UNCHANGED <<shard, num_total, server_num_update, server_version,
                     server_local_version, buffer_requests, log>>
  BY DEF ServerHandleGet, workerVars, blobVars, stubVars, serverVars
<1>5. TypeOK'
  BY <1>1, TypeServer DEF ServerStep
<1>6. NoFatal' /\ ExactAggregation' /\ PeriodicCheckpointExact' /\ WorkerInv' /\ DealerInv'
      /\ StubInv' /\ ServerInv'
  BY <1>2, <1>4, LogFrame, CheckpointFrame, WorkerFrame, DealerFrame, QueuedFrame,
     CountedFrame, StubFrame, ServerFrame DEF IInv, NoFatal
<1>7. PutInv'
  BY <1>2, <1>3, <1>4 DEF PutInv, PutRequestOK, NotYetPut, Ready
<1>8. GetInv'
  <2>1. server_version[s] = Step0 /\ Len(log[s]) = 0
    <3>1. ServerOK(s) /\ LagOK(m.entry, s) /\ StubOK(m.entry)
      BY <1>2, <1>3 DEF ServerInv, StubInv
    <3>2. ~Ready(m.entry)
      BY <1>3, <3>1 DEF GetRequestOK, StubOK
    <3> QED BY <1>3, <3>1, <3>2 DEF ServerOK, LagOK
  <2>2. \A q \in requests' : q.type = "kGet" => ~(q.entry = m.entry /\ q.slice = s)
    <3> SUFFICES ASSUME NEW q \in requests', q.type = "kGet", q.entry = m.entry, q.slice = s
                 PROVE  FALSE
      OBVIOUS
    <3>1. q # m /\ q \in Request /\ GetRequestOK(q)
      BY <1>1, <1>2, <1>4 DEF GetInv, MsgTypeOK
    <3> QED BY <1>3, <3>1 DEF GetRequestOK, Request
  <2>3. GetReplyOK(new)'
    BY <1>3, <1>4, <2>1, <2>2 DEF GetReplyOK, GetRequestOK
  <2>4. \A q \in replies' : q.type = "kRGet" => GetReplyOK(q)'
    <3>1. \A q \in replies : q.type = "kRGet" => GetReplyOK(q)'
      BY <1>2, <1>4 DEF GetInv, GetReplyOK
    <3> QED BY <1>4, <2>3, <3>1
  <2>5. \A q \in requests' : q.type = "kGet" => GetRequestOK(q)'
    BY <1>2, <1>4 DEF GetInv, GetRequestOK
  <2> QED BY <1>2, <1>4, <2>4, <2>5 DEF GetInv, GetEntryOK, GetSentOK, Ready
<1>9. UpdateInv'
  BY <1>2, <1>4, UpdateShrinks
<1> QED BY <1>5, <1>6, <1>7, <1>8, <1>9 DEF IInv

\* The shares of an update add up to all workers, never to more; when they do,
\* every process has sent the same round.
LEMMA InvServerHandleUpdate ==
  ASSUME SyncJob, IInv, NEW m \in requests, ServerHandleUpdate(m)
  PROVE  IInv'
<1> DEFINE e == m.entry
           s == m.slice
           buffered == buffer_requests[s] \cup {m}
           shares == BufferedShares(s) \cup Members(e)
           n == Len(log[s])
<1>1. TypeOK /\ MsgTypeOK /\ ServerTypeOK /\ StubTypeOK
  BY DEF IInv, TypeOK
<1>2. WorkerInv /\ DealerInv /\ PutInv /\ StubInv /\ GetInv /\ UpdateInv /\ ServerInv
  BY DEF IInv
<1>3. /\ m.type = "kUpdate" /\ UpdateRequestOK(m) /\ m \in Request /\ s \in Slice
      /\ e \in Entry /\ s \in shard /\ m.num = NumLocal(e)
  <2>1. m.type = "kUpdate" /\ UpdateRequestOK(m) /\ m \in Request /\ s \in shard
    BY <1>1, <1>2 DEF ServerHandleUpdate, UpdateInv, MsgTypeOK
  <2>2. UpdateMsg(e, s).num = NumLocal(e)
    BY DEF UpdateMsg
  <2> QED BY <2>1, <2>2 DEF UpdateRequestOK, Request
<1>4. /\ ServerOK(s) /\ num_total[s] = Cardinality(Worker)
      /\ server_local_version[s] = Step0 + n
      /\ server_num_update[s] = Cardinality(BufferedShares(s))
  BY <1>2, <1>3 DEF ServerInv, ServerOK
<1>5. /\ requests' = requests \ {m}
      /\ UNCHANGED <<pc, step, local_version, seen, grad, checkpoint, dealer, version, data>>
      /\ UNCHANGED <<num_update, next_version, pending_get, pending_update, num_pending>>
      /\ UNCHANGED <<shard, num_total, server_version>>
  BY DEF ServerHandleUpdate, workerVars, blobVars, stubVars
<1>6. BufferedShares(s) \cap Members(e) = {}
  <2> SUFFICES ASSUME NEW x \in BufferedShares(s), x \in Members(e) PROVE FALSE
    OBVIOUS
  <2>1. PICK b \in buffer_requests[s] : b.entry = e
    BY DEF BufferedShares, Members
  <2>2. b = UpdateMsg(e, s)
    BY <1>2, <1>3, <2>1 DEF UpdateInv, BufferOK
  <2> QED BY <1>3, <2>2 DEF UpdateRequestOK
<1>7. /\ server_num_update[s] + m.num = Cardinality(shares)
      /\ Cardinality(shares) \in Nat /\ Cardinality(Worker) \in Nat
      /\ Cardinality(shares) <= Cardinality(Worker)
      /\ Cardinality(shares) = Cardinality(Worker) <=> shares = Worker
  <2>1. IsFiniteSet(BufferedShares(s)) /\ BufferedShares(s) \subseteq Worker
    BY FS_Subset, TopologyAssumption DEF BufferedShares
  <2>2. IsFiniteSet(Members(e)) /\ Members(e) \subseteq Worker
    BY <1>3, MembersFinite
  <2>3. /\ IsFiniteSet(shares)
        /\ Cardinality(shares) = Cardinality(BufferedShares(s)) + Cardinality(Members(e))
    <3>1. /\ IsFiniteSet(shares)
          /\ Cardinality(shares) = Cardinality(BufferedShares(s)) + Cardinality(Members(e))
               - Cardinality(BufferedShares(s) \cap Members(e))
      BY <2>1, <2>2, FS_Union
    <3>2. Cardinality(BufferedShares(s) \cap Members(e)) = 0
      BY <1>6, FS_EmptySet
    <3>3. Cardinality(BufferedShares(s)) \in Nat /\ Cardinality(Members(e)) \in Nat
      BY <2>1, <2>2, FS_CardinalityType
    <3> QED BY <3>1, <3>2, <3>3
  <2>4. shares \in SUBSET Worker /\ IsFiniteSet(Worker)
    BY <2>1, <2>2, TopologyAssumption
  <2>5. /\ Cardinality(shares) <= Cardinality(Worker)
        /\ Cardinality(Worker) = Cardinality(shares) => Worker = shares
    BY <2>4, FS_Subset
  <2>6. Cardinality(shares) \in Nat /\ Cardinality(Worker) \in Nat
    BY <2>3, <2>4, FS_CardinalityType
  <2>7. server_num_update[s] + m.num = Cardinality(shares)
    BY <1>3, <1>4, <2>3 DEF NumLocal
  <2> QED BY <2>5, <2>6, <2>7
<1>8. TypeOK'
  BY <1>1, TypeServer DEF ServerStep
<1>9. PeriodicCheckpointExact' /\ WorkerInv' /\ DealerInv' /\ StubInv'
  BY <1>2, <1>5, CheckpointFrame, WorkerFrame, DealerFrame, QueuedFrame, CountedFrame,
     StubFrame DEF IInv
<1>10. PutInv'
  BY <1>2, <1>3, <1>5 DEF PutInv, PutRequestOK, NotYetPut, Ready
<1>11. \A f, z : UpdateMsg(f, z)' = UpdateMsg(f, z)
  BY <1>5 DEF UpdateMsg, NumLocal, Members
<1>12. CASE shares # Worker
  <2>1. /\ buffer_requests'[s] = buffered /\ server_num_update'[s] = Cardinality(shares)
        /\ \A z \in Slice : z # s => /\ buffer_requests'[z] = buffer_requests[z]
                                     /\ server_num_update'[z] = server_num_update[z]
        /\ UNCHANGED <<server_local_version, log, replies, status>>
    <3>1. server_num_update[s] + m.num < num_total[s]
      BY <1>4, <1>7, <1>12
    <3> QED BY <1>1, <1>3, <1>7, <3>1 DEF ServerHandleUpdate, ServerTypeOK
  <2>2. NoFatal' /\ ExactAggregation'
    BY <2>1, LogFrame DEF IInv, NoFatal
  <2>3. GetInv'
    BY <1>2, <1>3, <1>5, <2>1
       DEF GetInv, GetEntryOK, GetRequestOK, GetReplyOK, GetSentOK, Ready
  <2>4. UpdateInv'
    <3>1. ASSUME NEW q \in requests', q.type = "kUpdate" PROVE UpdateRequestOK(q)'
      <4>1. UpdateRequestOK(q) /\ q # m /\ q.slice \in Slice
        BY <1>1, <1>2, <1>5, <3>1 DEF UpdateInv, MsgTypeOK, Request
      <4> QED BY <1>5, <1>11, <2>1, <4>1 DEF UpdateRequestOK
    <3>2. ASSUME NEW z \in Slice, NEW b \in buffer_requests'[z] PROVE BufferOK(z, b)'
      <4>1. BufferOK(z, b)
        <5>1. CASE b \in buffer_requests[z]
          BY <1>2, <5>1 DEF UpdateInv
        <5>2. CASE z = s /\ b = m
          BY <1>3, <5>2 DEF UpdateRequestOK, BufferOK
        <5> QED BY <2>1, <5>1, <5>2
      <4> QED BY <1>5, <1>11, <2>1, <4>1 DEF BufferOK
    <3>3. \A r \in replies' : r.type = "kRUpdate" => UpdateReplyOK(r)'
      BY <1>2, <1>5, <2>1 DEF UpdateInv, UpdateReplyOK
    <3> QED BY <3>1, <3>2, <3>3 DEF UpdateInv
  <2>5. ServerInv'
    <3>1. ASSUME NEW z \in Slice PROVE ServerOK(z)'
      <4>1. ServerOK(z)
        BY <1>2 DEF ServerInv
      <4>2. CASE z = s
        <5>1. BufferedShares(s)' = shares
          BY <2>1 DEF BufferedShares, Members
        <5> QED BY <1>3, <1>5, <1>12, <2>1, <4>1, <4>2, <5>1 DEF ServerOK
      <4>3. CASE z # s
        <5>1. BufferedShares(z)' = BufferedShares(z)
          BY <2>1, <4>3 DEF BufferedShares
        <5> QED BY <1>5, <2>1, <4>1, <4>3, <5>1 DEF ServerOK
      <4> QED BY <4>2, <4>3
    <3>2. \A z \in Slice, f \in Entry : LagOK(f, z)'
      BY <1>2, <1>5, <2>1 DEF ServerInv, LagOK, Ready
    <3> QED BY <3>1, <3>2 DEF ServerInv
  <2> QED BY <1>8, <1>9, <1>10, <2>2, <2>3, <2>4, <2>5 DEF IInv
<1>13. CASE shares = Worker
  <2> DEFINE grads == UNION {b.grads : b \in buffered}
             new == {[type |-> "kRUpdate", entry |-> b.entry, slice |-> s,
                      version |-> server_local_version[s] + 1, value |-> n + 1] : b \in buffered}
  <2>1. /\ log'[s] = Append(log[s], grads) /\ replies' = replies \cup new
        /\ server_local_version'[s] = server_local_version[s] + 1
        /\ buffer_requests'[s] = {} /\ server_num_update'[s] = 0
        /\ \A z \in Slice : z # s =>
             /\ log'[z] = log[z] /\ buffer_requests'[z] = buffer_requests[z]
             /\ server_num_update'[z] = server_num_update[z]
             /\ server_local_version'[z] = server_local_version[z]
        /\ status' = status
    <3>1. server_num_update[s] + m.num = num_total[s]
      BY <1>4, <1>7, <1>13
    <3>2. ~(server_num_update[s] + m.num < num_total[s])
          /\ ~(server_num_update[s] + m.num > num_total[s])
      BY <1>4, <1>7, <3>1
    <3> QED BY <1>1, <1>3, <3>2 DEF ServerHandleUpdate, ServerTypeOK
  <2>2. \A b \in buffered : BufferOK(s, b) /\ b.entry \in Entry
    BY <1>1, <1>2, <1>3 DEF UpdateInv, UpdateRequestOK, BufferOK, ServerTypeOK, Request
  <2>3. \A f \in Entry : \E b \in buffered : b.entry = f
    <3> SUFFICES ASSUME NEW f \in Entry PROVE \E b \in buffered : b.entry = f
      OBVIOUS
    <3>1. PICK x \in Worker : entryOf[x] = f
      BY TopologyAssumption
    <3>2. x \in BufferedShares(s) \/ x \in Members(e)
      BY <1>13
    <3> QED BY <3>1, <3>2 DEF BufferedShares, Members
  <2>4. \A f \in Entry : /\ s \in pending_update[f] /\ n = version[f] - Step0
                         /\ version[f] = Step0 + n /\ Ready(f)
    <3> SUFFICES ASSUME NEW f \in Entry
                 PROVE  /\ s \in pending_update[f] /\ n = version[f] - Step0
                        /\ version[f] = Step0 + n /\ Ready(f)
      OBVIOUS
    <3>1. PICK b \in buffered : b.entry = f
      BY <2>3
    <3>2. s \in pending_update[f] /\ n = version[f] - Step0
      BY <2>2, <3>1 DEF BufferOK
    <3>3. version[f] \in Int
      BY <1>1 DEF StubTypeOK
    <3> QED BY <1>2, <3>2, <3>3, NumbersAssumption DEF StubInv, StubOK
  <2>5. n \in Nat /\ Len(log'[s]) = n + 1 /\ log'[s][n + 1] = grads
        /\ \A i \in 1..n : log'[s][i] = log[s][i]
    <3>1. log[s] \in Seq(SUBSET Gradient) /\ log'[s] \in Seq(SUBSET Gradient)
      BY <1>1, <1>3, <1>8 DEF ServerTypeOK, TypeOK
    <3>2. grads \in SUBSET Gradient
      BY <1>1, <1>3 DEF ServerTypeOK, Request
    <3> QED BY <2>1, <3>1, <3>2, AppendProperties, LenProperties
  <2>6. NoFatal'
    BY <2>1 DEF IInv, NoFatal
  <2>7. ExactAggregation'
    <3>1. \A b \in buffered : b.grads = {[worker |-> w, step |-> Step0 + n, base |-> n] :
                                           w \in Members(b.entry)}
      <4> SUFFICES ASSUME NEW b \in buffered
                   PROVE  b.grads = {[worker |-> w, step |-> Step0 + n, base |-> n] :
                                       w \in Members(b.entry)}
        OBVIOUS
      <4>1. b = UpdateMsg(b.entry, s) /\ b.entry \in Entry
        BY <2>2 DEF BufferOK
      <4>2. UpdateMsg(b.entry, s).grads =
              {[worker |-> w, step |-> version[b.entry], base |-> version[b.entry] - Step0] :
                 w \in Members(b.entry)}
        BY DEF UpdateMsg
      <4>3. version[b.entry] = Step0 + n /\ version[b.entry] - Step0 = n
        BY <2>4, <4>1
      <4> QED BY <4>1, <4>2, <4>3
    <3>2. grads = {[worker |-> w, step |-> Step0 + n, base |-> n] : w \in Worker}
      <4>1. \A w \in Worker : \E b \in buffered : w \in Members(b.entry)
        <5>1. \A w \in Worker : entryOf[w] \in Entry
          BY TopologyAssumption
        <5> QED BY <2>3, <5>1 DEF Members
      <4>2. \A b \in buffered : Members(b.entry) \subseteq Worker
        BY DEF Members
      <4> QED BY <3>1, <4>1, <4>2
    <3>3. grads = [worker : Worker, step : {Step0 + (n + 1) - 1}, base : {(n + 1) - 1}]
      <4>1. Step0 + (n + 1) - 1 = Step0 + n /\ (n + 1) - 1 = n
        BY <2>5, NumbersAssumption
      <4>2. {[worker |-> w, step |-> Step0 + n, base |-> n] : w \in Worker}
              = [worker : Worker, step : {Step0 + n}, base : {n}]
        BY RecordSet
      <4> QED BY <3>2, <4>1, <4>2
    <3>4. ASSUME NEW z \in Slice, NEW i \in 1..Len(log'[z])
          PROVE  log'[z][i] = [worker : Worker, step : {Step0 + i - 1}, base : {i - 1}]
      <4>1. CASE z = s /\ i = n + 1
        BY <2>5, <3>3, <4>1
      <4>2. CASE z = s /\ i # n + 1
        <5>1. i \in 1..n
          BY <2>5, <4>2
        <5> QED BY <1>3, <2>5, <4>2, <5>1 DEF IInv, ExactAggregation
      <4>3. CASE z # s
        <5>1. log'[z] = log[z] /\ ExactAggregation
          BY <2>1, <4>3 DEF IInv
        <5> QED BY <5>1 DEF ExactAggregation
      <4> QED BY <4>1, <4>2, <4>3
    <3> QED BY <3>4 DEF ExactAggregation
  <2>8. GetInv'
    <3>1. \A q \in replies' : q.type = "kRGet" => q \in replies
      BY <2>1
    <3> QED BY <1>2, <1>3, <1>5, <3>1
        DEF GetInv, GetEntryOK, GetRequestOK, GetReplyOK, GetSentOK, Ready
  <2>9. UpdateInv'
    <3>1. ASSUME NEW q \in requests', q.type = "kUpdate" PROVE UpdateRequestOK(q)'
      <4>1. UpdateRequestOK(q) /\ q # m /\ q \in requests /\ q.slice \in Slice /\ q.entry \in Entry
        BY <1>1, <1>2, <1>5, <3>1 DEF UpdateInv, MsgTypeOK, Request
      <4>2. q.slice # s
        <5> SUFFICES ASSUME q.slice = s PROVE FALSE
          OBVIOUS
        <5>1. PICK b \in buffered : b.entry = q.entry
          BY <2>3, <4>1
        <5>2. b = UpdateMsg(q.entry, s) /\ q = UpdateMsg(q.entry, s)
          BY <2>2, <4>1, <5>1 DEF BufferOK, UpdateRequestOK
        <5> QED BY <4>1, <5>2 DEF UpdateRequestOK
      <4> QED BY <1>5, <1>11, <2>1, <4>1, <4>2 DEF UpdateRequestOK
    <3>2. ASSUME NEW z \in Slice, NEW b \in buffer_requests'[z] PROVE BufferOK(z, b)'
      <4>1. z # s /\ BufferOK(z, b)
        BY <1>2, <2>1 DEF UpdateInv
      <4> QED BY <1>5, <1>11, <2>1, <4>1 DEF BufferOK
    <3>3. ASSUME NEW r \in replies', r.type = "kRUpdate" PROVE UpdateReplyOK(r)'
      <4>1. CASE r \in new
        <5>1. /\ r.slice = s /\ r.version = Step0 + n + 1 /\ r.value = n + 1
              /\ r.entry \in Entry
          BY <1>4, <2>2, <4>1
        <5>2. version[r.entry] = Step0 + n /\ s \in pending_update[r.entry]
          BY <2>4, <5>1
        <5>3. Step0 + n + 1 - Step0 = n + 1
          BY <2>5, NumbersAssumption
        <5> QED BY <1>5, <2>5, <5>1, <5>2, <5>3 DEF UpdateReplyOK
      <4>2. CASE r \in replies
        <5>1. UpdateReplyOK(r) /\ r.slice \in Slice /\ r.entry \in Entry
          BY <1>1, <1>2, <3>3, <4>2 DEF UpdateInv, MsgTypeOK, Reply
        <5>2. r.slice # s
          <6> SUFFICES ASSUME r.slice = s PROVE FALSE
            OBVIOUS
          <6>1. n = Step0 + n + 1 - Step0
            BY <2>4, <5>1 DEF UpdateReplyOK
          <6> QED BY <2>5, <6>1, NumbersAssumption
        <5> QED BY <1>5, <2>1, <5>1, <5>2 DEF UpdateReplyOK
      <4> QED BY <2>1, <4>1, <4>2
    <3> QED BY <3>1, <3>2, <3>3 DEF UpdateInv
  <2>10. ServerInv'
    <3>1. ASSUME NEW z \in Slice PROVE ServerOK(z)'
      <4>1. ServerOK(z)
        BY <1>2 DEF ServerInv
      <4>2. CASE z = s
        <5>1. BufferedShares(s)' = {}
          BY <2>1 DEF BufferedShares
        <5>2. Cardinality({}) = 0 /\ Worker # {}
          BY FS_EmptySet, TopologyAssumption
        <5>3. server_local_version'[s] = Step0 + Len(log'[s])
          BY <1>4, <2>1, <2>5, NumbersAssumption
        <5> QED BY <1>3, <1>5, <2>1, <4>1, <4>2, <5>1, <5>2, <5>3 DEF ServerOK
      <4>3. CASE z # s
        <5>1. BufferedShares(z)' = BufferedShares(z)
          BY <2>1, <4>3 DEF BufferedShares
        <5> QED BY <1>5, <2>1, <4>1, <4>3, <5>1 DEF ServerOK
      <4> QED BY <4>2, <4>3
    <3>2. ASSUME NEW z \in Slice, NEW f \in Entry PROVE LagOK(f, z)'
      <4>1. LagOK(f, z)
        BY <1>2 DEF ServerInv
      <4>2. CASE z = s
        <5>1. /\ pending_update'[f] # {} /\ Ready(f)'
              /\ Len(log'[s]) = version'[f] - Step0 + 1
          BY <1>5, <2>4, <2>5 DEF Ready
        <5> QED BY <4>2, <5>1 DEF LagOK
      <4>3. CASE z # s
        BY <1>5, <2>1, <4>1, <4>3 DEF LagOK, Ready
      <4> QED BY <4>2, <4>3
    <3> QED BY <3>1, <3>2 DEF ServerInv
  <2> QED BY <1>8, <1>9, <1>10, <2>6, <2>7, <2>8, <2>9, <2>10 DEF IInv
<1> QED BY <1>12, <1>13

(***************************************************************************)
(* The invariant and what follows from it                                  *)
(***************************************************************************)
LEMMA InvInit ==
  ASSUME SyncJob, Init
  PROVE  IInv
<1> USE DEF Init
<1>1. TypeOK
  BY TypeInit
<1>2. /\ \A w \in Worker : entryOf[w] \in Entry /\ dealer[w] = <<>> /\ Len(dealer[w]) = 0
      /\ Owner \in Worker /\ Step0 \in Nat /\ WarmupSteps \in Nat
      /\ Cardinality({}) = 0
  BY TopologyAssumption, NumbersAssumption, FS_EmptySet
<1>3. \A e \in Entry : ~Ready(e)
  BY DEF Ready
<1>4. WorkerInv
  BY <1>2, <1>3 DEF WorkerInv, WorkerOK
<1>5. DealerInv
  BY <1>2 DEF DealerInv
<1>6. PutInv
  BY <1>2, <1>3 DEF PutInv, NotYetPut
<1>7. StubInv
  BY <1>2, <1>3 DEF StubInv, StubOK
<1>8. GetInv
  BY <1>2, <1>3 DEF GetInv, GetEntryOK, GetSentOK
<1>9. UpdateInv
  BY DEF UpdateInv
<1>10. ServerInv
  <2>1. \A s \in Slice : log[s] = <<>> /\ Len(log[s]) = 0 /\ BufferedShares(s) = {}
    BY DEF BufferedShares
  <2> QED BY <1>2, <1>3, <2>1 DEF ServerInv, ServerOK, LagOK
<1>11. NoFatal /\ ExactAggregation /\ PeriodicCheckpointExact
  <2>1. \A s \in Slice : 1..Len(log[s]) = {}
    OBVIOUS
  <2> QED BY <2>1 DEF NoFatal, ExactAggregation, PeriodicCheckpointExact
<1> QED BY <1>1, <1>4, <1>5, <1>6, <1>7, <1>8, <1>9, <1>10, <1>11 DEF IInv

LEMMA InvStutter ==
  ASSUME IInv, UNCHANGED vars
  PROVE  IInv'
<1>1. /\ UNCHANGED <<pc, step, local_version, seen, grad, checkpoint, dealer, version, data,
                     requests, replies, status>>
      /\ UNCHANGED <<num_update, next_version, pending_get, pending_update, num_pending>>
      /\ UNCHANGED <<shard, num_total, server_num_update, server_version,
                     server_local_version, buffer_requests, log>>
  BY DEF vars, workerVars, blobVars, stubVars, serverVars
<1>2. TypeOK'
  BY TypeStutter DEF IInv
<1> QED BY <1>1, <1>2, WorkerFrame, DealerFrame, PutFrame, QueuedFrame, CountedFrame,
           StubFrame, GetFrame, UpdateFrame, ServerFrame, LogFrame, CheckpointFrame
           DEF IInv, NoFatal

LEMMA InvNext ==
  ASSUME SyncJob, IInv, [Next]_vars
  PROVE  IInv'
<1>1. ASSUME NEW w \in Worker, WorkerStep(w) PROVE IInv'
  BY <1>1, InvInitLocalParams, InvPut, InvGet, InvForward, InvBackward, InvCheckpoint,
     InvStop DEF WorkerStep
<1>2. ASSUME NEW w \in Worker, StubRequest(w) PROVE IInv'
  BY <1>2, InvStubHandlePut, InvStubHandleGet, InvStubHandleUpdate, InvStubHandleStop
     DEF StubRequest
<1>3. ASSUME NEW r \in replies, StubReply(r) PROVE IInv'
  BY <1>3, InvHandleGetResponse, InvHandleUpdateResponse DEF StubReply
<1>4. ASSUME NEW m \in requests, ServerStep(m) PROVE IInv'
  BY <1>4, InvServerHandlePut, InvServerHandleGet, InvServerHandleUpdate DEF ServerStep
<1> QED BY <1>1, <1>2, <1>3, <1>4, InvStutter DEF Next, Terminated

\* IInv holds in every state of every synchronous job: any number of workers,
\* processes and slices, any number of steps, any checkpoint interval.
THEOREM SyncInvariant == ASSUME SyncJob PROVE Spec => []IInv
<1>1. Init => IInv
  BY InvInit
<1>2. IInv /\ [Next]_vars => IInv'
  BY InvNext
<1> QED BY <1>1, <1>2, PTL DEF Spec

\* No CHECK and no LOG(FATAL) of the protocol is ever reached.
THEOREM SyncNeverFatal == ASSUME SyncJob PROVE Spec => []NoFatal
<1>1. IInv => NoFatal
  BY DEF IInv
<1> QED BY <1>1, SyncInvariant, PTL

\* Every forward pass reads one complete version of the Param.
THEOREM SyncSnapshotReads == ASSUME SyncJob PROVE Spec => []SnapshotReads
<1>1. IInv => SnapshotReads
  BY DEF IInv, WorkerInv, WorkerOK, SnapshotReads
<1> QED BY <1>1, SyncInvariant, PTL

\* Every update sums exactly one gradient of every worker, of the right step.
THEOREM SyncExactAggregation == ASSUME SyncJob PROVE Spec => []ExactAggregation
<1>1. IInv => ExactAggregation
  BY DEF IInv
<1> QED BY <1>1, SyncInvariant, PTL

\* Every periodic checkpoint is a snapshot of its own step.
THEOREM SyncCheckpointExact == ASSUME SyncJob PROVE Spec => []PeriodicCheckpointExact
<1>1. IInv => PeriodicCheckpointExact
  BY DEF IInv
<1> QED BY <1>1, SyncInvariant, PTL

\* No worker waits in Collect for a version that nothing on its way will bring.
THEOREM SyncNoLostWakeup == ASSUME SyncJob PROVE Spec => []NoLostWakeup
<1>1. ASSUME IInv, NEW w \in Worker, pc[w] \in {"train", "checkpointed"},
             Answered(entryOf[w])
      PROVE  Collected(w)
  <2> DEFINE e == entryOf[w]
  <2>1. WorkerOK(w) /\ e \in Entry /\ StubOK(e) /\ GetEntryOK(e) /\ GetSentOK(w)
    BY <1>1, TopologyAssumption DEF IInv, WorkerInv, StubInv, GetInv
  <2>2. version[e] \in Int /\ step[w] \in Nat
    BY <1>1, <2>1 DEF IInv, TypeOK, WorkerTypeOK, StubTypeOK
  <2>3. /\ w \in Members(e) /\ dealer[w] = <<>> /\ Len(dealer[w]) = 0 /\ num_update[e] = 0
        /\ pending_update[e] = {} /\ pending_get[e] = {}
    BY <1>1 DEF Answered, Members
  <2>4. Ready(e)
    BY <1>1, <2>1, <2>3 DEF WorkerOK, GetSentOK, GetEntryOK
  <2>5. Counted(e) = {}
    <3>1. IsFiniteSet(Counted(e))
      BY <2>1, MembersFinite, FS_Subset DEF Counted
    <3>2. Cardinality(Counted(e)) = 0
      BY <2>1, <2>3, <2>4 DEF StubOK
    <3> QED BY <3>1, <3>2, FS_EmptySet
  <2>6. step[w] = version[e]
    BY <2>1, <2>3, <2>4, <2>5 DEF WorkerOK, Counted, UpdateQueued
  <2> QED BY <2>1, <2>2, <2>6 DEF WorkerOK, Collected
<1>2. IInv => NoLostWakeup
  BY <1>1 DEF NoLostWakeup
<1> QED BY <1>2, SyncInvariant, PTL

-----------------------------------------------------------------------------
(***************************************************************************)
(* Steps of synchronous training                                           *)
(***************************************************************************)
\* Only the owner's initialization and the replies of the servers set the
\* version of a blob, and they set a newer one.
LEMMA VersionStep ==
  ASSUME SyncJob, IInv, [Next]_vars
  PROVE  \A e \in Entry : version'[e] >= version[e]
<1>1. /\ \A e \in Entry : version[e] \in Int
      /\ version \in [Entry -> Int] /\ Step0 \in Nat
      /\ \A w \in Worker : entryOf[w] \in Entry
      /\ replies \subseteq Reply
  BY TopologyAssumption, NumbersAssumption DEF IInv, TypeOK, StubTypeOK, MsgTypeOK
<1>2. CASE UNCHANGED version
  BY <1>1, <1>2
<1>3. ASSUME NEW w \in Worker, InitLocalParams(w)
      PROVE  \A e \in Entry : version'[e] >= version[e]
  BY <1>1, <1>3 DEF InitLocalParams, blobVars, SyncJob
<1>4. ASSUME NEW r \in replies, StubReply(r)
      PROVE  \A e \in Entry : version'[e] >= version[e]
  <2>1. r.entry \in Entry
    BY <1>1 DEF Reply
  <2>2. version' = version \/ version' = [version EXCEPT ![r.entry] = r.version]
    BY <1>4 DEF StubReply, HandleGetResponse, HandleUpdateResponse, ParseResponse, blobVars
  <2>3. CASE r.type = "kRGet"
    <3>1. r.version = Step0 /\ pending_get[r.entry] # {} /\ StubOK(r.entry)
      BY <2>1, <2>3 DEF IInv, GetInv, GetReplyOK, StubInv
    <3>2. version[r.entry] = -1
      BY <3>1 DEF StubOK, Ready
    <3> QED BY <1>1, <2>1, <2>2, <3>1, <3>2
  <2>4. CASE r.type = "kRUpdate"
    <3>1. r.version = version[r.entry] + 1
      BY <2>4 DEF IInv, UpdateInv, UpdateReplyOK
    <3> QED BY <1>1, <2>1, <2>2, <3>1
  <2> QED BY <1>4, <2>3, <2>4 DEF StubReply, HandleGetResponse, HandleUpdateResponse
<1>5. ASSUME NEW w \in Worker, WorkerStep(w) \/ StubRequest(w)
      PROVE  \A e \in Entry : version'[e] >= version[e]
  <2>1. InitLocalParams(w) \/ UNCHANGED version
    BY <1>5 DEF WorkerStep, Put, Get, Forward, Backward, Checkpoint, Stop, StubRequest,
                StubHandlePut, StubHandleGet, StubHandleUpdate, StubHandleStop, blobVars
  <2> QED BY <1>2, <1>3, <2>1
<1>6. ASSUME NEW m \in requests, ServerStep(m) PROVE UNCHANGED version
  BY <1>6 DEF ServerStep, ServerHandlePut, ServerHandleGet, ServerHandleUpdate, blobVars
<1>7. UNCHANGED vars => UNCHANGED version
  BY DEF vars, blobVars
<1> QED BY <1>2, <1>4, <1>5, <1>6, <1>7 DEF Next, Terminated

\* The version of a blob never goes back in synchronous training.
THEOREM SyncVersionGrows == ASSUME SyncJob PROVE Spec => VersionNeverRegresses
<1>1. IInv /\ [Next]_vars => [\A e \in Entry : version'[e] >= version[e]]_version
  BY VersionStep
<1> QED BY <1>1, SyncInvariant, PTL DEF Spec, VersionNeverRegresses

(***************************************************************************)
(* Refinement                                                              *)
(***************************************************************************)
\* A worker computes a gradient when all slices contain what came before.
LEMMA ComputeStep ==
  ASSUME SyncJob, IInv, NEW w \in Worker, Backward(w)
  PROVE  Sync!Compute(w)
<1> DEFINE e == entryOf[w]
<1>1. /\ step \in [Worker -> Nat] /\ e \in Entry /\ Step0 \in Nat /\ TrainSteps \in Nat
      /\ WorkerOK(w) /\ StubOK(e) /\ version[e] \in Int
  BY TopologyAssumption, NumbersAssumption
     DEF IInv, TypeOK, WorkerTypeOK, StubTypeOK, WorkerInv, StubInv
<1>2. pc[w] = "backward" /\ step[w] = version[e] /\ step[w] < TrainSteps /\ Ready(e)
  BY <1>1 DEF Backward, WorkerOK
<1>3. pending_update[e] = {}
  <2>1. w \in Members(e) /\ w \notin Counted(e)
    BY <1>1, <1>2 DEF Members, Counted
  <2> QED BY <1>1, <2>1 DEF StubOK
<1>4. \A s \in Slice : Len(log[s]) = step[w] - Step0
  BY <1>1, <1>2, <1>3 DEF IInv, ServerInv, LagOK
<1>5. log' = log /\ step' = [step EXCEPT ![w] = step[w] + 1]
  BY DEF Backward, serverVars
<1>6. [x \in Worker |-> step'[x] - Step0] =
        [[x \in Worker |-> step[x] - Step0] EXCEPT ![w] = @ + 1]
  <2>1. \A x \in Worker : step'[x] - Step0 =
          IF x = w THEN (step[w] - Step0) + 1 ELSE step[x] - Step0
    BY <1>1, <1>5
  <2> QED BY <2>1
<1>7. [x \in Worker |-> step[x] - Step0][w] = step[w] - Step0
  OBVIOUS
<1>8. \A s \in Slice : [z \in Slice |-> Len(log[z])][s] = step[w] - Step0
  BY <1>4
<1>9. step[w] - Step0 < TrainSteps - Step0
  BY <1>1, <1>2
<1>10. [z \in Slice |-> Len(log'[z])] = [z \in Slice |-> Len(log[z])]
  BY <1>5
<1> QED BY <1>6, <1>7, <1>8, <1>9, <1>10 DEF Sync!Compute

\* A slice is updated when every worker has computed its gradient.
LEMMA ApplyStep ==
  ASSUME SyncJob, IInv, IInv', NEW m \in requests, ServerHandleUpdate(m), log' # log
  PROVE  Sync!Apply(m.slice)
<1> DEFINE s == m.slice
           n == Len(log[s])
<1>1. /\ s \in Slice /\ Step0 \in Nat /\ step \in [Worker -> Nat]
      /\ log \in [Slice -> Seq(SUBSET Gradient)] /\ log' \in [Slice -> Seq(SUBSET Gradient)]
      /\ n \in Nat /\ m \in Request /\ buffer_requests[s] \subseteq Request
  <2>1. /\ log \in [Slice -> Seq(SUBSET Gradient)] /\ log' \in [Slice -> Seq(SUBSET Gradient)]
        /\ s \in Slice /\ step \in [Worker -> Nat]
        /\ m \in Request /\ buffer_requests[s] \subseteq Request
    BY DEF IInv, TypeOK, WorkerTypeOK, ServerTypeOK, MsgTypeOK, Request
  <2> QED BY <2>1, NumbersAssumption, LenProperties
<1>2. /\ UNCHANGED <<step, version, pending_update>>
      /\ \A z \in Slice : z # s => log'[z] = log[z]
      /\ log'[s] = Append(log[s], UNION {b.grads : b \in buffer_requests[s] \cup {m}})
  BY <1>1 DEF ServerHandleUpdate, workerVars, blobVars, stubVars
<1>3. Len(log'[s]) = n + 1
  <2>1. UNION {b.grads : b \in buffer_requests[s] \cup {m}} \in SUBSET Gradient
    <3>1. \A b \in buffer_requests[s] \cup {m} : b.grads \in SUBSET Gradient
      BY <1>1 DEF Request
    <3> QED BY <3>1
  <2> QED BY <1>1, <1>2, <2>1, AppendProperties
<1>4. ASSUME NEW w \in Worker PROVE step[w] - Step0 = n + 1
  <2> DEFINE e == entryOf[w]
  <2>1. e \in Entry /\ LagOK(e, s) /\ LagOK(e, s)' /\ StubOK(e) /\ version[e] \in Int
    BY <1>1, TopologyAssumption DEF IInv, ServerInv, StubInv, TypeOK, StubTypeOK
  <2>2. pending_update[e] # {} /\ n = version[e] - Step0
    <3> DEFINE v == version[e]
               pu == pending_update[e]
    <3>1. /\ v = -1 => n = 0
          /\ v # -1 /\ pu = {} => n = v - Step0
          /\ pu # {} => n = v - Step0 + 1 \/ n = v - Step0
      BY <2>1 DEF LagOK, Ready
    <3>2. version'[e] = v /\ pending_update'[e] = pu
      BY <1>2
    <3>3. /\ v = -1 => n + 1 = 0
          /\ v # -1 /\ pu = {} => n + 1 = v - Step0
          /\ pu # {} => n + 1 = v - Step0 + 1 \/ n + 1 = v - Step0
      BY <1>3, <2>1, <3>2 DEF LagOK, Ready
    <3>4. v \in Int /\ n \in Nat /\ Step0 \in Nat
      BY <1>1, <2>1
    <3> HIDE DEF v, pu, n
    <3>5. pu # {} /\ n = v - Step0
      BY <3>1, <3>3, <3>4
    <3> QED
      BY <3>5 DEF v, pu
  <2>3. w \in Counted(e)
    BY <2>1, <2>2 DEF StubOK, Members
  <2> QED BY <1>1, <2>1, <2>2, <2>3 DEF Counted
<1>5. [z \in Slice |-> Len(log'[z])] =
        [[z \in Slice |-> Len(log[z])] EXCEPT ![s] = n + 1]
  BY <1>1, <1>2, <1>3
<1> QED BY <1>1, <1>2, <1>4, <1>5 DEF Sync!Apply

LEMMA RefinementStep ==
  ASSUME SyncJob, IInv, IInv', [Next]_vars
  PROVE  [Sync!Next]_(Sync!vars)
<1>1. CASE UNCHANGED <<step, log>>
  BY <1>1 DEF Sync!vars
<1>2. ASSUME NEW w \in Worker, WorkerStep(w) \/ StubRequest(w)
      PROVE  Backward(w) \/ UNCHANGED <<step, log>>
  BY <1>2 DEF WorkerStep, InitLocalParams, Put, Get, Forward, Checkpoint, Stop, StubRequest,
              StubHandlePut, StubHandleGet, StubHandleUpdate, StubHandleStop, workerVars,
              serverVars
<1>3. ASSUME NEW r \in replies, StubReply(r) PROVE UNCHANGED <<step, log>>
  BY <1>3 DEF StubReply, HandleGetResponse, HandleUpdateResponse, workerVars, serverVars
<1>4. ASSUME NEW m \in requests, ServerStep(m)
      PROVE  (ServerHandleUpdate(m) /\ log' # log) \/ UNCHANGED <<step, log>>
  BY <1>4 DEF ServerStep, ServerHandlePut, ServerHandleGet, ServerHandleUpdate, workerVars,
              serverVars
<1>5. UNCHANGED vars => UNCHANGED <<step, log>>
  BY DEF vars, workerVars, serverVars
<1>6. ASSUME NEW w \in Worker, Backward(w) PROVE Sync!Next
  BY <1>6, ComputeStep DEF Sync!Next
<1>7. ASSUME NEW m \in requests, ServerHandleUpdate(m), log' # log PROVE Sync!Next
  <2>1. m.slice \in Slice
    BY DEF IInv, TypeOK, MsgTypeOK, Request
  <2> QED BY <1>7, <2>1, ApplyStep DEF Sync!Next
<1> QED BY <1>1, <1>2, <1>3, <1>4, <1>5, <1>6, <1>7 DEF Next, Terminated

\* Workers, stubs and servers together implement synchronous SGD.
THEOREM SyncRefinement == ASSUME SyncJob PROVE Spec => ImplementsSyncSGD
<1>1. Init => Sync!Init
  BY NumbersAssumption DEF Init, Sync!Init
<1>2. IInv /\ IInv' /\ [Next]_vars => [Sync!Next]_(Sync!vars)
  BY RefinementStep
<1> QED BY <1>1, <1>2, SyncInvariant, PTL DEF Spec, ImplementsSyncSGD, Sync!Spec

-------------------------------------------------------------------------------
(***************************************************************************)
(* Several worker groups, which do not wait for each other                 *)
(***************************************************************************)

(***************************************************************************)
(* One group per update                                                    *)
(***************************************************************************)
\* Every group lives in one process, and all have as many workers.
AsyncJob ==
  \A e \in Entry : NumLocal(e) = NumTotal(grpOf[e]) /\ NumLocal(e) = NumLocal(entryOf[Owner])

\* The shares a server waits for.
Shares == NumLocal(entryOf[Owner])

\* The gradients of a set come from one group.
OfGroup(gs) == \E g \in Group : {x.worker : x \in gs} = {w \in Worker : grpOf[entryOf[w]] = g}

\* An update request is all that a server waits for, so that none is buffered.
WholeRequests ==
  /\ \A m \in requests : /\ m.type = "kPut" => m.num = Shares
                         /\ m.type = "kUpdate" => m.num = Shares /\ OfGroup(m.grads)
  /\ \A s \in Slice : /\ buffer_requests[s] = {} /\ server_num_update[s] = 0
                      /\ s \in shard => num_total[s] = Shares

GroupInv == TypeOK /\ WholeRequests /\ OneGroupPerUpdate

LEMMA WholeGroup ==
  ASSUME AsyncJob, NEW e \in Entry
  PROVE  Members(e) = {w \in Worker : grpOf[entryOf[w]] = grpOf[e]}
<1> DEFINE G == {w \in Worker : grpOf[entryOf[w]] = grpOf[e]}
<1>1. Members(e) \subseteq G
  BY DEF Members
<1>2. IsFiniteSet(G)
  BY FS_Subset, TopologyAssumption
<1>3. Cardinality(Members(e)) = Cardinality(G)
  BY DEF AsyncJob, NumLocal, NumTotal
<1> QED
  BY <1>1, <1>2, <1>3, FS_Subset

LEMMA LocalGroup ==
  ASSUME AsyncJob, NEW e \in Entry, NEW s \in Slice
  PROVE  OfGroup(LocalGrads(e)[s])
<1>1. LocalGrads(e)[s] = {[worker |-> w, step |-> grad[w].step, base |-> grad[w].base[s]] : w \in Members(e)}
  BY DEF LocalGrads
<1>2. {x.worker : x \in LocalGrads(e)[s]} = Members(e)
  <2> DEFINE L == LocalGrads(e)[s]
  <2>1. ASSUME NEW w \in Members(e)
        PROVE  \E x \in L : x.worker = w
    <3> DEFINE x == [worker |-> w, step |-> grad[w].step, base |-> grad[w].base[s]]
    <3>1. x \in L /\ x.worker = w
      BY <1>1
    <3> QED
      BY <3>1
  <2>2. \A x \in L : x.worker \in Members(e)
    BY <1>1
  <2> HIDE DEF L
  <2>3. {x.worker : x \in L} = Members(e)
    BY <2>1, <2>2
  <2> QED
    BY <2>3 DEF L
<1>3. grpOf[e] \in Group
  BY TopologyAssumption
<1> QED
  BY <1>2, <1>3, WholeGroup DEF OfGroup

LEMMA GroupLog ==
  ASSUME TypeOK
  PROVE  OneGroupPerUpdate <=> \A s \in Slice : \A n \in 1..Len(log[s]) : OfGroup(log[s][n])
BY DEF OneGroupPerUpdate, OfGroup

LEMMA GroupStub ==
  ASSUME AsyncJob, WholeRequests, NEW w \in Worker, StubRequest(w)
  PROVE  WholeRequests'
<1> DEFINE e == entryOf[w]
<1>0. e \in Entry
  BY TopologyAssumption
<1>1. UNCHANGED serverVars
  BY DEF StubRequest, StubHandlePut, StubHandleGet, StubHandleUpdate, StubHandleStop
<1>2. ASSUME NEW m \in requests', m \notin requests
      PROVE  /\ m.type = "kPut" => m.num = Shares
             /\ m.type = "kUpdate" => m.num = Shares /\ OfGroup(m.grads)
  <2>1. CASE StubHandlePut(w)
    <3>1. m \in GenMsgs("kPut", e, Head(dealer[w]).version, NumTotal(grpOf[e]), NoGrads)
      BY <1>2, <2>1 DEF StubHandlePut
    <3>2. m.type = "kPut" /\ m.num = NumTotal(grpOf[e])
      BY <3>1 DEF GenMsgs
    <3> QED
      BY <1>0, <3>2 DEF AsyncJob, Shares
  <2>2. CASE StubHandleGet(w)
    <3>1. m \in GenMsgs("kGet", e, Head(dealer[w]).version, 0, NoGrads)
      BY <1>2, <2>2 DEF StubHandleGet
    <3> QED
      BY <3>1 DEF GenMsgs
  <2>3. CASE StubHandleUpdate(w)
    <3>1. m \in GenMsgs("kUpdate", e, Head(dealer[w]).version, NumLocal(e), LocalGrads(e))
      BY <1>2, <2>3 DEF StubHandleUpdate
    <3>2. PICK s \in Slice : m.type = "kUpdate" /\ m.num = NumLocal(e) /\ m.grads = LocalGrads(e)[s]
      BY <3>1 DEF GenMsgs
    <3> QED
      BY <1>0, <3>2, LocalGroup DEF AsyncJob, Shares
  <2> QED
    BY <1>2, <2>1, <2>2, <2>3 DEF StubRequest, StubHandleStop
<1>3. \A m \in requests' : /\ m.type = "kPut" => m.num = Shares
                           /\ m.type = "kUpdate" => m.num = Shares /\ OfGroup(m.grads)
  BY <1>2 DEF WholeRequests
<1>4. WholeRequests' <=>
        /\ \A m \in requests' : /\ m.type = "kPut" => m.num = Shares
                                /\ m.type = "kUpdate" => m.num = Shares /\ OfGroup(m.grads)
        /\ \A s \in Slice : /\ buffer_requests'[s] = {} /\ server_num_update'[s] = 0
                            /\ s \in shard' => num_total'[s] = Shares
  BY DEF WholeRequests, OfGroup, Shares, NumLocal, Members
<1> QED
  BY <1>1, <1>3, <1>4 DEF WholeRequests, serverVars

LEMMA GroupServer ==
  ASSUME GroupInv, NEW m \in requests, ServerStep(m)
  PROVE  WholeRequests' /\ OneGroupPerUpdate'
<1> DEFINE s == m.slice
<1>0. /\ TypeOK /\ ServerTypeOK /\ s \in Slice /\ m.num \in Int
      /\ WholeRequests /\ OneGroupPerUpdate
  BY DEF GroupInv, TypeOK, MsgTypeOK, Request
<1>1. \A r \in requests' : r \in requests
  BY DEF ServerStep, ServerHandlePut, ServerHandleGet, ServerHandleUpdate
<1>2. \A r \in requests' : /\ r.type = "kPut" => r.num = Shares
                           /\ r.type = "kUpdate" => r.num = Shares /\ OfGroup(r.grads)
  BY <1>0, <1>1 DEF WholeRequests
<1>3. Shares \in Nat
  BY NumLocalType, TopologyAssumption DEF Shares
<1>4. CASE ServerHandlePut(m)
  <2>1. \A t \in Slice : /\ buffer_requests'[t] = {} /\ server_num_update'[t] = 0
                         /\ t \in shard' => num_total'[t] = Shares
    BY <1>0, <1>4 DEF ServerHandlePut, WholeRequests, serverVars, ServerTypeOK
  <2>2. UNCHANGED log
    BY <1>4 DEF ServerHandlePut, serverVars
  <2> QED
    BY <1>0, <1>2, <2>1, <2>2 DEF WholeRequests, OneGroupPerUpdate
<1>5. CASE ServerHandleGet(m)
  BY <1>0, <1>2, <1>5 DEF ServerHandleGet, serverVars, WholeRequests, OneGroupPerUpdate
<1>6. CASE ServerHandleUpdate(m)
  <2>1. /\ s \in shard /\ m.num = Shares /\ num_total[s] = Shares /\ buffer_requests[s] = {}
        /\ server_num_update[s] = 0 /\ OfGroup(m.grads)
    BY <1>0, <1>6 DEF ServerHandleUpdate, WholeRequests
  <2>2. ~(server_num_update[s] + m.num < num_total[s]) /\ ~(server_num_update[s] + m.num > num_total[s])
    BY <1>3, <2>1
  <2>3. /\ log' = [log EXCEPT ![s] = Append(@, UNION {b.grads : b \in buffer_requests[s] \cup {m}})]
        /\ buffer_requests' = [buffer_requests EXCEPT ![s] = {}]
        /\ server_num_update' = [server_num_update EXCEPT ![s] = 0]
        /\ UNCHANGED <<shard, num_total>>
    BY <1>6, <2>2 DEF ServerHandleUpdate
  <2>4. UNION {b.grads : b \in buffer_requests[s] \cup {m}} = m.grads
    BY <2>1
  <2>5. WholeRequests'
    <3>1. \A t \in Slice : /\ buffer_requests'[t] = {} /\ server_num_update'[t] = 0
                           /\ t \in shard' => num_total'[t] = Shares
      BY <1>0, <2>3 DEF WholeRequests, ServerTypeOK
    <3> QED
      BY <1>2, <3>1 DEF WholeRequests
  <2>6. ASSUME NEW t \in Slice, NEW n \in 1..Len(log'[t])
        PROVE  OfGroup(log'[t][n])
    <3>0. log \in [Slice -> Seq(SUBSET Gradient)] /\ m.grads \in SUBSET Gradient
      BY <1>0 DEF ServerTypeOK, TypeOK, MsgTypeOK, Request
    <3>1. CASE t # s
      BY <1>0, <2>3, <2>6, <3>0, <3>1, GroupLog
    <3>2. CASE t = s
      <4>1. log'[s] = Append(log[s], m.grads) /\ log[s] \in Seq(SUBSET Gradient)
        BY <1>0, <2>3, <2>4, <3>0
      <4>2. /\ Len(log[s]) \in Nat /\ Len(log'[s]) = Len(log[s]) + 1
            /\ log'[s][Len(log[s]) + 1] = m.grads
            /\ \A i \in 1..Len(log[s]) : log'[s][i] = log[s][i]
        BY <3>0, <4>1, AppendProperties, LenProperties
      <4>3. n = Len(log[s]) + 1 \/ n \in 1..Len(log[s])
        BY <2>6, <3>2, <4>2
      <4> QED
        BY <1>0, <2>1, <3>2, <4>2, <4>3, GroupLog
    <3> QED
      BY <3>1, <3>2
  <2> QED
    BY <2>5, <2>6 DEF OneGroupPerUpdate, OfGroup
<1> QED
  BY <1>4, <1>5, <1>6 DEF ServerStep

\* Groups that live in one process and have as many workers each never mix in
\* an update: whichever order their requests reach the servers in, every update
\* of a slice sums the gradients of all workers of one group and of no other.
THEOREM AsyncOneGroup == ASSUME AsyncJob PROVE Spec => []OneGroupPerUpdate
<1>1. Init => WholeRequests /\ OneGroupPerUpdate
  BY DEF Init, WholeRequests, OneGroupPerUpdate
<1>2. TypeOK /\ WholeRequests /\ OneGroupPerUpdate /\ [Next]_vars => WholeRequests' /\ OneGroupPerUpdate'
  <2> SUFFICES ASSUME GroupInv, [Next]_vars
               PROVE  WholeRequests' /\ OneGroupPerUpdate'
    BY DEF GroupInv
  <2>0. WholeRequests /\ OneGroupPerUpdate
    BY DEF GroupInv
  <2>1. CASE UNCHANGED <<requests, serverVars>>
    BY <2>0, <2>1 DEF WholeRequests, OneGroupPerUpdate, serverVars
  <2>2. ASSUME NEW w \in Worker, WorkerStep(w)
        PROVE  UNCHANGED <<requests, serverVars>>
    BY <2>2 DEF WorkerStep, InitLocalParams, Put, Get, Forward, Backward, Checkpoint, Stop
  <2>3. ASSUME NEW w \in Worker, StubRequest(w)
        PROVE  UNCHANGED log /\ WholeRequests'
    BY <2>0, <2>3, GroupStub DEF StubRequest, StubHandlePut, StubHandleGet, StubHandleUpdate, StubHandleStop, serverVars
  <2>4. ASSUME NEW r \in replies, StubReply(r)
        PROVE  UNCHANGED <<requests, serverVars>>
    BY <2>4 DEF StubReply, HandleGetResponse, HandleUpdateResponse
  <2>5. CASE UNCHANGED vars
    BY <2>1, <2>5 DEF vars
  <2> QED
    BY <2>0, <2>1, <2>2, <2>3, <2>4, <2>5, GroupServer DEF Next, Terminated, OneGroupPerUpdate
<1> QED
  BY <1>1, <1>2, TypeCorrect, PTL DEF Spec

-----------------------------------------------------------------------------
(***************************************************************************)
(* Gradients in order                                                      *)
(***************************************************************************)
\* Training starts when the Param is filled, and processes with the owner wait
\* for it.
WarmJob == WarmupSteps <= Step0 /\ WarmupSteps <= InitVersion /\ SleepCoversInit

First == entryOf[Owner]

\* Workers of an entry in round k: those that have sent their update of this
\* round cannot collect before it is answered.
MemberOK(w, k) ==
  /\ step[w] \in {k, k + 1} /\ step[w] >= Step0
  /\ pc[w] # "warmup_backward"
  /\ pc[w] \in {"init", "warmup", "get"} => step[w] = Step0
  /\ local_version[w] >= -1
  /\ step[w] = k + 1 => ~Collected(w)
  /\ pc[w] = "backward" => Collected(w)
  /\ step[w] > Step0 => grad[w].step = step[w] - 1

\* What waits in its dealer.
QueueOK(w, k) ==
  \A i \in 1..Len(dealer[w]) :
    /\ dealer[w][i].type = "kUpdate" =>
         /\ step[w] = k + 1
         /\ \A j \in 1..Len(dealer[w]) : dealer[w][j].type = "kUpdate" => j = i
    /\ dealer[w][i].type = "kGet" => entryOf[w] # First /\ dealer[w][i].version = WarmupSteps

\* No round has begun.
Fresh(e, k) ==
  version[e] = -1 /\ pending_update[e] = {} /\ \A w \in Members(e) : step[w] = k

\* The workers whose update of the round the stub has counted.
Sent(e, k) == {w \in Members(e) : step[w] = k + 1 /\ ~UpdateQueued(w)}

StubRound(e, k) ==
  /\ num_update[e] = Cardinality(Sent(e, k)) /\ Sent(e, k) # Members(e)
  /\ num_pending[e] = Cardinality(pending_get[e]) + Cardinality(pending_update[e])
  /\ pending_update[e] # {} => \A w \in Members(e) : step[w] = k /\ ~Collected(w)
  /\ pending_get[e] # {} => Fresh(e, k) /\ e # First
  /\ next_version[e] \in {-1, WarmupSteps}
  /\ next_version[e] = -1 => pending_get[e] = {} /\ (e # First => Fresh(e, k))
  /\ e = First /\ pc[Owner] = "init" => Fresh(e, k)
  /\ k = Step0 => /\ pending_update[e] = {}
                  /\ e = First /\ pc[Owner] # "init" => version[e] = InitVersion

\* Update requests for slice s, on their way or buffered.
Updates(s) == {m \in requests : m.type = "kUpdate" /\ m.slice = s} \cup buffer_requests[s]

\* What entry e has in the log of slice s, and on its way there.
Absorbed(e, s, k) ==
  \A n \in 1..Len(log[s]) : \A x \in log[s][n] : x.worker \in Members(e) => x.step < k
RequestRound(e, k) ==
  \A s \in Slice :
    /\ Absorbed(e, s, k)
    /\ \A m \in Updates(s) : m.entry = e =>
         /\ s \in pending_update[e] /\ Absorbed(e, s, k - 1)
         /\ \A x \in m.grads : x.worker \in Members(e) /\ x.step = k - 1

RoundOK(e, k) ==
  /\ k >= Step0
  /\ \A w \in Members(e) : MemberOK(w, k) /\ QueueOK(w, k)
  /\ StubRound(e, k) /\ RequestRound(e, k)

\* Of the update of an entry there is one message for a slice.
OneMessage ==
  /\ \A s \in Slice : \A m, b \in Updates(s) : m.entry = b.entry => m = b
  /\ \A m \in requests : m.type = "kUpdate" => m \notin buffer_requests[m.slice]
  /\ \A q, r \in replies : q.type = "kRUpdate" /\ r.type = "kRUpdate"
       /\ q.entry = r.entry /\ q.slice = r.slice => q = r
  /\ \A r \in replies : r.type = "kRUpdate" =>
       /\ r.slice \in pending_update[r.entry]
       /\ \A m \in Updates(r.slice) : m.entry # r.entry

OrderInv ==
  /\ OneMessage /\ GradientsInOrder
  /\ \A e \in Entry : \E k \in Nat : RoundOK(e, k)

LEMMA FirstEntry == First \in Entry /\ Owner \in Members(First)
BY TopologyAssumption DEF First, Members

LEMMA MemberIs ==
  ASSUME NEW e \in Entry, NEW w \in Members(e)
  PROVE  w \in Worker /\ entryOf[w] = e
BY DEF Members

LEMMA RequestFrame ==
  ASSUME NEW e \in Entry, NEW k \in Nat, RequestRound(e, k), pending_update'[e] = pending_update[e],
         UNCHANGED log,
         \A s \in Slice : \A m \in Updates(s)' : m.entry = e => m \in Updates(s)
  PROVE  RequestRound(e, k)'
<1>1. \A s \in Slice : /\ Absorbed(e, s, k)' <=> Absorbed(e, s, k)
                       /\ Absorbed(e, s, k - 1)' <=> Absorbed(e, s, k - 1)
  BY DEF Absorbed, Members
<1>2. \A s \in Slice : \A m \in Updates(s)' : m.entry = e =>
        /\ s \in pending_update'[e] /\ Absorbed(e, s, k - 1)'
        /\ \A x \in m.grads : x.worker \in Members(e) /\ x.step = k - 1
  BY <1>1 DEF RequestRound
<1> QED
  BY <1>1, <1>2 DEF RequestRound, Members

LEMMA UpdatesSame == UNCHANGED <<requests, buffer_requests>> => \A s \in Slice : Updates(s)' = Updates(s)
BY DEF Updates

\* An entry that a step leaves alone.
LEMMA OtherEntry ==
  ASSUME NEW e \in Entry, NEW k \in Nat, RoundOK(e, k),
         \A w \in Members(e) : /\ pc'[w] = pc[w] /\ step'[w] = step[w] /\ grad'[w] = grad[w]
                               /\ local_version'[w] = local_version[w] /\ dealer'[w] = dealer[w],
         version'[e] = version[e], num_update'[e] = num_update[e],
         num_pending'[e] = num_pending[e], pending_get'[e] = pending_get[e],
         pending_update'[e] = pending_update[e], next_version'[e] = next_version[e],
         RequestRound(e, k)'
  PROVE  RoundOK(e, k)'
<1>1. \A w \in Members(e) : /\ Collected(w)' <=> Collected(w)
                            /\ UpdateQueued(w)' <=> UpdateQueued(w)
  BY MemberIs DEF Collected, UpdateQueued
<1>2. ASSUME NEW w \in Members(e)
      PROVE  MemberOK(w, k)' /\ QueueOK(w, k)'
  <2>1. MemberOK(w, k) /\ QueueOK(w, k)
    BY DEF RoundOK
  <2> QED
    BY <1>1, <2>1 DEF MemberOK, QueueOK, First
<1>3. Sent(e, k)' = Sent(e, k) /\ (Fresh(e, k)' <=> Fresh(e, k)) /\ Members(e)' = Members(e)
  BY <1>1 DEF Sent, Fresh, Members
<1>4. e = First => pc'[Owner] = pc[Owner]
  BY FirstEntry
<1>5. StubRound(e, k)'
  BY <1>1, <1>3, <1>4 DEF RoundOK, StubRound, First, Members
<1> QED
  BY <1>2, <1>3, <1>5 DEF RoundOK, Members

\* A worker goes on without an update.
LEMMA PcStep ==
  ASSUME TypeOK, NEW w \in Worker, NEW k \in Nat, RoundOK(entryOf[w], k), NEW p,
         pc' = [pc EXCEPT ![w] = p],
         UNCHANGED <<step, grad, local_version, version, num_update, num_pending,
                     pending_get, pending_update, next_version, requests, log, buffer_requests>>,
         \A x \in Worker : x # w => dealer'[x] = dealer[x],
         QueueOK(w, k)', UpdateQueued(w)' <=> UpdateQueued(w),
         p # "warmup_backward", p \in {"init", "warmup", "get"} => step[w] = Step0,
         p = "backward" => Collected(w), w = Owner => pc[w] # "init" /\ p # "init"
  PROVE  RoundOK(entryOf[w], k)'
<1> DEFINE e == entryOf[w]
<1>0. e \in Entry /\ w \in Members(e) /\ pc \in [Worker -> {"init", "warmup", "warmup_backward", "get", "train",
                        "checkpointed", "backward", "stop"}]
  BY TopologyAssumption DEF Members, TypeOK, WorkerTypeOK
<1>1. \A x \in Members(e) : /\ Collected(x)' <=> Collected(x)
                            /\ UpdateQueued(x)' <=> UpdateQueued(x)
  BY <1>0, MemberIs DEF Collected, UpdateQueued
<1>2. ASSUME NEW x \in Members(e)
      PROVE  MemberOK(x, k)' /\ QueueOK(x, k)'
  <2>1. MemberOK(x, k) /\ QueueOK(x, k) /\ x \in Worker
    BY <1>0, MemberIs DEF RoundOK
  <2>2. CASE x = w
    BY <1>0, <1>1, <2>1, <2>2 DEF MemberOK
  <2>3. CASE x # w
    BY <1>0, <1>1, <2>1, <2>3 DEF MemberOK, QueueOK, First
  <2> QED
    BY <2>2, <2>3
<1>3. Sent(e, k)' = Sent(e, k) /\ (Fresh(e, k)' <=> Fresh(e, k)) /\ Members(e)' = Members(e)
  BY <1>1 DEF Sent, Fresh, Members
<1>4. e = First => (pc'[Owner] = "init" <=> pc[Owner] = "init")
  BY <1>0, TopologyAssumption
<1>5. StubRound(e, k)'
  BY <1>1, <1>3, <1>4 DEF RoundOK, StubRound, First, Members
<1>6. RequestRound(e, k)'
  BY <1>0, RequestFrame, UpdatesSame DEF RoundOK
<1> QED
  BY <1>2, <1>3, <1>5, <1>6 DEF RoundOK, Members

LEMMA QueueSend ==
  ASSUME MsgTypeOK, NEW w \in Worker, NEW k \in Nat, QueueOK(w, k), NEW v \in Int,
         NEW type \in {"kPut", "kGet", "kStop"}, SendToStub(w, type, v), UNCHANGED step,
         type = "kGet" => entryOf[w] # First /\ v = WarmupSteps
  PROVE  QueueOK(w, k)'
<1> DEFINE n == Len(dealer[w])
<1>0. /\ n \in Nat /\ Len(dealer'[w]) = n + 1
      /\ \A i \in 1..n : dealer'[w][i] = dealer[w][i]
      /\ dealer'[w][n + 1].type = type /\ dealer'[w][n + 1].version = v
  BY SendEffect
<1>1. \A i \in 1..Len(dealer'[w]) : i \in 1..n \/ i = n + 1
  BY <1>0
<1>2. \A i \in 1..n : /\ dealer[w][i].type = "kUpdate" =>
                           /\ step[w] = k + 1
                           /\ \A j \in 1..n : dealer[w][j].type = "kUpdate" => j = i
                      /\ dealer[w][i].type = "kGet" => entryOf[w] # First /\ dealer[w][i].version = WarmupSteps
  BY DEF QueueOK
<1> HIDE DEF n
<1>3. ASSUME NEW i \in 1..Len(dealer'[w])
      PROVE  /\ dealer'[w][i].type = "kUpdate" =>
                  /\ step[w] = k + 1
                  /\ \A j \in 1..Len(dealer'[w]) : dealer'[w][j].type = "kUpdate" => j = i
             /\ dealer'[w][i].type = "kGet" => entryOf[w] # First /\ dealer'[w][i].version = WarmupSteps
  <2>1. CASE i \in 1..n
    BY <1>0, <1>1, <1>2, <2>1
  <2>2. CASE i = n + 1
    BY <1>0, <2>2
  <2> QED
    BY <1>1, <2>1, <2>2
<1> QED
  BY <1>3 DEF QueueOK, First

LEMMA QueueReceive ==
  ASSUME MsgTypeOK, NEW w \in Worker, NEW k \in Nat, QueueOK(w, k), NEW type, Receive(w, type),
         UNCHANGED step
  PROVE  /\ QueueOK(w, k)'
         /\ type = "kUpdate" => UpdateQueued(w) /\ ~UpdateQueued(w)' /\ step[w] = k + 1
         /\ type # "kUpdate" => (UpdateQueued(w)' <=> UpdateQueued(w))
         /\ type = "kGet" => entryOf[w] # First /\ Head(dealer[w]).version = WarmupSteps
<1> DEFINE n == Len(dealer[w])
           l == Len(dealer'[w])
<1>0. /\ n \in Nat \ {0} /\ l = n - 1
      /\ dealer[w][1] = Head(dealer[w]) /\ dealer[w][1].type = type
      /\ \A i \in 1..l : dealer'[w][i] = dealer[w][i + 1]
  BY ReceiveEffect
<1>2. \A i \in 1..n : /\ dealer[w][i].type = "kUpdate" =>
                           /\ step[w] = k + 1
                           /\ \A j \in 1..n : dealer[w][j].type = "kUpdate" => j = i
                      /\ dealer[w][i].type = "kGet" => entryOf[w] # First /\ dealer[w][i].version = WarmupSteps
  BY DEF QueueOK
<1>3. /\ UpdateQueued(w) <=> \E i \in 1..n : dealer[w][i].type = "kUpdate"
      /\ UpdateQueued(w)' <=> \E i \in 1..l : dealer'[w][i].type = "kUpdate"
  BY DEF UpdateQueued
<1>4. QueueOK(w, k)' <=> \A i \in 1..l :
        /\ dealer'[w][i].type = "kUpdate" =>
             /\ step[w] = k + 1
             /\ \A j \in 1..l : dealer'[w][j].type = "kUpdate" => j = i
        /\ dealer'[w][i].type = "kGet" => entryOf[w] # First /\ dealer'[w][i].version = WarmupSteps
  BY DEF QueueOK, First
<1> HIDE DEF n, l
<1>5. /\ \A i \in 1..l : i + 1 \in 1..n
      /\ \A i \in 1..n : i # 1 => i - 1 \in 1..l /\ (i - 1) + 1 = i
      /\ 1 \in 1..n
  BY <1>0
<1>6. QueueOK(w, k)'
  <2>1. ASSUME NEW i \in 1..l, dealer'[w][i].type = "kUpdate"
        PROVE  step[w] = k + 1 /\ \A j \in 1..l : dealer'[w][j].type = "kUpdate" => j = i
    <3>1. i + 1 \in 1..n /\ dealer[w][i + 1].type = "kUpdate"
      BY <1>0, <1>5, <2>1
    <3>2. \A j \in 1..l : dealer'[w][j].type = "kUpdate" => j + 1 = i + 1
      BY <1>0, <1>2, <1>5, <3>1
    <3> QED
      BY <1>2, <3>1, <3>2
  <2>2. ASSUME NEW i \in 1..l, dealer'[w][i].type = "kGet"
        PROVE  entryOf[w] # First /\ dealer'[w][i].version = WarmupSteps
    BY <1>0, <1>2, <1>5, <2>2
  <2> QED
    BY <1>4, <2>1, <2>2
<1>7. ASSUME type = "kUpdate"
      PROVE  UpdateQueued(w) /\ ~UpdateQueued(w)' /\ step[w] = k + 1
  <2>1. \A j \in 1..n : dealer[w][j].type = "kUpdate" => j = 1
    BY <1>0, <1>2, <1>5, <1>7
  <2>2. \A i \in 1..l : i + 1 # 1
    BY <1>0
  <2> QED
    BY <1>0, <1>2, <1>3, <1>5, <1>7, <2>1, <2>2
<1>8. ASSUME type # "kUpdate"
      PROVE  UpdateQueued(w)' <=> UpdateQueued(w)
  BY <1>0, <1>3, <1>5, <1>8
<1> QED
  BY <1>0, <1>2, <1>5, <1>6, <1>7, <1>8

LEMMA OtherOfWorker ==
  ASSUME TypeOK, NEW w \in Worker, WorkerStep(w), NEW e \in Entry, e # entryOf[w],
         NEW k \in Nat, RoundOK(e, k)
  PROVE  RoundOK(e, k)'
<1>1. /\ requests' = requests /\ replies' = replies /\ UNCHANGED <<stubVars, serverVars>>
  BY DEF WorkerStep, InitLocalParams, Put, Get, Forward, Backward, Checkpoint, Stop
<1>2. RequestRound(e, k)'
  BY <1>1, RequestFrame, UpdatesSame DEF RoundOK, stubVars, serverVars
<1>3. version'[e] = version[e]
  BY TopologyAssumption DEF TypeOK, StubTypeOK, WorkerStep, InitLocalParams, Put, Get, Forward, Backward,
     Checkpoint, Stop, blobVars
<1>4. ASSUME NEW x \in Members(e)
      PROVE  /\ pc'[x] = pc[x] /\ step'[x] = step[x] /\ grad'[x] = grad[x]
             /\ local_version'[x] = local_version[x] /\ dealer'[x] = dealer[x]
  <2>1. x \in Worker /\ x # w
    BY MemberIs
  <2>2. UNCHANGED dealer \/ \E type, v : SendToStub(w, type, v)
    BY DEF WorkerStep, InitLocalParams, Put, Get, Forward, Backward, Checkpoint, Stop
  <2>3. dealer'[x] = dealer[x]
    BY <2>1, <2>2 DEF TypeOK, MsgTypeOK, SendToStub
  <2>4. pc'[x] = pc[x] /\ step'[x] = step[x] /\ grad'[x] = grad[x] /\ local_version'[x] = local_version[x]
    BY <2>1 DEF TypeOK, WorkerTypeOK, WorkerStep, InitLocalParams, Put, Get, Forward, Backward, Checkpoint, Stop
  <2> QED
    BY <2>3, <2>4
<1> QED
  BY <1>1, <1>2, <1>3, <1>4, OtherEntry DEF stubVars

\* The steps of a worker before and between its updates.
LEMMA OrderPc ==
  ASSUME WarmJob, TypeOK, NEW w \in Worker, NEW k \in Nat, RoundOK(entryOf[w], k),
         Put(w) \/ Get(w) \/ Forward(w) \/ Checkpoint(w) \/ Stop(w)
  PROVE  RoundOK(entryOf[w], k)'
<1> DEFINE e == entryOf[w]
<1>0. /\ e \in Entry /\ w \in Members(e) /\ MsgTypeOK /\ WorkerTypeOK /\ StubTypeOK
      /\ step[w] \in Nat /\ version[e] \in Int
  BY TopologyAssumption DEF Members, TypeOK, WorkerTypeOK, StubTypeOK
<1>1. MemberOK(w, k) /\ QueueOK(w, k) /\ StubRound(e, k)
  BY <1>0 DEF RoundOK
<1>2. UNCHANGED <<step, grad, local_version, version, num_update, num_pending,
                  pending_get, pending_update, next_version, requests, log, buffer_requests>>
  BY DEF Put, Get, Forward, Checkpoint, Stop, blobVars, stubVars, serverVars
<1>3. UNCHANGED dealer => /\ \A x \in Worker : x # w => dealer'[x] = dealer[x]
                          /\ QueueOK(w, k)' /\ (UpdateQueued(w)' <=> UpdateQueued(w))
  BY <1>1, <1>2 DEF QueueOK, UpdateQueued, First
<1>4. ASSUME NEW type \in {"kPut", "kGet", "kStop"}, NEW v \in Int, SendToStub(w, type, v),
             type = "kGet" => e # First /\ v = WarmupSteps
      PROVE  /\ \A x \in Worker : x # w => dealer'[x] = dealer[x]
             /\ QueueOK(w, k)' /\ (UpdateQueued(w)' <=> UpdateQueued(w))
  <2>1. type \in {"kPut", "kGet", "kUpdate", "kStop"} /\ type # "kUpdate"
    OBVIOUS
  <2>2. \A x \in Worker : x # w => dealer'[x] = dealer[x]
    BY <1>0, <1>4, <2>1, SendEffect
  <2>3. UpdateQueued(w)' <=> UpdateQueued(w)
    BY <1>0, <1>4, <2>1, QueuedAfterSend
  <2>4. QueueOK(w, k)'
    BY <1>0, <1>1, <1>2, <1>4, QueueSend
  <2> QED
    BY <2>2, <2>3, <2>4
<1>5. CASE Put(w)
  <2>1. pc[w] = "warmup" /\ pc' = [pc EXCEPT ![w] = "get"] /\ step[w] = Step0
    BY <1>1, <1>5 DEF Put, MemberOK
  <2>2. /\ \A x \in Worker : x # w => dealer'[x] = dealer[x]
        /\ QueueOK(w, k)' /\ (UpdateQueued(w)' <=> UpdateQueued(w))
    BY <1>0, <1>3, <1>4, <1>5 DEF Put
  <2> QED
    BY <1>2, <2>1, <2>2, PcStep
<1>6. CASE Get(w)
  <2>1. pc[w] = "get" /\ pc' = [pc EXCEPT ![w] = "train"] /\ step[w] = Step0
    BY <1>1, <1>6 DEF Get, MemberOK
  <2>2. ASSUME e = First
        PROVE  version[e] >= WarmupSteps
    <3>1. pc[Owner] # "init"
      BY <1>6, <2>2 DEF Get, WarmJob, First
    <3>2. k = Step0 \/ k + 1 = Step0
      BY <1>1, <2>1 DEF MemberOK
    <3>3. k >= Step0
      BY DEF RoundOK
    <3>4. k = Step0
      BY <3>2, <3>3, NumbersAssumption
    <3>5. version[e] = InitVersion
      BY <1>1, <2>2, <3>1, <3>4 DEF StubRound
    <3> QED
      BY <3>5 DEF WarmJob
  <2>3. /\ \A x \in Worker : x # w => dealer'[x] = dealer[x]
        /\ QueueOK(w, k)' /\ (UpdateQueued(w)' <=> UpdateQueued(w))
    BY <1>0, <1>3, <1>4, <1>6, <2>2, NumbersAssumption DEF Get
  <2> QED
    BY <1>2, <2>1, <2>3, PcStep
<1>7. CASE Forward(w)
  <2>1. ~(pc[w] = "warmup" /\ step[w] < WarmupSteps)
    BY <1>0, <1>1, NumbersAssumption DEF MemberOK, WarmJob
  <2>2. /\ pc[w] \in {"train", "checkpointed"} /\ pc' = [pc EXCEPT ![w] = "backward"]
        /\ Collected(w) /\ UNCHANGED dealer
    BY <1>0, <1>7, <2>1 DEF Forward
  <2> QED
    BY <1>2, <1>3, <2>2, PcStep
<1>8. CASE Checkpoint(w)
  <2>1. pc[w] = "train" /\ pc' = [pc EXCEPT ![w] = "checkpointed"] /\ UNCHANGED dealer
    BY <1>8 DEF Checkpoint
  <2> QED
    BY <1>2, <1>3, <2>1, PcStep
<1>9. CASE Stop(w)
  <2>1. pc[w] = "train" /\ pc' = [pc EXCEPT ![w] = "stop"] /\ SendToStub(w, "kStop", 0)
    BY <1>9 DEF Stop
  <2>2. /\ \A x \in Worker : x # w => dealer'[x] = dealer[x]
        /\ QueueOK(w, k)' /\ (UpdateQueued(w)' <=> UpdateQueued(w))
    BY <1>4, <2>1
  <2> QED
    BY <1>2, <2>1, <2>2, PcStep
<1> QED
  BY <1>5, <1>6, <1>7, <1>8, <1>9

LEMMA OrderInit ==
  ASSUME WarmJob, TypeOK, NEW w \in Worker, NEW k \in Nat, RoundOK(entryOf[w], k),
         InitLocalParams(w)
  PROVE  RoundOK(entryOf[w], k)'
<1> DEFINE e == entryOf[w]
<1>0. /\ e \in Entry /\ w \in Members(e) /\ MsgTypeOK /\ WorkerTypeOK /\ StubTypeOK
      /\ step[w] \in Nat /\ version[e] \in Int
  BY TopologyAssumption DEF Members, TypeOK, WorkerTypeOK, StubTypeOK
<1>1. MemberOK(w, k) /\ QueueOK(w, k) /\ StubRound(e, k)
  BY <1>0 DEF RoundOK
<1>2. PICK p \in {"warmup", "get"} : pc' = [pc EXCEPT ![w] = p]
  BY DEF InitLocalParams
<1>3. /\ UNCHANGED <<step, grad, local_version, num_update, num_pending,
                     pending_get, pending_update, next_version, requests, log, buffer_requests>>
      /\ UNCHANGED dealer /\ pc[w] = "init" /\ step[w] = Step0
  BY <1>1 DEF InitLocalParams, MemberOK, stubVars, serverVars
<1>4. QueueOK(w, k)' /\ (UpdateQueued(w)' <=> UpdateQueued(w))
  BY <1>1, <1>3 DEF QueueOK, UpdateQueued, First
<1>5. CASE w # Owner
  <2>1. UNCHANGED version
    BY <1>5 DEF InitLocalParams, blobVars
  <2> QED
    BY <1>2, <1>3, <1>4, <1>5, <2>1, PcStep
<1>6. CASE w = Owner
  <2>1. Fresh(e, k) /\ e = First
    BY <1>1, <1>3, <1>6 DEF StubRound, First
  <2>2. version' = [version EXCEPT ![e] = InitVersion]
    BY <1>6, <2>1 DEF InitLocalParams, Fresh
  <2>3. version'[e] = InitVersion /\ version[e] = -1 /\ pending_get[e] = {} /\ pending_update[e] = {}
    BY <1>0, <1>1, <2>1, <2>2 DEF StubRound, Fresh, StubTypeOK
  <2>4. \A x \in Members(e) : step[x] = k /\ x \in Worker /\ entryOf[x] = e
    BY <1>0, <2>1, MemberIs DEF Fresh
  <2>5. ASSUME NEW x \in Members(e)
        PROVE  MemberOK(x, k)' /\ QueueOK(x, k)'
    <3>1. MemberOK(x, k) /\ QueueOK(x, k) /\ x \in Worker /\ entryOf[x] = e /\ step[x] = k
      BY <2>4 DEF RoundOK
    <3>2. QueueOK(x, k)'
      BY <1>3, <3>1 DEF QueueOK, First
    <3>3. pc'[x] \in {pc[x], p} /\ (pc'[x] # pc[x] => x = w)
      BY <1>0, <1>2, <3>1 DEF WorkerTypeOK
    <3>4. local_version[x] \in Int
      BY <1>0, <3>1 DEF WorkerTypeOK
    <3>5. pc[x] # "backward"
      BY <2>3, <3>1, <3>4 DEF MemberOK, Collected
    <3> QED
      BY <1>3, <3>1, <3>2, <3>3, <3>5 DEF MemberOK
  <2>6. Sent(e, k)' = Sent(e, k) /\ Members(e)' = Members(e)
    BY <1>3 DEF Sent, Members, UpdateQueued
  <2>7. pc'[Owner] # "init"
    BY <1>0, <1>2, <1>6 DEF WorkerTypeOK
  <2>8. StubRound(e, k)'
    BY <1>1, <1>3, <2>1, <2>3, <2>6, <2>7 DEF StubRound, First
  <2>9. RequestRound(e, k)'
    BY <1>0, <1>3, RequestFrame, UpdatesSame DEF RoundOK
  <2> QED
    BY <2>5, <2>6, <2>8, <2>9 DEF RoundOK
<1> QED
  BY <1>5, <1>6

\* A worker sends the update of its round.
LEMMA OrderBackward ==
  ASSUME WarmJob, TypeOK, NEW w \in Worker, NEW k \in Nat, RoundOK(entryOf[w], k), Backward(w)
  PROVE  RoundOK(entryOf[w], k)'
<1> DEFINE e == entryOf[w]
           n == Len(dealer[w])
<1>0. /\ e \in Entry /\ w \in Members(e) /\ MsgTypeOK /\ WorkerTypeOK /\ StubTypeOK
      /\ step[w] \in Nat /\ version[e] \in Int /\ local_version[w] \in Int
  BY TopologyAssumption DEF Members, TypeOK, WorkerTypeOK, StubTypeOK
<1>1. MemberOK(w, k) /\ QueueOK(w, k) /\ StubRound(e, k) /\ k >= Step0
  BY <1>0 DEF RoundOK
<1>2. /\ pc[w] = "backward" /\ Collected(w) /\ step[w] = k
  BY <1>1 DEF Backward, MemberOK
<1>3. /\ UNCHANGED <<version, num_update, num_pending, pending_get, pending_update, next_version,
                     requests, log, buffer_requests>>
      /\ pc' = [pc EXCEPT ![w] = "train"] /\ SendToStub(w, "kUpdate", k)
      /\ step' = [step EXCEPT ![w] = k + 1]
      /\ local_version' = [local_version EXCEPT ![w] = version[e]]
      /\ grad' = [grad EXCEPT ![w] = [step |-> k, base |-> seen[w]]]
  BY <1>0, <1>2 DEF Backward, blobVars, stubVars, serverVars
<1>4. /\ \A x \in Worker : x # w => /\ dealer'[x] = dealer[x] /\ pc'[x] = pc[x] /\ step'[x] = step[x]
                                    /\ local_version'[x] = local_version[x] /\ grad'[x] = grad[x]
      /\ pc'[w] = "train" /\ step'[w] = k + 1 /\ local_version'[w] = version[e]
      /\ grad'[w].step = k
  <2>1. \A x \in Worker : x # w => dealer'[x] = dealer[x]
    BY <1>0, <1>3, SendEffect
  <2> QED
    BY <1>0, <1>3, <2>1 DEF WorkerTypeOK
<1>5. ~UpdateQueued(w) /\ UpdateQueued(w)' /\ \A x \in Worker : x # w => (UpdateQueued(x)' <=> UpdateQueued(x))
  <2>1. UpdateQueued(w)' /\ \A x \in Worker : x # w => (UpdateQueued(x)' <=> UpdateQueued(x))
    BY <1>0, <1>3, QueuedAfterSend
  <2>2. ~UpdateQueued(w)
    BY <1>1, <1>2 DEF UpdateQueued, QueueOK
  <2> QED
    BY <2>1, <2>2
<1>6. QueueOK(w, k)'
  <2>0. /\ n \in Nat /\ Len(dealer'[w]) = n + 1
        /\ \A i \in 1..n : dealer'[w][i] = dealer[w][i]
        /\ dealer'[w][n + 1].type = "kUpdate"
    BY <1>0, <1>3, SendEffect
  <2>1. \A i \in 1..n : /\ dealer[w][i].type # "kUpdate"
                        /\ dealer[w][i].type = "kGet" => e # First /\ dealer[w][i].version = WarmupSteps
    BY <1>1, <1>5 DEF QueueOK, UpdateQueued
  <2>2. \A i \in 1..(n + 1) : i \in 1..n \/ i = n + 1
    BY <2>0
  <2> HIDE DEF n
  <2>3. \A i \in 1..(n + 1) : /\ dealer'[w][i].type = "kUpdate" => i = n + 1
                              /\ dealer'[w][i].type = "kGet" => e # First /\ dealer'[w][i].version = WarmupSteps
    BY <2>0, <2>1, <2>2
  <2> QED
    BY <1>4, <2>0, <2>3 DEF QueueOK, First
<1>7. pending_update[e] = {} /\ ~Fresh(e, k) /\ pending_get[e] = {}
  <2>1. pending_update[e] = {}
    BY <1>0, <1>1, <1>2 DEF StubRound
  <2>2. ~Fresh(e, k)
    BY <1>0, <1>1, <1>2 DEF Fresh, MemberOK, Collected
  <2> QED
    BY <1>1, <2>1, <2>2 DEF StubRound
<1>8. Sent(e, k)' = Sent(e, k) /\ Members(e)' = Members(e)
  <2>1. ASSUME NEW x \in Members(e)
        PROVE  x \in Sent(e, k)' <=> x \in Sent(e, k)
    BY <1>0, <1>2, <1>4, <1>5, MemberIs DEF Sent, Members
  <2> QED
    BY <2>1 DEF Sent, Members
<1>9. ASSUME NEW x \in Members(e)
      PROVE  MemberOK(x, k)' /\ QueueOK(x, k)'
  <2>1. MemberOK(x, k) /\ QueueOK(x, k) /\ x \in Worker /\ entryOf[x] = e
    BY <1>0, MemberIs DEF RoundOK
  <2>2. CASE x # w
    BY <1>3, <1>4, <2>1, <2>2 DEF MemberOK, QueueOK, Collected, First
  <2>3. CASE x = w
    <3>1. ~Collected(w)'
      BY <1>0, <1>3, <1>4 DEF Collected
    <3>2. version[e] >= -1
      BY <1>0, <1>1, <1>2 DEF MemberOK, Collected
    <3>3. (k + 1) - 1 = k /\ k + 1 >= Step0
      BY <1>1, NumbersAssumption
    <3> QED
      BY <1>1, <1>4, <1>6, <2>3, <3>1, <3>2, <3>3 DEF MemberOK
  <2> QED
    BY <2>2, <2>3
<1>10. StubRound(e, k)'
  <2>1. e = First => pc'[Owner] # "init" /\ pc[Owner] # "init"
    BY <1>1, <1>4, <1>7, TopologyAssumption DEF StubRound
  <2> QED
    BY <1>1, <1>3, <1>7, <1>8, <2>1 DEF StubRound, First
<1>11. RequestRound(e, k)'
  BY <1>0, <1>3, RequestFrame, UpdatesSame DEF RoundOK
<1> QED
  BY <1>8, <1>9, <1>10, <1>11 DEF RoundOK

LEMMA OrderWorker ==
  ASSUME WarmJob, TypeOK, OrderInv, NEW w \in Worker, WorkerStep(w)
  PROVE  OrderInv'
<1>1. /\ requests' = requests /\ replies' = replies /\ UNCHANGED <<stubVars, serverVars>>
  BY DEF WorkerStep, InitLocalParams, Put, Get, Forward, Backward, Checkpoint, Stop
<1>2. OneMessage'
  <2>1. \A s \in Slice : Updates(s)' = Updates(s)
    BY <1>1, UpdatesSame DEF serverVars
  <2>2. \A r \in replies : r.slice \in Slice
    BY DEF TypeOK, MsgTypeOK, Reply
  <2> QED
    BY <1>1, <2>1, <2>2 DEF OrderInv, OneMessage, stubVars, serverVars
<1>3. GradientsInOrder'
  BY <1>1 DEF OrderInv, GradientsInOrder, serverVars
<1>4. ASSUME NEW e \in Entry
      PROVE  \E k \in Nat : RoundOK(e, k)'
  <2>1. PICK k \in Nat : RoundOK(e, k)
    BY DEF OrderInv
  <2>2. CASE e = entryOf[w]
    BY <2>1, <2>2, OrderPc, OrderInit, OrderBackward DEF WorkerStep
  <2>3. CASE e # entryOf[w]
    BY <2>1, <2>3, OtherOfWorker
  <2> QED
    BY <2>2, <2>3
<1> QED
  BY <1>2, <1>3, <1>4 DEF OrderInv

-----------------------------------------------------------------------------
\* What the stub sends belongs to the entry of the worker it serves.
LEMMA StubSends ==
  ASSUME NEW w \in Worker, StubRequest(w)
  PROVE  /\ \A m \in requests' : m \in requests \/ m.entry = entryOf[w]
         /\ ~StubHandleUpdate(w) => \A m \in requests' : m \in requests \/ m.type # "kUpdate"
         /\ replies' = replies /\ UNCHANGED <<workerVars, blobVars, serverVars>>
         /\ \E type : Receive(w, type)
BY DEF StubRequest, StubHandlePut, StubHandleGet, StubHandleUpdate, StubHandleStop, GenMsgs

LEMMA OtherOfStub ==
  ASSUME TypeOK, NEW w \in Worker, StubRequest(w), NEW e \in Entry, e # entryOf[w],
         NEW k \in Nat, RoundOK(e, k)
  PROVE  RoundOK(e, k)'
<1>1. /\ \A m \in requests' : m \in requests \/ m.entry = entryOf[w]
      /\ UNCHANGED <<workerVars, blobVars, serverVars>>
  BY StubSends
<1>2. /\ num_update'[e] = num_update[e] /\ num_pending'[e] = num_pending[e]
      /\ pending_get'[e] = pending_get[e] /\ pending_update'[e] = pending_update[e]
      /\ next_version'[e] = next_version[e]
  BY DEF TypeOK, StubTypeOK, StubRequest, StubHandlePut, StubHandleGet, StubHandleUpdate, StubHandleStop,
     stubVars
<1>3. RequestRound(e, k)'
  <2>1. \A s \in Slice : \A m \in Updates(s)' : m.entry = e => m \in Updates(s)
    BY <1>1 DEF Updates, serverVars
  <2> QED
    BY <1>1, <1>2, <2>1, RequestFrame DEF RoundOK, serverVars
<1>4. ASSUME NEW x \in Members(e)
      PROVE  /\ pc'[x] = pc[x] /\ step'[x] = step[x] /\ grad'[x] = grad[x]
             /\ local_version'[x] = local_version[x] /\ dealer'[x] = dealer[x]
  <2>1. x \in Worker /\ x # w
    BY MemberIs
  <2>2. dealer'[x] = dealer[x]
    BY <2>1, StubSends DEF TypeOK, MsgTypeOK, Receive
  <2> QED
    BY <1>1, <2>2 DEF workerVars
<1> QED
  BY <1>1, <1>2, <1>3, <1>4, OtherEntry DEF blobVars

\* Receiving anything but an update leaves the round alone.
LEMMA ReceiveRound ==
  ASSUME TypeOK, NEW w \in Worker, NEW k \in Nat, RoundOK(entryOf[w], k),
         NEW type, Receive(w, type), type # "kUpdate",
         UNCHANGED <<pc, step, grad, local_version, version, log, buffer_requests>>,
         \A m \in requests' : m \in requests \/ m.type # "kUpdate",
         pending_update'[entryOf[w]] = pending_update[entryOf[w]]
  PROVE  LET e == entryOf[w] IN
         /\ \A x \in Members(e) : MemberOK(x, k)' /\ QueueOK(x, k)' /\ (Collected(x)' <=> Collected(x))
         /\ Sent(e, k)' = Sent(e, k) /\ Members(e)' = Members(e)
         /\ Fresh(e, k)' <=> Fresh(e, k)
         /\ RequestRound(e, k)'
<1> DEFINE e == entryOf[w]
<1>0. e \in Entry /\ w \in Members(e) /\ MsgTypeOK
  BY TopologyAssumption DEF Members, TypeOK
<1>1. \A x \in Worker : x # w => dealer'[x] = dealer[x]
  BY <1>0, ReceiveEffect
<1>2. /\ QueueOK(w, k)' /\ (UpdateQueued(w)' <=> UpdateQueued(w))
  BY <1>0, QueueReceive DEF RoundOK
<1>3. ASSUME NEW x \in Members(e)
      PROVE  /\ MemberOK(x, k)' /\ QueueOK(x, k)' /\ (Collected(x)' <=> Collected(x))
             /\ UpdateQueued(x)' <=> UpdateQueued(x)
  <2>1. MemberOK(x, k) /\ QueueOK(x, k) /\ x \in Worker
    BY <1>0, MemberIs DEF RoundOK
  <2>2. MemberOK(x, k)' /\ (Collected(x)' <=> Collected(x))
    BY <2>1 DEF MemberOK, Collected
  <2>3. CASE x = w
    BY <1>2, <2>2, <2>3
  <2>4. CASE x # w
    BY <1>1, <2>1, <2>2, <2>4 DEF QueueOK, UpdateQueued, First
  <2> QED
    BY <2>3, <2>4
<1>4. Sent(e, k)' = Sent(e, k) /\ Members(e)' = Members(e) /\ (Fresh(e, k)' <=> Fresh(e, k))
  BY <1>3 DEF Sent, Members, Fresh
<1>5. \A s \in Slice : \A m \in Updates(s)' : m \in Updates(s)
  BY DEF Updates
<1>6. RequestRound(e, k)'
  BY <1>0, <1>5, RequestFrame DEF RoundOK
<1> QED
  BY <1>3, <1>4, <1>6

LEMMA OrderStubKeep ==
  ASSUME TypeOK, NEW w \in Worker, NEW k \in Nat, RoundOK(entryOf[w], k),
         StubHandlePut(w) \/ StubHandleGet(w) \/ StubHandleStop(w)
  PROVE  RoundOK(entryOf[w], k)'
<1> DEFINE e == entryOf[w]
<1>0. e \in Entry /\ w \in Members(e) /\ MsgTypeOK /\ StubTypeOK
  BY TopologyAssumption DEF Members, TypeOK
<1>1. /\ UNCHANGED <<pc, step, grad, local_version, version, log, buffer_requests>>
      /\ UNCHANGED pending_update /\ num_update' = num_update
  BY DEF StubHandlePut, StubHandleGet, StubHandleStop, workerVars, blobVars, serverVars, stubVars
<1>2. \A m \in requests' : m \in requests \/ m.type # "kUpdate"
  BY DEF StubHandlePut, StubHandleGet, StubHandleStop, GenMsgs
<1>3. PICK type : Receive(w, type) /\ type # "kUpdate" /\ (StubHandleGet(w) => type = "kGet")
  BY DEF StubHandlePut, StubHandleGet, StubHandleStop
<1>4. /\ \A x \in Members(e) : MemberOK(x, k)' /\ QueueOK(x, k)' /\ (Collected(x)' <=> Collected(x))
      /\ Sent(e, k)' = Sent(e, k) /\ Members(e)' = Members(e)
      /\ Fresh(e, k)' <=> Fresh(e, k)
      /\ RequestRound(e, k)'
  BY <1>1, <1>2, <1>3, ReceiveRound
<1>5. StubRound(e, k)
  BY DEF RoundOK
<1>6. CASE UNCHANGED <<num_pending, pending_get, next_version>>
  <2>1. StubRound(e, k)'
    BY <1>1, <1>4, <1>5, <1>6 DEF StubRound, First
  <2> QED
    BY <1>4, <2>1 DEF RoundOK
<1>7. CASE StubHandleGet(w) /\ Head(dealer[w]).version > next_version[e]
  <2>1. e # First /\ Head(dealer[w]).version = WarmupSteps
    BY <1>0, <1>1, <1>3, <1>7, QueueReceive DEF RoundOK
  <2>2. /\ next_version'[e] = WarmupSteps /\ pending_get'[e] = Slice
        /\ num_pending'[e] = num_pending[e] + Cardinality(Slice)
    BY <1>0, <1>7, <2>1 DEF StubHandleGet, StubTypeOK
  <2>3. next_version[e] = -1
    BY <1>5, <1>7, <2>1, NumbersAssumption DEF StubRound
  <2>4. pending_get[e] = {} /\ Fresh(e, k) /\ pending_update[e] = {}
    BY <1>5, <2>1, <2>3 DEF StubRound, Fresh
  <2>5. num_pending'[e] = Cardinality(pending_get'[e]) + Cardinality(pending_update'[e])
    BY <1>1, <1>5, <2>2, <2>4, FS_EmptySet, SliceCount DEF StubRound
  <2>6. WarmupSteps # -1
    BY NumbersAssumption
  <2>7. StubRound(e, k)'
    BY <1>1, <1>4, <1>5, <2>1, <2>2, <2>4, <2>5, <2>6 DEF StubRound, First
  <2> QED
    BY <1>4, <2>7 DEF RoundOK
<1> QED
  BY <1>6, <1>7 DEF StubHandlePut, StubHandleGet, StubHandleStop, stubVars

\* The stub counts an update; with the last of its entry the round is over.
LEMMA OrderStubUpdate ==
  ASSUME TypeOK, OneMessage, NEW w \in Worker, NEW k \in Nat, RoundOK(entryOf[w], k),
         StubHandleUpdate(w)
  PROVE  /\ \E j \in Nat : RoundOK(entryOf[w], j)'
         /\ OneMessage'
<1> DEFINE e == entryOf[w]
           new == GenMsgs("kUpdate", e, Head(dealer[w]).version, NumLocal(e), LocalGrads(e))
<1>0. /\ e \in Entry /\ w \in Members(e) /\ MsgTypeOK /\ StubTypeOK /\ WorkerTypeOK /\ ServerTypeOK
      /\ NumLocal(e) \in Nat
  BY TopologyAssumption, NumLocalType DEF Members, TypeOK
<1>1. /\ UNCHANGED <<pc, step, grad, local_version, version>>
      /\ UNCHANGED <<log, buffer_requests, replies>> /\ UNCHANGED <<next_version, pending_get>>
      /\ Receive(w, "kUpdate")
  BY DEF StubHandleUpdate, workerVars, blobVars, serverVars
<1>2. /\ MemberOK(w, k) /\ QueueOK(w, k) /\ StubRound(e, k) /\ RequestRound(e, k) /\ k >= Step0
  BY <1>0 DEF RoundOK
<1>3. /\ QueueOK(w, k)' /\ UpdateQueued(w) /\ ~UpdateQueued(w)' /\ step[w] = k + 1
      /\ \A x \in Worker : x # w => dealer'[x] = dealer[x]
  BY <1>0, <1>1, <1>2, QueueReceive, ReceiveEffect
<1>4. \A x \in Worker : x # w => (UpdateQueued(x)' <=> UpdateQueued(x))
  BY <1>3 DEF UpdateQueued
<1>5. /\ pending_update[e] = {} /\ ~Fresh(e, k) /\ pending_get[e] = {} /\ num_pending[e] = 0
      /\ e # First => next_version[e] # -1
      /\ e = First => pc[Owner] # "init"
  <2>1. pending_update[e] = {} /\ ~Fresh(e, k)
    BY <1>0, <1>2, <1>3 DEF StubRound, Fresh
  <2> QED
    BY <1>2, <2>1, FS_EmptySet DEF StubRound
<1>6. /\ w \notin Sent(e, k) /\ Sent(e, k)' = Sent(e, k) \cup {w} /\ Members(e)' = Members(e)
      /\ Sent(e, k)' \subseteq Members(e)
  <2>1. \A x \in Members(e) : x # w => (x \in Sent(e, k)' <=> x \in Sent(e, k))
    BY <1>1, <1>4, MemberIs, <1>0 DEF Sent, Members
  <2>2. w \in Sent(e, k)' /\ w \notin Sent(e, k)
    BY <1>0, <1>1, <1>3 DEF Sent, Members
  <2> QED
    BY <1>0, <2>1, <2>2 DEF Sent, Members
<1>7. /\ num_update[e] + 1 = Cardinality(Sent(e, k)')
      /\ Cardinality(Sent(e, k)') \in Nat /\ Cardinality(Sent(e, k)') <= NumLocal(e)
      /\ Cardinality(Sent(e, k)') = NumLocal(e) <=> Sent(e, k)' = Members(e)
  <2>1. IsFiniteSet(Members(e)) /\ IsFiniteSet(Sent(e, k)) /\ IsFiniteSet(Sent(e, k)')
    BY <1>0, <1>6, MembersFinite, FS_Subset
  <2>2. Cardinality(Sent(e, k) \cup {w}) = Cardinality(Sent(e, k)) + 1
    BY <1>6, <2>1, FS_AddElement
  <2>3. num_update[e] = Cardinality(Sent(e, k))
    BY <1>2 DEF StubRound
  <2>4. /\ Cardinality(Sent(e, k)') <= Cardinality(Members(e))
        /\ Cardinality(Members(e)) = Cardinality(Sent(e, k)') => Members(e) = Sent(e, k)'
    BY <1>6, <2>1, FS_Subset
  <2>5. Cardinality(Sent(e, k)') \in Nat
    BY <2>1, FS_CardinalityType
  <2> QED
    BY <1>6, <2>2, <2>3, <2>4, <2>5 DEF NumLocal
<1>8. \A x \in Members(e) : x \in Worker /\ entryOf[x] = e
  BY <1>0, MemberIs
<1>9. \A s \in Slice : \A m \in Updates(s) : m.entry # e
  BY <1>2, <1>5 DEF RequestRound
<1>10. \A r \in replies : r.type = "kRUpdate" => r.entry # e
  BY <1>5 DEF OneMessage
<1>11. CASE Sent(e, k)' = Members(e)
  <2>1. /\ requests' = requests \cup new
        /\ pending_update' = [pending_update EXCEPT ![e] = Slice]
        /\ num_pending' = [num_pending EXCEPT ![e] = @ + Cardinality(Slice)]
        /\ num_update' = [num_update EXCEPT ![e] = 0]
    <3>1. num_update[e] + 1 >= NumLocal(e)
      BY <1>0, <1>7, <1>11
    <3> QED
      BY <3>1 DEF StubHandleUpdate
  <2>2. /\ pending_update'[e] = Slice /\ num_pending'[e] = Cardinality(Slice) /\ num_update'[e] = 0
        /\ \A f \in Entry : f # e => pending_update'[f] = pending_update[f]
    BY <1>0, <1>5, <2>1, SliceCount DEF StubTypeOK
  <2>3. \A x \in Members(e) : step[x] = k + 1 /\ ~UpdateQueued(x)'
    BY <1>1, <1>11 DEF Sent
  <2>4. ASSUME NEW x \in Members(e)
        PROVE  MemberOK(x, k + 1)' /\ QueueOK(x, k + 1)' /\ ~Collected(x)' /\ grad[x].step = k
    <3>1. MemberOK(x, k) /\ QueueOK(x, k) /\ step[x] = k + 1 /\ ~UpdateQueued(x)'
      BY <2>3 DEF RoundOK
    <3>2. ~Collected(x)' /\ ~Collected(x)
      BY <1>1, <3>1 DEF MemberOK, Collected
    <3>3. k + 1 > Step0 /\ (k + 1) - 1 = k /\ k + 1 # (k + 1) + 1
      BY <1>2, NumbersAssumption
    <3>4. grad[x].step = k
      BY <3>1, <3>3 DEF MemberOK
    <3>5. MemberOK(x, k + 1)'
      BY <1>1, <3>1, <3>2, <3>3, <3>4 DEF MemberOK
    <3>6. QueueOK(x, k + 1)'
      <4>1. \A i \in 1..Len(dealer'[x]) : dealer'[x][i].type # "kUpdate"
        BY <3>1 DEF UpdateQueued
      <4>2. \A i \in 1..Len(dealer'[x]) :
              dealer'[x][i].type = "kGet" => entryOf[x] # First /\ dealer'[x][i].version = WarmupSteps
        <5>1. CASE x = w
          BY <1>3, <5>1 DEF QueueOK, First
        <5>2. CASE x # w
          BY <1>3, <1>8, <3>1, <5>2 DEF QueueOK
        <5> QED
          BY <5>1, <5>2
      <4> QED
        BY <4>1, <4>2 DEF QueueOK, First
    <3> QED
      BY <3>2, <3>4, <3>5, <3>6
  <2>5. Sent(e, k + 1)' = {} /\ Sent(e, k + 1)' # Members(e) /\ Cardinality(Sent(e, k + 1)') = 0
    <3>1. k + 1 # (k + 1) + 1
      OBVIOUS
    <3>2. Sent(e, k + 1)' = {}
      BY <1>1, <2>3, <3>1 DEF Sent, Members
    <3> QED
      BY <1>0, <3>2, FS_EmptySet
  <2>6. StubRound(e, k + 1)'
    <3>1. num_pending'[e] = Cardinality(pending_get'[e]) + Cardinality(pending_update'[e])
      BY <1>1, <1>5, <2>2, FS_EmptySet, SliceCount
    <3>2. k + 1 # Step0
      BY <1>2, NumbersAssumption
    <3> QED
      BY <1>1, <1>2, <1>5, <1>6, <2>2, <2>3, <2>4, <2>5, <3>1, <3>2 DEF StubRound, First
  <2>7. \A m \in new : /\ m.type = "kUpdate" /\ m.entry = e /\ m.slice \in Slice
                       /\ m.grads = LocalGrads(e)[m.slice]
    BY DEF GenMsgs
  <2>8. \A m, b \in new : m.slice = b.slice => m = b
    BY DEF GenMsgs
  <2>9. \A s \in Slice : \A m \in Updates(s)' : \/ m \in Updates(s)
                                                \/ m \in new /\ m.slice = s
    BY <1>1, <2>1 DEF Updates
  <2>10. RequestRound(e, k + 1)'
    <3> SUFFICES ASSUME NEW s \in Slice
                 PROVE  /\ Absorbed(e, s, k + 1)' /\ Absorbed(e, s, (k + 1) - 1)'
                        /\ \A m \in Updates(s)' : m.entry = e =>
                             /\ s \in pending_update'[e]
                             /\ \A x \in m.grads : x.worker \in Members(e) /\ x.step = (k + 1) - 1
      BY <1>6 DEF RequestRound
    <3>0. (k + 1) - 1 = k
      OBVIOUS
    <3>1. Absorbed(e, s, k)'
      BY <1>1, <1>2 DEF RequestRound, Absorbed, Members
    <3>2. \A n \in 1..Len(log[s]) : \A x \in log[s][n] : x.step \in Int
      BY <1>0 DEF ServerTypeOK, Gradient
    <3>3. Absorbed(e, s, k + 1)'
      BY <1>1, <3>1, <3>2 DEF Absorbed
    <3>4. ASSUME NEW m \in Updates(s)', m.entry = e, NEW x \in m.grads
          PROVE  x.worker \in Members(e) /\ x.step = k
      <4>1. m \in new /\ m.slice = s
        BY <1>9, <2>9, <3>4
      <4>2. x \in LocalGrads(e)[s]
        BY <2>7, <3>4, <4>1
      <4> QED
        BY <2>4, <4>2 DEF LocalGrads
    <3> QED
      BY <2>2, <3>0, <3>1, <3>3, <3>4
  <2>11. RoundOK(e, k + 1)' /\ k + 1 \in Nat
    <3>1. k + 1 \in Nat /\ k + 1 >= Step0
      BY <1>2, NumbersAssumption
    <3> QED
      BY <1>6, <2>4, <2>6, <2>10, <3>1 DEF RoundOK
  <2>12. OneMessage'
    <3>1. ASSUME NEW s \in Slice, NEW m \in Updates(s)', NEW b \in Updates(s)', m.entry = b.entry
          PROVE  m = b
      BY <1>9, <2>7, <2>8, <2>9, <3>1 DEF OneMessage
    <3>2. ASSUME NEW m \in requests', m.type = "kUpdate"
          PROVE  m \notin buffer_requests'[m.slice]
      <4>1. CASE m \in requests
        BY <1>1, <3>2, <4>1 DEF OneMessage
      <4>2. CASE m \in new
        BY <1>1, <1>9, <2>7, <4>2 DEF Updates
      <4> QED
        BY <2>1, <4>1, <4>2
    <3>3. ASSUME NEW r \in replies, r.type = "kRUpdate"
          PROVE  /\ r.slice \in pending_update'[r.entry]
                 /\ \A m \in Updates(r.slice)' : m.entry # r.entry
      <4>1. r.entry # e /\ r.entry \in Entry /\ r.slice \in Slice
        BY <1>0, <1>10, <3>3 DEF MsgTypeOK, Reply
      <4>2. pending_update'[r.entry] = pending_update[r.entry]
        BY <2>2, <4>1
      <4> QED
        BY <2>7, <2>9, <3>3, <4>1, <4>2 DEF OneMessage
    <3> QED
      BY <1>1, <3>1, <3>2, <3>3 DEF OneMessage
  <2> QED
    BY <2>11, <2>12
<1>12. CASE Sent(e, k)' # Members(e)
  <2>1. /\ UNCHANGED <<requests, pending_update, num_pending>>
        /\ num_update'[e] = Cardinality(Sent(e, k)')
    <3>1. ~(num_update[e] + 1 >= NumLocal(e))
      BY <1>0, <1>7, <1>12
    <3> QED
      BY <1>0, <1>7, <3>1 DEF StubHandleUpdate, StubTypeOK
  <2>2. ASSUME NEW x \in Members(e)
        PROVE  MemberOK(x, k)' /\ QueueOK(x, k)'
    <3>1. MemberOK(x, k) /\ QueueOK(x, k) /\ x \in Worker
      BY <1>8 DEF RoundOK
    <3>2. MemberOK(x, k)'
      BY <1>1, <3>1 DEF MemberOK, Collected
    <3>3. CASE x = w
      BY <1>3, <3>2, <3>3
    <3>4. CASE x # w
      BY <1>1, <1>3, <3>1, <3>2, <3>4 DEF QueueOK, First
    <3> QED
      BY <3>3, <3>4
  <2>3. StubRound(e, k)'
    BY <1>1, <1>2, <1>5, <1>6, <1>12, <2>1 DEF StubRound, First
  <2>4. RequestRound(e, k)' /\ \A s \in Slice : Updates(s)' = Updates(s)
    BY <1>0, <1>1, <1>2, <2>1, RequestFrame, UpdatesSame
  <2>5. OneMessage'
    <3>1. \A r \in replies : r.slice \in Slice
      BY <1>0 DEF MsgTypeOK, Reply
    <3> QED
      BY <1>1, <2>1, <2>4, <3>1 DEF OneMessage
  <2> QED
    BY <1>2, <1>6, <2>2, <2>3, <2>4, <2>5 DEF RoundOK
<1> QED
  BY <1>11, <1>12

LEMMA OrderStub ==
  ASSUME TypeOK, OrderInv, NEW w \in Worker, StubRequest(w)
  PROVE  OrderInv'
<1>1. /\ \A m \in requests' : m \in requests \/ m.entry = entryOf[w]
      /\ ~StubHandleUpdate(w) => \A m \in requests' : m \in requests \/ m.type # "kUpdate"
      /\ replies' = replies /\ UNCHANGED serverVars
  BY StubSends
<1>2. GradientsInOrder'
  BY <1>1 DEF OrderInv, GradientsInOrder, serverVars
<1>3. entryOf[w] \in Entry
  BY TopologyAssumption
<1>4. PICK k \in Nat : RoundOK(entryOf[w], k)
  BY <1>3 DEF OrderInv
<1>5. /\ \E j \in Nat : RoundOK(entryOf[w], j)'
      /\ OneMessage'
  <2>1. CASE StubHandleUpdate(w)
    BY <1>4, <2>1, OrderStubUpdate DEF OrderInv
  <2>2. CASE ~StubHandleUpdate(w)
    <3>1. RoundOK(entryOf[w], k)'
      BY <1>4, <2>2, OrderStubKeep DEF StubRequest
    <3>2. pending_update' = pending_update /\ buffer_requests' = buffer_requests
      BY <2>2 DEF StubRequest, StubHandlePut, StubHandleGet, StubHandleStop, stubVars, serverVars
    <3>3. \A s \in Slice : \A m \in Updates(s)' : m \in Updates(s)
      BY <1>1, <2>2, <3>2 DEF Updates
    <3>4. \A m \in requests' : m.type = "kUpdate" => m \in requests
      BY <1>1, <2>2
    <3>5. \A r \in replies : r.slice \in Slice
      BY DEF TypeOK, MsgTypeOK, Reply
    <3>6. OneMessage'
      BY <1>1, <3>2, <3>3, <3>4, <3>5 DEF OrderInv, OneMessage
    <3> QED
      BY <3>1, <3>6
  <2> QED
    BY <2>1, <2>2
<1>6. ASSUME NEW e \in Entry, e # entryOf[w]
      PROVE  \E j \in Nat : RoundOK(e, j)'
  <2>1. PICK j \in Nat : RoundOK(e, j)
    BY DEF OrderInv
  <2> QED
    BY <1>6, <2>1, OtherOfStub
<1> QED
  BY <1>2, <1>5, <1>6 DEF OrderInv

-----------------------------------------------------------------------------
\* A reply changes the blob and the pending marks of its entry only.
LEMMA OtherOfReply ==
  ASSUME TypeOK, NEW r \in replies, StubReply(r), NEW e \in Entry, e # r.entry,
         NEW k \in Nat, RoundOK(e, k)
  PROVE  RoundOK(e, k)'
<1>1. /\ UNCHANGED <<pc, step, grad, local_version>> /\ UNCHANGED dealer
      /\ UNCHANGED <<num_update, next_version, requests, log, buffer_requests>>
  BY DEF StubReply, HandleGetResponse, HandleUpdateResponse, workerVars, serverVars
<1>2. /\ version'[e] = version[e] /\ num_pending'[e] = num_pending[e]
      /\ pending_get'[e] = pending_get[e] /\ pending_update'[e] = pending_update[e]
  BY DEF StubReply, HandleGetResponse, HandleUpdateResponse, ParseResponse, blobVars, TypeOK, StubTypeOK
<1>3. RequestRound(e, k)'
  BY <1>1, <1>2, RequestFrame, UpdatesSame DEF RoundOK
<1> QED
  BY <1>1, <1>2, <1>3, OtherEntry

\* The version of the blob changes with the last pending slice, when nobody of
\* the entry has collected yet.
LEMMA ReplyRound ==
  ASSUME TypeOK, NEW e \in Entry, NEW k \in Nat, RoundOK(e, k),
         UNCHANGED <<pc, step, grad, local_version>>, UNCHANGED dealer,
         \A x \in Members(e) : step[x] = k /\ ~Collected(x)
  PROVE  /\ \A x \in Members(e) : MemberOK(x, k)' /\ QueueOK(x, k)'
         /\ Sent(e, k)' = Sent(e, k) /\ Members(e)' = Members(e)
<1>1. ASSUME NEW x \in Members(e)
      PROVE  MemberOK(x, k)' /\ QueueOK(x, k)'
  <2>1. MemberOK(x, k) /\ QueueOK(x, k) /\ step[x] = k /\ ~Collected(x)
    BY DEF RoundOK
  <2>2. k # k + 1
    OBVIOUS
  <2> QED
    BY <2>1, <2>2 DEF MemberOK, QueueOK, First
<1> QED
  BY <1>1 DEF Sent, Members, UpdateQueued

LEMMA OrderGetResponse ==
  ASSUME TypeOK, NEW r \in replies, HandleGetResponse(r), NEW k \in Nat, RoundOK(r.entry, k)
  PROVE  RoundOK(r.entry, k)'
<1> DEFINE e == r.entry
           left == num_pending[e] - 1
<1>0. /\ e \in Entry /\ r.slice \in Slice /\ StubTypeOK /\ WorkerTypeOK
  BY DEF TypeOK, MsgTypeOK, Reply
<1>1. /\ UNCHANGED <<pc, step, grad, local_version>> /\ UNCHANGED dealer
      /\ UNCHANGED <<num_update, next_version, requests, log, buffer_requests>>
      /\ UNCHANGED pending_update
  BY DEF HandleGetResponse, workerVars, serverVars
<1>2. StubRound(e, k) /\ RequestRound(e, k)
  BY DEF RoundOK
<1>3. RequestRound(e, k)'
  BY <1>0, <1>1, <1>2, RequestFrame, UpdatesSame
<1>4. CASE r.slice \notin pending_get[e]
  <2>1. UNCHANGED <<version, num_pending, pending_get>>
    BY <1>4 DEF HandleGetResponse, blobVars
  <2> QED
    BY <1>0, <1>1, <1>3, <2>1, OtherEntry
<1>5. CASE r.slice \in pending_get[e]
  <2>1. /\ pending_get'[e] = pending_get[e] \ {r.slice} /\ num_pending'[e] = left
        /\ version'[e] = IF left % Cardinality(Slice) = 0 THEN r.version ELSE version[e]
    BY <1>0, <1>5 DEF HandleGetResponse, ParseResponse, StubTypeOK
  <2>2. Fresh(e, k) /\ e # First /\ pending_update[e] = {} /\ next_version[e] # -1
    BY <1>2, <1>5 DEF StubRound, Fresh
  <2>3. /\ num_pending[e] = Cardinality(pending_get[e]) /\ pending_get[e] \in SUBSET Slice
        /\ Cardinality(pending_get[e]) \in Nat
    BY <1>0, <1>2, <2>2, FS_EmptySet, SliceSets DEF StubRound, StubTypeOK
  <2>4. /\ Cardinality(pending_get'[e]) = left
        /\ left % Cardinality(Slice) = 0 <=> pending_get'[e] = {}
    BY <1>5, <2>1, <2>3, LastPending
  <2>5. num_pending'[e] = Cardinality(pending_get'[e]) + Cardinality(pending_update'[e])
    <3>1. Cardinality(pending_update'[e]) = 0
      BY <1>1, <2>2, FS_EmptySet
    <3>2. left \in Int
      BY <2>3
    <3> HIDE DEF left
    <3> QED
      BY <2>1, <2>4, <3>1, <3>2
  <2>6. \A x \in Members(e) : step[x] = k /\ ~Collected(x)
    <3> SUFFICES ASSUME NEW x \in Members(e) PROVE step[x] = k /\ ~Collected(x)
      OBVIOUS
    <3>1. MemberOK(x, k) /\ x \in Worker /\ entryOf[x] = e /\ local_version[x] \in Int
      BY <1>0, MemberIs DEF RoundOK, WorkerTypeOK
    <3> QED
      BY <2>2, <3>1 DEF Fresh, MemberOK, Collected
  <2>7. /\ \A x \in Members(e) : MemberOK(x, k)' /\ QueueOK(x, k)'
        /\ Sent(e, k)' = Sent(e, k) /\ Members(e)' = Members(e)
    BY <1>0, <1>1, <2>6, ReplyRound
  <2>8. pending_get'[e] # {} => Fresh(e, k)'
    BY <1>1, <2>1, <2>2, <2>4 DEF Fresh, Members
  <2>9. StubRound(e, k)'
    BY <1>1, <1>2, <2>2, <2>5, <2>7, <2>8 DEF StubRound, First
  <2> QED
    BY <1>3, <2>7, <2>9 DEF RoundOK
<1> QED
  BY <1>4, <1>5

LEMMA OrderUpdateResponse ==
  ASSUME TypeOK, OneMessage, NEW r \in replies, HandleUpdateResponse(r), NEW k \in Nat,
         RoundOK(r.entry, k)
  PROVE  RoundOK(r.entry, k)'
<1> DEFINE e == r.entry
           left == num_pending[e] - 1
<1>0. /\ e \in Entry /\ r.slice \in Slice /\ StubTypeOK /\ WorkerTypeOK
  BY DEF TypeOK, MsgTypeOK, Reply
<1>1. /\ UNCHANGED <<pc, step, grad, local_version>> /\ UNCHANGED dealer
      /\ UNCHANGED <<num_update, next_version, requests, log, buffer_requests>>
      /\ UNCHANGED pending_get /\ r.type = "kRUpdate"
  BY DEF HandleUpdateResponse, workerVars, serverVars
<1>2. StubRound(e, k) /\ RequestRound(e, k)
  BY DEF RoundOK
<1>3. r.slice \in pending_update[e] /\ \A m \in Updates(r.slice) : m.entry # e
  BY <1>1 DEF OneMessage
<1>4. /\ pending_update'[e] = pending_update[e] \ {r.slice} /\ num_pending'[e] = left
      /\ version'[e] = IF left % Cardinality(Slice) = 0 THEN r.version ELSE version[e]
  BY <1>0, <1>3 DEF HandleUpdateResponse, ParseResponse, StubTypeOK
<1>5. /\ ~Fresh(e, k) /\ pending_get[e] = {} /\ k # Step0
      /\ e # First => next_version[e] # -1
      /\ e = First => pc[Owner] # "init"
      /\ \A x \in Members(e) : step[x] = k /\ ~Collected(x)
  BY <1>2, <1>3 DEF StubRound, Fresh
<1>6. /\ num_pending[e] = Cardinality(pending_update[e]) /\ pending_update[e] \in SUBSET Slice
      /\ Cardinality(pending_update[e]) \in Nat
  BY <1>0, <1>2, <1>5, FS_EmptySet, SliceSets DEF StubRound, StubTypeOK
<1>7. /\ Cardinality(pending_update'[e]) = left
      /\ left % Cardinality(Slice) = 0 <=> pending_update'[e] = {}
  <2> DEFINE S == pending_update[e]
  <2>1. S \in SUBSET Slice /\ r.slice \in S /\ pending_update'[e] = S \ {r.slice} /\ left = Cardinality(S) - 1
    BY <1>3, <1>4, <1>6
  <2> HIDE DEF S, left
  <2> QED
    BY <2>1, LastPending
<1>8. num_pending'[e] = Cardinality(pending_get'[e]) + Cardinality(pending_update'[e])
  BY <1>1, <1>4, <1>5, <1>6, <1>7, FS_EmptySet
<1>9. /\ \A x \in Members(e) : MemberOK(x, k)' /\ QueueOK(x, k)'
      /\ Sent(e, k)' = Sent(e, k) /\ Members(e)' = Members(e)
  BY <1>0, <1>1, <1>5, ReplyRound
<1>10. pending_update'[e] # {} => \A x \in Members(e) : ~Collected(x)'
  <2>1. pending_update'[e] # {} => version'[e] = version[e]
    BY <1>4, <1>7
  <2> QED
    BY <1>0, <1>1, <1>5, <2>1, MemberIs DEF Collected
<1>11. StubRound(e, k)'
  BY <1>1, <1>2, <1>5, <1>8, <1>9, <1>10 DEF StubRound, First
<1>12. RequestRound(e, k)'
  <2>1. \A s \in Slice : /\ Updates(s)' = Updates(s)
                         /\ Absorbed(e, s, k)' <=> Absorbed(e, s, k)
                         /\ Absorbed(e, s, k - 1)' <=> Absorbed(e, s, k - 1)
    BY <1>1, UpdatesSame DEF Absorbed, Members
  <2>2. \A s \in Slice : \A m \in Updates(s) : m.entry = e => s \in pending_update'[e]
    BY <1>2, <1>3, <1>4 DEF RequestRound
  <2> QED
    BY <1>2, <1>9, <2>1, <2>2 DEF RequestRound
<1> QED
  BY <1>9, <1>11, <1>12 DEF RoundOK

LEMMA OrderReply ==
  ASSUME TypeOK, OrderInv, NEW r \in replies, StubReply(r)
  PROVE  OrderInv'
<1>0. /\ r.entry \in Entry /\ r.slice \in Slice /\ StubTypeOK
      /\ \A q \in replies : q.slice \in Slice /\ q.entry \in Entry
  BY DEF TypeOK, MsgTypeOK, Reply
<1>1. /\ UNCHANGED <<requests, log, buffer_requests>> /\ replies' = replies \ {r}
  BY DEF StubReply, HandleGetResponse, HandleUpdateResponse, serverVars
<1>2. GradientsInOrder'
  BY <1>1 DEF OrderInv, GradientsInOrder
<1>3. \A s \in Slice : Updates(s)' = Updates(s)
  BY <1>1, UpdatesSame
<1>4. ASSUME NEW q \in replies', q.type = "kRUpdate"
      PROVE  q.slice \in pending_update'[q.entry]
  <2>1. q \in replies /\ q # r /\ q.slice \in pending_update[q.entry]
    BY <1>1, <1>4 DEF OrderInv, OneMessage
  <2>2. CASE UNCHANGED pending_update
    BY <2>1, <2>2
  <2>3. CASE /\ r.type = "kRUpdate"
             /\ pending_update' = [pending_update EXCEPT ![r.entry] = @ \ {r.slice}]
    <3>1. q.entry # r.entry \/ q.slice # r.slice
      BY <1>4, <2>1, <2>3 DEF OrderInv, OneMessage
    <3> QED
      BY <1>0, <2>1, <2>3, <3>1 DEF StubTypeOK
  <2> QED
    BY <2>2, <2>3 DEF StubReply, HandleGetResponse, HandleUpdateResponse
<1>5. OneMessage'
  <2>1. OneMessage /\ \A q \in replies' : q \in replies
    BY <1>1 DEF OrderInv
  <2> QED
    BY <1>0, <1>1, <1>3, <1>4, <2>1 DEF OneMessage
<1>6. ASSUME NEW e \in Entry
      PROVE  \E k \in Nat : RoundOK(e, k)'
  <2>1. PICK k \in Nat : RoundOK(e, k)
    BY DEF OrderInv
  <2>2. RoundOK(e, k)'
    <3>1. CASE e # r.entry
      BY <2>1, <3>1, OtherOfReply
    <3>2. CASE e = r.entry
      BY <2>1, <3>2, OrderGetResponse, OrderUpdateResponse DEF StubReply, OrderInv
    <3> QED
      BY <3>1, <3>2
  <2> QED
    BY <2>2
<1> QED
  BY <1>2, <1>5, <1>6 DEF OrderInv

-----------------------------------------------------------------------------
\* A server step is seen by the entries through the requests and the log only.
LEMMA ServerRound ==
  ASSUME NEW m \in requests, ServerStep(m), NEW e \in Entry, NEW k \in Nat, RoundOK(e, k),
         RequestRound(e, k)'
  PROVE  RoundOK(e, k)'
<1>1. /\ UNCHANGED <<pc, step, grad, local_version>> /\ UNCHANGED dealer
      /\ UNCHANGED <<version, num_update, next_version, num_pending, pending_get, pending_update>>
  BY DEF ServerStep, ServerHandlePut, ServerHandleGet, ServerHandleUpdate, workerVars, blobVars, stubVars
<1> QED
  BY <1>1, OtherEntry

\* Puts and Gets.
LEMMA OrderServerKeep ==
  ASSUME TypeOK, OrderInv, NEW m \in requests, ServerHandlePut(m) \/ ServerHandleGet(m)
  PROVE  OrderInv'
<1>1. /\ UNCHANGED <<log, buffer_requests, pending_update>> /\ requests' = requests \ {m}
      /\ m.type # "kUpdate" /\ \A r \in replies' : r.type = "kRUpdate" => r \in replies
  BY DEF ServerHandlePut, ServerHandleGet, serverVars, stubVars
<1>2. \A s \in Slice : Updates(s)' = Updates(s)
  BY <1>1 DEF Updates
<1>3. \A r \in replies : r.slice \in Slice
  BY DEF TypeOK, MsgTypeOK, Reply
<1>4. OneMessage'
  <2>1. OneMessage /\ \A q \in requests' : q \in requests
    BY <1>1 DEF OrderInv
  <2> QED
    BY <1>1, <1>2, <1>3, <2>1 DEF OneMessage
<1>5. ASSUME NEW e \in Entry
      PROVE  \E k \in Nat : RoundOK(e, k)'
  <2>1. PICK k \in Nat : RoundOK(e, k)
    BY DEF OrderInv
  <2>2. RequestRound(e, k)'
    BY <1>1, <1>2, <2>1, RequestFrame DEF RoundOK
  <2> QED
    BY <2>1, <2>2, ServerRound DEF ServerStep
<1> QED
  BY <1>1, <1>4, <1>5 DEF OrderInv, GradientsInOrder

\* An update request is buffered, or given up with the fatal error.
LEMMA OrderServerBuffer ==
  ASSUME TypeOK, OrderInv, NEW m \in requests, ServerHandleUpdate(m), UNCHANGED <<log, replies>>,
         \/ UNCHANGED buffer_requests
         \/ buffer_requests' = [buffer_requests EXCEPT ![m.slice] = @ \cup {m}]
  PROVE  OrderInv'
<1>0. /\ m.type = "kUpdate" /\ m.slice \in Slice /\ requests' = requests \ {m}
      /\ UNCHANGED pending_update /\ OneMessage
      /\ buffer_requests \in [Slice -> SUBSET Request]
      /\ \A q \in requests : q.slice \in Slice
  BY DEF ServerHandleUpdate, stubVars, TypeOK, MsgTypeOK, ServerTypeOK, Request, OrderInv
<1>1. \A s \in Slice : \A b \in buffer_requests'[s] : b \in buffer_requests[s] \/ (b = m /\ s = m.slice)
  BY <1>0
<1>2. \A s \in Slice : \A b \in Updates(s)' : b \in Updates(s)
  BY <1>0, <1>1 DEF Updates
<1>3. \A r \in replies : r.slice \in Slice
  BY DEF TypeOK, MsgTypeOK, Reply
<1>4. \A q \in requests' : q.type = "kUpdate" => q \notin buffer_requests'[q.slice]
  BY <1>0, <1>1 DEF OneMessage
<1>5. OneMessage'
  BY <1>0, <1>2, <1>3, <1>4 DEF OneMessage
<1>6. ASSUME NEW e \in Entry
      PROVE  \E k \in Nat : RoundOK(e, k)'
  <2>1. PICK k \in Nat : RoundOK(e, k)
    BY DEF OrderInv
  <2>2. RequestRound(e, k)'
    BY <1>0, <1>2, <2>1, RequestFrame DEF RoundOK
  <2> QED
    BY <2>1, <2>2, ServerRound DEF ServerStep
<1> QED
  BY <1>5, <1>6 DEF OrderInv, GradientsInOrder

\* The gradients of the requests of a slice are one step ahead of what it has
\* absorbed of the same workers.
LEMMA UpdateAhead ==
  ASSUME TypeOK, OrderInv, NEW s \in Slice, NEW b \in Updates(s), NEW y \in b.grads
  PROVE  /\ \A n \in 1..Len(log[s]) : \A x \in log[s][n] : x.worker = y.worker => x.step < y.step
         /\ y.worker \in Members(b.entry) /\ y.step \in Int
         /\ \A k \in Nat : RoundOK(b.entry, k) => y.step = k - 1
<1>1. b \in Request
  BY DEF TypeOK, MsgTypeOK, ServerTypeOK, Updates
<1>2. b.entry \in Entry
  BY <1>1 DEF Request
<1>3. PICK k \in Nat : RoundOK(b.entry, k)
  BY <1>2 DEF OrderInv
<1>4. Absorbed(b.entry, s, k - 1) /\ y.worker \in Members(b.entry) /\ y.step = k - 1
  BY <1>3 DEF RoundOK, RequestRound
<1>5. \A j \in Nat : RoundOK(b.entry, j) => y.step = j - 1
  BY DEF RoundOK, RequestRound
<1> QED
  BY <1>4, <1>5 DEF Absorbed

\* A server applies the gradients it has collected and answers the requests.
LEMMA OrderServerApply ==
  ASSUME TypeOK, OrderInv, NEW m \in requests, ServerHandleUpdate(m), NEW v, NEW n,
         log' = [log EXCEPT ![m.slice] = Append(@, UNION {b.grads : b \in buffer_requests[m.slice] \cup {m}})],
         replies' = replies \cup {[type |-> "kRUpdate", entry |-> b.entry, slice |-> m.slice,
                                   version |-> v, value |-> n] : b \in buffer_requests[m.slice] \cup {m}},
         buffer_requests' = [buffer_requests EXCEPT ![m.slice] = {}]
  PROVE  OrderInv'
<1> DEFINE s == m.slice
           B == buffer_requests[s] \cup {m}
           G == UNION {b.grads : b \in B}
           Answer(b) == [type |-> "kRUpdate", entry |-> b.entry, slice |-> s, version |-> v, value |-> n]
           l == Len(log[s])
<1>0. /\ m.type = "kUpdate" /\ s \in Slice /\ requests' = requests \ {m}
      /\ UNCHANGED pending_update /\ OneMessage /\ GradientsInOrder
      /\ buffer_requests \in [Slice -> SUBSET Request] /\ requests \subseteq Request
      /\ log \in [Slice -> Seq(SUBSET Gradient)]
      /\ \A q \in requests : q.slice \in Slice
      /\ \A r \in replies : r.slice \in Slice
  BY DEF ServerHandleUpdate, stubVars, TypeOK, MsgTypeOK, ServerTypeOK, Request, Reply, OrderInv
<1>1. B \subseteq Updates(s) /\ B \subseteq Request
  BY <1>0 DEF Updates
<1>2. G \in SUBSET Gradient
  BY <1>1 DEF Request
<1>3. /\ l \in Nat /\ log'[s] = Append(log[s], G) /\ Len(log'[s]) = l + 1
      /\ log'[s][l + 1] = G /\ \A i \in 1..l : log'[s][i] = log[s][i]
      /\ \A t \in Slice : t # s => log'[t] = log[t]
  <2>1. log'[s] = Append(log[s], G) /\ log[s] \in Seq(SUBSET Gradient)
        /\ \A t \in Slice : t # s => log'[t] = log[t]
    BY <1>0
  <2> QED
    BY <1>2, <2>1, AppendProperties, LenProperties
<1>4. \A i \in 1..(l + 1) : i \in 1..l \/ i = l + 1
  BY <1>3
<1>5. \A y \in G : \E b \in B : y \in b.grads
  OBVIOUS
<1>6. \A i \in 1..l : \A x \in log[s][i], y \in G : x.worker = y.worker => x.step < y.step
  BY <1>0, <1>1, <1>5, UpdateAhead
<1>7. \A t \in Slice : \A q \in Updates(t)' : q \in Updates(t) /\ (t = s => q \notin B)
  <2>1. ASSUME NEW t \in Slice, NEW q \in Updates(t)'
        PROVE  q \in Updates(t) /\ (t = s => q \notin B)
    <3>1. CASE t # s
      BY <1>0, <2>1, <3>1 DEF Updates
    <3>2. CASE t = s
      <4>1. q \in requests /\ q # m /\ q.type = "kUpdate" /\ q.slice = s
        BY <1>0, <2>1, <3>2 DEF Updates
      <4>2. q \notin buffer_requests[s]
        BY <1>0, <4>1 DEF OneMessage
      <4> QED
        BY <3>2, <4>1, <4>2 DEF Updates
    <3> QED
      BY <3>1, <3>2
  <2> QED
    BY <2>1
<1>8. \A q \in Updates(s)' : \A b \in B : q.entry # b.entry
  BY <1>0, <1>1, <1>7 DEF OneMessage
<1>9. \A r \in replies' : r \in replies \/ \E b \in B : r = Answer(b)
  OBVIOUS
<1> HIDE DEF B, G, l
<1>10. GradientsInOrder'
  <2>1. ASSUME NEW t \in Slice, NEW i \in 1..Len(log'[t]), NEW j \in 1..Len(log'[t]),
               NEW x \in log'[t][i], NEW y \in log'[t][j], x.worker = y.worker, i < j
        PROVE  x.step < y.step
    <3>1. CASE t # s
      BY <1>0, <1>3, <2>1, <3>1 DEF GradientsInOrder
    <3>2. CASE t = s
      <4>1. i \in 1..(l + 1) /\ j \in 1..(l + 1)
        BY <1>3, <3>2
      <4>2. i \in 1..l
        BY <1>3, <1>4, <2>1, <4>1
      <4>3. CASE j \in 1..l
        BY <1>0, <1>3, <2>1, <3>2, <4>2, <4>3 DEF GradientsInOrder, l
      <4>4. CASE j = l + 1
        BY <1>3, <1>6, <2>1, <3>2, <4>2, <4>4
      <4> QED
        BY <1>4, <4>1, <4>3, <4>4
    <3> QED
      BY <3>1, <3>2
  <2> QED
    BY <2>1 DEF GradientsInOrder
<1>11. ASSUME NEW e \in Entry
       PROVE  \E k \in Nat : RoundOK(e, k)'
  <2>1. PICK k \in Nat : RoundOK(e, k)
    BY DEF OrderInv
  <2>2. RequestRound(e, k) /\ Members(e)' = Members(e)
    BY <2>1 DEF RoundOK, Members
  <2>3. ASSUME NEW y \in G, y.worker \in Members(e)
        PROVE  y.step = k - 1 /\ \E b \in B : b.entry = e
    <3>1. PICK b \in B : y \in b.grads
      BY <1>5
    <3>2. b \in Updates(s) /\ b.entry \in Entry
      BY <1>1 DEF Request
    <3>3. y.worker \in Members(b.entry) /\ \A j \in Nat : RoundOK(b.entry, j) => y.step = j - 1
      BY <1>0, <3>1, <3>2, UpdateAhead
    <3>4. b.entry = e
      BY <2>3, <3>2, <3>3, MemberIs
    <3> QED
      BY <2>1, <3>3, <3>4
  <2>4. ASSUME NEW t \in Slice
        PROVE  Absorbed(e, t, k)'
    <3>1. Absorbed(e, t, k)
      BY <2>2 DEF RequestRound
    <3>2. CASE t # s
      BY <1>3, <2>2, <3>1, <3>2 DEF Absorbed
    <3>3. CASE t = s
      <4>1. ASSUME NEW i \in 1..(l + 1), NEW x \in log'[s][i], x.worker \in Members(e)
            PROVE  x.step < k
        <5>1. CASE i \in 1..l
          BY <1>3, <3>1, <3>3, <4>1, <5>1 DEF Absorbed, l
        <5>2. CASE i = l + 1
          <6>1. x.step = k - 1
            BY <1>3, <2>3, <4>1, <5>2
          <6> QED
            BY <6>1
        <5> QED
          BY <1>4, <5>1, <5>2
      <4> QED
        BY <1>3, <2>2, <3>3, <4>1 DEF Absorbed
    <3> QED
      BY <3>2, <3>3
  <2>5. ASSUME NEW t \in Slice, NEW q \in Updates(t)', q.entry = e
        PROVE  /\ t \in pending_update[e] /\ Absorbed(e, t, k - 1)'
               /\ \A x \in q.grads : x.worker \in Members(e) /\ x.step = k - 1
    <3>1. q \in Updates(t)
      BY <1>7
    <3>2. /\ t \in pending_update[e] /\ Absorbed(e, t, k - 1)
          /\ \A x \in q.grads : x.worker \in Members(e) /\ x.step = k - 1
      BY <2>2, <2>5, <3>1 DEF RequestRound
    <3>3. CASE t # s
      BY <1>3, <2>2, <3>2, <3>3 DEF Absorbed
    <3>4. CASE t = s
      <4>1. \A b \in B : b.entry # e
        BY <1>8, <2>5, <3>4
      <4>2. ASSUME NEW i \in 1..(l + 1), NEW x \in log'[s][i], x.worker \in Members(e)
            PROVE  x.step < k - 1
        <5>1. CASE i \in 1..l
          BY <1>3, <3>2, <3>4, <4>2, <5>1 DEF Absorbed, l
        <5>2. CASE i = l + 1
          BY <1>3, <2>3, <4>1, <4>2, <5>2
        <5> QED
          BY <1>4, <5>1, <5>2
      <4>3. Absorbed(e, t, k - 1)'
        BY <1>3, <2>2, <3>4, <4>2 DEF Absorbed
      <4> QED
        BY <3>2, <4>3
    <3> QED
      BY <3>3, <3>4
  <2>6. RequestRound(e, k)'
    BY <1>0, <2>2, <2>4, <2>5 DEF RequestRound
  <2> QED
    BY <2>1, <2>6, ServerRound DEF ServerStep
<1>12. \A b \in B : /\ s \in pending_update[b.entry]
                    /\ \A r \in replies : r.type = "kRUpdate" /\ r.slice = s => r.entry # b.entry
  <2> SUFFICES ASSUME NEW b \in B
               PROVE  /\ s \in pending_update[b.entry]
                      /\ \A r \in replies : r.type = "kRUpdate" /\ r.slice = s => r.entry # b.entry
    OBVIOUS
  <2>1. b \in Updates(s) /\ b.entry \in Entry
    BY <1>1 DEF Request
  <2>2. PICK k \in Nat : RoundOK(b.entry, k)
    BY <2>1 DEF OrderInv
  <2>3. s \in pending_update[b.entry]
    BY <1>0, <2>1, <2>2 DEF RoundOK, RequestRound
  <2> QED
    BY <1>0, <2>1, <2>3 DEF OneMessage
<1>13. OneMessage'
  <2>1. \A t \in Slice : \A p, q \in Updates(t)' : p.entry = q.entry => p = q
    BY <1>0, <1>7 DEF OneMessage
  <2>2. \A q \in requests' : q.type = "kUpdate" => q \notin buffer_requests'[q.slice]
    BY <1>0 DEF OneMessage
  <2>3. ASSUME NEW q \in replies', NEW r \in replies', q.type = "kRUpdate", r.type = "kRUpdate",
               q.entry = r.entry, q.slice = r.slice
        PROVE  q = r
    <3>1. CASE q \in replies /\ r \in replies
      BY <1>0, <2>3, <3>1 DEF OneMessage
    <3>2. ASSUME NEW a \in replies', NEW b \in B, a.type = "kRUpdate", a.entry = b.entry, a.slice = s
          PROVE  a = Answer(b)
      <4>1. a \notin replies
        BY <1>12, <3>2
      <4>2. PICK c \in B : a = Answer(c)
        BY <1>9, <4>1
      <4>3. c.entry = b.entry
        BY <3>2, <4>2
      <4> QED
        BY <4>2, <4>3
    <3>3. ASSUME NEW a \in replies', NEW b \in B, a = Answer(b)
          PROVE  a.entry = b.entry /\ a.slice = s
      BY <3>3
    <3> HIDE DEF Answer
    <3> QED
      BY <1>9, <2>3, <3>1, <3>2, <3>3
  <2>4. ASSUME NEW r \in replies', r.type = "kRUpdate"
        PROVE  /\ r.slice \in pending_update'[r.entry]
               /\ \A q \in Updates(r.slice)' : q.entry # r.entry
    <3>1. CASE r \in replies
      BY <1>0, <1>7, <2>4, <3>1 DEF OneMessage
    <3>2. ASSUME NEW b \in B, r = Answer(b)
          PROVE  /\ r.slice \in pending_update'[r.entry]
                 /\ \A q \in Updates(r.slice)' : q.entry # r.entry
      <4>1. r.slice = s /\ r.entry = b.entry
        BY <3>2
      <4> QED
        BY <1>0, <1>8, <1>12, <4>1
    <3> QED
      BY <1>9, <3>1, <3>2
  <2> QED
    BY <2>1, <2>2, <2>3, <2>4 DEF OneMessage
<1> QED
  BY <1>10, <1>11, <1>13 DEF OrderInv

LEMMA OrderServer ==
  ASSUME TypeOK, OrderInv, NEW m \in requests, ServerStep(m)
  PROVE  OrderInv'
<1>1. CASE ServerHandlePut(m) \/ ServerHandleGet(m)
  BY <1>1, OrderServerKeep
<1>2. CASE ServerHandleUpdate(m)
  <2> DEFINE n == server_num_update[m.slice] + m.num
  <2>1. CASE n < num_total[m.slice] \/ n > num_total[m.slice]
    <3>1. \/ UNCHANGED <<log, replies, buffer_requests>>
          \/ /\ UNCHANGED <<log, replies>>
             /\ buffer_requests' = [buffer_requests EXCEPT ![m.slice] = buffer_requests[m.slice] \cup {m}]
      BY <1>2, <2>1 DEF ServerHandleUpdate
    <3> QED
      BY <1>2, <3>1, OrderServerBuffer
  <2>2. CASE ~(n < num_total[m.slice]) /\ ~(n > num_total[m.slice])
    <3> DEFINE v == server_local_version[m.slice] + 1
               l == Len(log[m.slice]) + 1
    <3>1. /\ log' = [log EXCEPT ![m.slice] = Append(@, UNION {b.grads : b \in buffer_requests[m.slice] \cup {m}})]
          /\ replies' = replies \cup {[type |-> "kRUpdate", entry |-> b.entry, slice |-> m.slice,
                                      version |-> v, value |-> l] : b \in buffer_requests[m.slice] \cup {m}}
          /\ buffer_requests' = [buffer_requests EXCEPT ![m.slice] = {}]
      BY <1>2, <2>2 DEF ServerHandleUpdate
    <3> HIDE DEF v, l
    <3> QED
      BY <1>2, <3>1, OrderServerApply, Zenon
  <2> QED
    BY <2>1, <2>2
<1> QED
  BY <1>1, <1>2 DEF ServerStep

\* When training starts with a filled Param, no slice ever absorbs a gradient
\* twice, skips back or overtakes one: however many groups train without
\* waiting for each other and however their processes are split, the gradients
\* of a worker enter the log of a slice in the order of its steps.
THEOREM WarmGradientsInOrder == ASSUME WarmJob PROVE Spec => []GradientsInOrder
<1>1. Init => OrderInv
  <2> SUFFICES ASSUME Init PROVE OrderInv
    OBVIOUS
  <2>0. TypeOK
    BY TypeInit
  <2>1. OneMessage /\ GradientsInOrder
    BY DEF Init, OneMessage, Updates, GradientsInOrder
  <2>2. ASSUME NEW e \in Entry
        PROVE  RoundOK(e, Step0)
    <3>1. \A w \in Members(e) : /\ w \in Worker /\ entryOf[w] = e /\ step[w] = Step0 /\ pc[w] = "init"
                                /\ local_version[w] = -1 /\ dealer[w] = <<>> /\ ~Collected(w)
      BY MemberIs DEF Init, Collected
    <3>2. Step0 \in Nat /\ Step0 # Step0 + 1
      BY NumbersAssumption
    <3>3. ASSUME NEW w \in Members(e)
          PROVE  MemberOK(w, Step0) /\ QueueOK(w, Step0)
      <4>1. MemberOK(w, Step0)
        BY <3>1, <3>2 DEF MemberOK
      <4> QED
        BY <3>1, <4>1 DEF QueueOK
    <3>4. Sent(e, Step0) = {} /\ Members(e) # {}
      BY <3>1, <3>2, MembersFinite DEF Sent
    <3>5. Fresh(e, Step0) /\ pending_update[e] = {} /\ pending_get[e] = {}
      BY <3>1 DEF Init, Fresh
    <3>6. StubRound(e, Step0)
      <4>1. num_update[e] = 0 /\ num_pending[e] = 0 /\ next_version[e] = -1 /\ pc[Owner] = "init"
        BY TopologyAssumption DEF Init
      <4> QED
        BY <3>4, <3>5, <4>1, FS_EmptySet DEF StubRound
    <3>7. RequestRound(e, Step0)
      BY DEF Init, RequestRound, Absorbed, Updates
    <3> QED
      BY <3>2, <3>3, <3>6, <3>7 DEF RoundOK
  <2> QED
    BY <2>1, <2>2, NumbersAssumption DEF OrderInv
<1>2. TypeOK /\ OrderInv /\ [Next]_vars => OrderInv'
  <2> SUFFICES ASSUME TypeOK, OrderInv, [Next]_vars
               PROVE  OrderInv'
    OBVIOUS
  <2>1. CASE UNCHANGED vars
    <3>1. /\ UNCHANGED <<pc, step, grad, local_version>> /\ UNCHANGED dealer
          /\ UNCHANGED <<version, num_update, next_version, num_pending, pending_get, pending_update>>
          /\ UNCHANGED <<requests, replies, log, buffer_requests>>
      BY <2>1 DEF vars, workerVars, blobVars, stubVars, serverVars
    <3>2. ASSUME NEW e \in Entry
          PROVE  \E k \in Nat : RoundOK(e, k)'
      <4>1. PICK k \in Nat : RoundOK(e, k)
        BY DEF OrderInv
      <4>2. RequestRound(e, k)'
        BY <3>1, <4>1, RequestFrame, UpdatesSame DEF RoundOK
      <4> QED
        BY <3>1, <4>1, <4>2, OtherEntry
    <3>3. OneMessage' /\ GradientsInOrder'
      BY <3>1 DEF OrderInv, OneMessage, Updates, GradientsInOrder
    <3> QED
      BY <3>2, <3>3 DEF OrderInv
  <2> QED
    BY <2>1, OrderWorker, OrderStub, OrderReply, OrderServer DEF Next, Terminated
<1>3. OrderInv => GradientsInOrder
  BY DEF OrderInv
<1> QED
  BY <1>1, <1>2, <1>3, TypeCorrect, PTL DEF Spec
=============================================================================
