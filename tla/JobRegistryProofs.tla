------------------------- MODULE JobRegistryProofs -------------------------
(***************************************************************************)
(* Proofs about the registration of processes in ZooKeeper (JobRegistry),  *)
(* for any number of launches, processes and hosts, and any number of      *)
(* crashes, listings and stops: live launches share a job id only after a  *)
(* start behind the back of singa-stop.sh, processes of an undisturbed job *)
(* publish their own endpoints under different ids, and listing keeps the  *)
(* recent jobs.                                                            *)
(***************************************************************************)
EXTENDS JobRegistry, FiniteSetTheorems, TLAPS

NodeName == {"job", "proc", "proc-lock"}
PcValue == {"off", "job", "proc", "proc-lock", "lock", "children", "publish",
            "run", "dead", "gone"}

TypeOK ==
  /\ jobSeq \in Nat
  /\ nodes \in SUBSET (JobIds \X NodeName)
  /\ lockSeq \in [JobIds -> Nat]
  /\ locks \in SUBSET [job : JobIds, seq : Nat, owner : Process]
  /\ procs \in SUBSET [job : JobIds, id : Int, owner : Process]
  /\ jobId \in [Launch -> JobIds \cup {-1}]
  /\ pc \in [Process -> PcValue]
  /\ lock \in [Process -> Int]
  /\ procsId \in [Process -> Int]
  /\ disturbed \in SUBSET Launch

-----------------------------------------------------------------------------
\* The process runs, or ZooKeeper still has a node of it.
Present(p) ==
  \/ Live(p)
  \/ \E k \in locks : k.owner = p
  \/ \E e \in procs : e.owner = p

Started == {l \in Launch : jobId[l] # -1}

\* Whoever has the job id of an undisturbed launch too has gone.
Ids ==
  /\ jobSeq <= Cardinality(Started)
  /\ \A p, q \in Process : p[1] # q[1] /\ p[1] \notin disturbed /\ Id(p) # -1 /\ Id(q) = Id(p)
       => pc[q] = "gone"

\* Processes start when the launch has its id and fail only in a disturbed one.
Phases ==
  \A p \in Process :
    /\ pc[p] # "off" => jobId[p[1]] # -1
    /\ pc[p] \in {"dead", "gone"} => p[1] \in disturbed

\* The nodes of a process are below the node of its job, while its session is.
Owners ==
  /\ \A k \in locks : k.job = Id(k.owner) /\ pc[k.owner] \notin {"off", "gone"}
  /\ \A e \in procs : e.job = Id(e.owner) /\ pc[e.owner] \notin {"off", "gone"}

Locked == {"children", "publish", "run"}

\* In an undisturbed launch every process that has taken its lock still has it...
LocksHeld ==
  \A p \in Process : p[1] \notin disturbed /\ pc[p] \in Locked =>
    lock[p] \in Nat /\ [job |-> Id(p), seq |-> lock[p], owner |-> p] \in locks

\* ... no lock is of anyone else, and the next one will be the last.
LocksKnown ==
  \A k \in locks : k.owner[1] \notin disturbed =>
    /\ pc[k.owner] \in Locked
    /\ k.seq = lock[k.owner]
    /\ k.seq < lockSeq[k.job]
    /\ <<k.job, "proc-lock">> \in nodes

LocksDiffer ==
  \A k, m \in locks : k.owner[1] \notin disturbed /\ m.owner # k.owner /\ m.job = k.job
    => m.seq # k.seq

\* The locks before its own are all there when a process looks for its position.
Positions ==
  \A p \in Process : p[1] \notin disturbed /\ pc[p] \in {"publish", "run"} =>
    procsId[p] = Position(p)

\* Endpoints of an undisturbed launch are those of its running processes.
Endpoints ==
  /\ \A e \in procs : e.owner[1] \notin disturbed =>
       pc[e.owner] = "run" /\ e.id = procsId[e.owner]
  /\ \A p \in Process : p[1] \notin disturbed /\ pc[p] = "run" =>
       [job |-> Id(p), id |-> procsId[p], owner |-> p] \in procs

Inv == /\ TypeOK /\ Ids /\ Phases /\ Owners /\ LocksHeld /\ LocksKnown
       /\ LocksDiffer /\ Positions /\ Endpoints

-----------------------------------------------------------------------------
LEMMA ProcessIs == \A p \in Process : p[1] \in Launch
BY DEF Process

LEMMA NodeTypes ==
  ASSUME TypeOK
  PROVE  /\ \A k \in locks : k.job \in JobIds /\ k.seq \in Nat /\ k.owner \in Process
         /\ \A e \in procs : e.job \in JobIds /\ e.id \in Int /\ e.owner \in Process
         /\ \A p \in Process : /\ Id(p) = jobId[p[1]] /\ Id(p) \in JobIds \cup {-1}
                               /\ lock[p] \in Int /\ pc[p] \in PcValue
BY ProcessIs DEF TypeOK, Id

LEMMA LaunchCount ==
  /\ IsFiniteSet(Launch) /\ Cardinality(Launch) \in Nat
  /\ JobIds = {n \in Int : 0 <= n /\ n < Cardinality(Launch)}
  /\ -1 \notin JobIds
BY RegistryAssumption, FS_CardinalityType DEF JobIds

LEMMA StartedCount ==
  /\ IsFiniteSet(Started) /\ Cardinality(Started) \in Nat
  /\ Cardinality(Started) <= Cardinality(Launch)
<1>1. Started \subseteq Launch
  BY DEF Started
<1> QED
  BY <1>1, LaunchCount, FS_Subset, FS_CardinalityType

\* Who is present has started, and has not gone.
LEMMA PresentHasId ==
  ASSUME Inv, NEW p \in Process, Present(p)
  PROVE  Id(p) \in JobIds /\ Id(p) # -1 /\ pc[p] # "gone"
<1>1. pc[p] \notin {"off", "gone"}
  BY DEF Present, Live, Inv, Owners
<1>2. Id(p) = jobId[p[1]] /\ Id(p) \in JobIds \cup {-1}
  BY NodeTypes DEF Inv
<1> QED
  BY <1>1, <1>2 DEF Inv, Phases

\* Two processes below the job node of an undisturbed launch are both its own.
LEMMA SameLaunch ==
  ASSUME Inv, NEW p \in Process, NEW q \in Process, Present(p), Present(q), Id(p) = Id(q),
         p[1] \notin disturbed \/ q[1] \notin disturbed
  PROVE  p[1] = q[1]
<1>1. Id(p) # -1 /\ Id(q) # -1 /\ pc[p] # "gone" /\ pc[q] # "gone"
  BY PresentHasId
<1> QED
  BY <1>1 DEF Inv, Ids

LEMMA HasNode ==
  ASSUME TypeOK
  PROVE  /\ \A k \in locks : Present(k.owner) /\ k.owner \in Process
         /\ \A e \in procs : Present(e.owner) /\ e.owner \in Process
BY NodeTypes DEF Present

-----------------------------------------------------------------------------
\* The locks before the own one.
Below(p) == {s \in SeqsOf(p) : s < lock[p]}

LEMMA BelowIs ==
  \A p, s : s \in Below(p) <=> \E k \in locks : k.job = Id(p) /\ k.seq = s /\ s < lock[p]
BY DEF Below, SeqsOf

LEMMA BelowFinite ==
  ASSUME TypeOK, NEW p \in Process
  PROVE  IsFiniteSet(Below(p)) /\ Cardinality(Below(p)) \in Nat /\ Position(p) = Cardinality(Below(p))
<1>1. lock[p] \in Int
  BY DEF TypeOK
<1>2. Below(p) \subseteq 0..lock[p]
  BY <1>1, BelowIs, NodeTypes
<1>3. IsFiniteSet(0..lock[p])
  BY <1>1, FS_Interval
<1>4. IsFiniteSet(Below(p))
  BY <1>2, <1>3, FS_Subset
<1> QED
  BY <1>4, FS_CardinalityType DEF Below, Position

\* A position stays while no lock comes or goes before the own one.
LEMMA SamePosition ==
  ASSUME NEW p \in Process, Id(p)' = Id(p), lock'[p] = lock[p],
         \A k : k.job = Id(p) /\ k.seq < lock[p] => (k \in locks' <=> k \in locks)
  PROVE  Position(p)' = Position(p)
<1>1. Below(p)' = Below(p)
  <2>1. \A s : s \in Below(p)' <=> \E k \in locks' : k.job = Id(p) /\ k.seq = s /\ s < lock[p]
    BY DEF Below, SeqsOf
  <2>2. ASSUME NEW s \in Below(p)' PROVE s \in Below(p)
    <3>1. PICK k \in locks' : k.job = Id(p) /\ k.seq = s /\ s < lock[p]
      BY <2>1, <2>2
    <3>2. k \in locks
      BY <3>1
    <3> QED
      BY <3>1, <3>2, BelowIs
  <2>3. ASSUME NEW s \in Below(p) PROVE s \in Below(p)'
    <3>1. PICK k \in locks : k.job = Id(p) /\ k.seq = s /\ s < lock[p]
      BY <2>3, BelowIs
    <3>2. k \in locks'
      BY <3>1
    <3> QED
      BY <3>1, <3>2, <2>1
  <2> QED
    BY <2>2, <2>3
<1> QED
  BY <1>1 DEF Position, Below

\* Processes of one undisturbed launch have different positions.
LEMMA PositionsDiffer ==
  ASSUME Inv, NEW p \in Process, NEW q \in Process, p # q, p[1] = q[1], p[1] \notin disturbed,
         pc[p] \in Locked, pc[q] \in Locked
  PROVE  Position(p) # Position(q)
<1> DEFINE kp == [job |-> Id(p), seq |-> lock[p], owner |-> p]
           kq == [job |-> Id(q), seq |-> lock[q], owner |-> q]
<1>1. kp \in locks /\ kq \in locks /\ lock[p] \in Nat /\ lock[q] \in Nat /\ Id(p) = Id(q)
  BY DEF Inv, LocksHeld, Id
<1>2. kp.owner = p /\ kp.job = Id(p) /\ kp.seq = lock[p] /\ kq.owner = q /\ kq.job = Id(q) /\ kq.seq = lock[q]
  OBVIOUS
<1>3. lock[p] # lock[q]
  BY <1>1, <1>2 DEF Inv, LocksDiffer
<1>4. ASSUME NEW x \in Process, NEW y \in Process, Id(x) = Id(y), lock[x] \in Nat, lock[y] \in Nat,
             lock[x] < lock[y], [job |-> Id(x), seq |-> lock[x], owner |-> x] \in locks
      PROVE  Cardinality(Below(x)) # Cardinality(Below(y))
  <2>1. lock[x] \in Below(y)
    BY <1>4, BelowIs
  <2>2. lock[x] \notin Below(x)
    BY <1>4, BelowIs
  <2>3. Below(x) \subseteq Below(y)
    BY <1>4, BelowIs, NodeTypes DEF Inv
  <2>4. Below(x) # Below(y)
    BY <2>1, <2>2
  <2>5. IsFiniteSet(Below(y))
    BY BelowFinite DEF Inv
  <2>6. Cardinality(Below(x)) = Cardinality(Below(y)) => Below(x) = Below(y)
    BY <2>3, <2>5, FS_Subset
  <2> QED
    BY <2>4, <2>6
<1>5. lock[p] < lock[q] \/ lock[q] < lock[p]
  BY <1>1, <1>3
<1>6. Cardinality(Below(p)) # Cardinality(Below(q))
  BY <1>1, <1>4, <1>5
<1> QED
  BY <1>6, BelowFinite DEF Inv

-----------------------------------------------------------------------------
(***************************************************************************)
(* The invariant, one action at a time.                                    *)
(***************************************************************************)
coreVars == <<zkVars, procVars, disturbed>>

LEMMA InvInit == Init => Inv
<1> SUFFICES ASSUME Init PROVE Inv
  OBVIOUS
<1>1. TypeOK
  BY DEF Init, TypeOK, PcValue
<1>2. \A p \in Process : ~Present(p) /\ pc[p] = "off" /\ jobId[p[1]] = -1
  BY ProcessIs DEF Init, Present, Live
<1>3. Ids
  BY <1>2, StartedCount DEF Ids, Init, Id
<1> QED
  BY <1>1, <1>2, <1>3 DEF Inv, Phases, Owners, LocksHeld, LocksKnown, LocksDiffer, Positions,
     Endpoints, Locked, Init

LEMMA InvUnchanged == Inv /\ UNCHANGED coreVars => Inv'
<1> SUFFICES ASSUME Inv, UNCHANGED coreVars PROVE Inv'
  OBVIOUS
<1> USE DEF coreVars, zkVars, procVars
<1>1. \A p \in Process : Id(p)' = Id(p) /\ (Live(p)' <=> Live(p)) /\ Position(p)' = Position(p)
  BY DEF Id, Live, Position, SeqsOf
<1>2. \A p \in Process : Present(p)' <=> Present(p)
  BY <1>1 DEF Present
<1>3. Started' = Started
  BY DEF Started
<1>4. TypeOK' /\ Phases'
  BY DEF Inv, TypeOK, Phases
<1>5. Ids'
  BY <1>1, <1>2, <1>3 DEF Inv, Ids
<1>6. Owners'
  BY <1>1, NodeTypes DEF Inv, Owners
<1>7. LocksHeld' /\ Positions' /\ Endpoints'
  BY <1>1 DEF Inv, LocksHeld, Positions, Endpoints
<1>8. LocksKnown' /\ LocksDiffer'
  BY DEF Inv, LocksKnown, LocksDiffer
<1> QED
  BY <1>4, <1>5, <1>6, <1>7, <1>8 DEF Inv

\* Nobody comes back and no id is given out.
LEMMA IdsStay ==
  ASSUME Inv, jobSeq' \in Nat, jobSeq' <= jobSeq, jobId' = jobId, disturbed \subseteq disturbed',
         \A p \in Process : pc[p] = "gone" => pc'[p] = "gone"
  PROVE  Ids'
<1>1. \A p \in Process : Id(p)' = Id(p)
  BY DEF Id
<1>2. Started' = Started
  BY DEF Started
<1>3. jobSeq' <= Cardinality(Started')
  BY <1>2, StartedCount DEF Inv, Ids, TypeOK
<1>4. ASSUME NEW p \in Process, NEW q \in Process, p[1] # q[1], p[1] \notin disturbed',
             Id(p)' # -1, Id(q)' = Id(p)'
      PROVE  pc'[q] = "gone"
  BY <1>1, <1>4 DEF Inv, Ids
<1> QED
  BY <1>3, <1>4 DEF Ids

LEMMA GenerateInv ==
  ASSUME Inv, NEW l \in Launch, GenerateJobID(l)
  PROVE  Inv'
<1> DEFINE same == {m \in Launch : jobId[m] = jobSeq}
           add == {m \in {l} : \E p \in Process : p[1] \in same /\ pc[p] # "gone"}
<1>0. /\ jobId[l] = -1 /\ jobId' = [jobId EXCEPT ![l] = jobSeq] /\ jobSeq' = jobSeq + 1
      /\ nodes' = nodes /\ lockSeq' = lockSeq /\ locks' = locks /\ procs' = procs /\ pc' = pc
      /\ lock' = lock /\ procsId' = procsId /\ disturbed' = disturbed \cup same \cup add
  BY DEF GenerateJobID, NextJobId
<1>1. jobSeq \in Nat /\ jobSeq <= Cardinality(Started)
  BY DEF Inv, Ids, TypeOK
<1>2. /\ Started' = Started \cup {l} /\ l \notin Started /\ jobSeq \in JobIds
      /\ jobSeq + 1 <= Cardinality(Started')
  <2>1. l \notin Started /\ Started \cup {l} \subseteq Launch
    BY <1>0 DEF Started
  <2>2. Started' = Started \cup {l}
    BY <1>0, <1>1 DEF Started, Inv, TypeOK
  <2>3. Cardinality(Started \cup {l}) = Cardinality(Started) + 1
    BY <2>1, StartedCount, FS_AddElement
  <2>4. Cardinality(Started \cup {l}) <= Cardinality(Launch)
    BY <2>1, LaunchCount, FS_Subset
  <2>5. jobSeq < Cardinality(Launch)
    BY <1>1, <2>3, <2>4, StartedCount, LaunchCount
  <2> QED
    BY <1>1, <2>1, <2>2, <2>3, <2>5, StartedCount, LaunchCount
<1>3. disturbed \subseteq disturbed' /\ disturbed' \subseteq Launch
  BY <1>0 DEF Inv, TypeOK
<1>4. TypeOK'
  BY <1>0, <1>1, <1>2, <1>3 DEF Inv, TypeOK
<1>5. \A p \in Process : Id(p)' = IF p[1] = l THEN jobSeq ELSE Id(p)
  BY <1>0, ProcessIs DEF Id, Inv, TypeOK
<1>6. \A p \in Process : p[1] = l => pc[p] = "off"
  BY <1>0 DEF Inv, Phases
<1>7. Ids'
  <2>1. ASSUME NEW p \in Process, NEW q \in Process, p[1] # q[1], p[1] \notin disturbed',
               Id(p)' # -1, Id(q)' = Id(p)'
        PROVE  pc'[q] = "gone"
    <3>1. CASE p[1] = l
      <4>1. Id(q) = jobSeq
        BY <1>5, <2>1, <3>1
      <4>2. q[1] \in same
        BY <4>1, ProcessIs DEF Id
      <4>3. l \notin add
        BY <1>0, <2>1, <3>1
      <4> QED
        BY <1>0, <4>2, <4>3
    <3>2. CASE q[1] = l
      <4>1. Id(p) = jobSeq
        BY <1>5, <2>1, <3>2
      <4>2. p[1] \in same
        BY <4>1, ProcessIs DEF Id
      <4> QED
        BY <1>0, <2>1, <4>2
    <3>3. CASE p[1] # l /\ q[1] # l
      BY <1>0, <1>3, <1>5, <2>1, <3>3 DEF Inv, Ids
    <3> QED
      BY <3>1, <3>2, <3>3
  <2> QED
    BY <1>0, <1>2, <2>1 DEF Ids
<1>8. Phases'
  <2>1. jobSeq # -1
    BY <1>1
  <2> QED
    BY <1>0, <1>3, <1>6, <2>1, ProcessIs DEF Inv, Phases, TypeOK
<1>9. \A k \in locks : k.owner \in Process /\ k.owner[1] # l
  BY <1>6, NodeTypes DEF Inv, Owners
<1>10. \A e \in procs : e.owner \in Process /\ e.owner[1] # l
  BY <1>6, NodeTypes DEF Inv, Owners
<1> HIDE DEF same, add
<1>11. Owners'
  BY <1>0, <1>5, <1>9, <1>10 DEF Inv, Owners
<1>12. \A p \in Process : pc[p] # "off" => Id(p)' = Id(p)
  BY <1>5, <1>6
<1>13. LocksHeld'
  BY <1>0, <1>3, <1>12 DEF Inv, LocksHeld, Locked
<1>14. LocksKnown' /\ LocksDiffer'
  BY <1>0, <1>3 DEF Inv, LocksKnown, LocksDiffer
<1>15. \A p \in Process : pc[p] # "off" => Position(p)' = Position(p)
  BY <1>0, <1>12, SamePosition
<1>16. Positions'
  BY <1>0, <1>3, <1>12, <1>15 DEF Inv, Positions
<1>17. Endpoints'
  BY <1>0, <1>3, <1>10, <1>12 DEF Inv, Endpoints
<1> QED
  BY <1>4, <1>7, <1>8, <1>11, <1>13, <1>14, <1>16, <1>17 DEF Inv

LEMMA StartInv ==
  ASSUME Inv, NEW p \in Process, StartProcess(p)
  PROVE  Inv'
<1>0. /\ pc[p] = "off" /\ Id(p) # -1 /\ pc' = [pc EXCEPT ![p] = "job"] /\ nodes' = nodes
      /\ jobSeq' = jobSeq /\ lockSeq' = lockSeq /\ locks' = locks /\ procs' = procs
      /\ jobId' = jobId /\ lock' = lock /\ procsId' = procsId /\ disturbed' = disturbed
  BY DEF StartProcess, Goto, zkVars
<1>1. TypeOK'
  BY <1>0 DEF Inv, TypeOK, PcValue
<1>2. \A q \in Process : /\ Id(q)' = Id(q) /\ pc'[q] = IF q = p THEN "job" ELSE pc[q]
                         /\ (pc'[q] \in Locked <=> pc[q] \in Locked)
                         /\ (pc'[q] = "run" <=> pc[q] = "run")
                         /\ (pc'[q] = "publish" <=> pc[q] = "publish")
  BY <1>0 DEF Id, Locked, Inv, TypeOK
<1>3. Ids'
  BY <1>0, <1>2, IdsStay DEF Inv, TypeOK
<1>4. Phases'
  BY <1>0, <1>2 DEF Inv, Phases, Id
<1>5. Owners'
  BY <1>0, <1>2, NodeTypes DEF Inv, Owners
<1>6. LocksHeld'
  BY <1>0, <1>2 DEF Inv, LocksHeld
<1>7. LocksKnown' /\ LocksDiffer'
  BY <1>0, <1>2, NodeTypes DEF Inv, LocksKnown, LocksDiffer
<1>8. \A q \in Process : Position(q)' = Position(q)
  BY <1>0, <1>2, SamePosition
<1>9. Positions'
  BY <1>0, <1>2, <1>8 DEF Inv, Positions
<1>10. Endpoints'
  BY <1>0, <1>2, NodeTypes DEF Inv, Endpoints
<1> QED
  BY <1>1, <1>3, <1>4, <1>5, <1>6, <1>7, <1>9, <1>10 DEF Inv

LEMMA CreateNodeInv ==
  ASSUME Inv, NEW p \in Process, NEW n \in NodeName, NEW next \in {"proc", "proc-lock", "lock"},
         CreateNode(p, n, next)
  PROVE  Inv'
<1>0. /\ pc[p] = n /\ pc' = [pc EXCEPT ![p] = next] /\ nodes' = nodes \cup {<<Id(p), n>>}
      /\ jobSeq' = jobSeq /\ locks' = locks /\ procs' = procs /\ jobId' = jobId
      /\ lock' = lock /\ procsId' = procsId /\ disturbed' = disturbed /\ lockSeq' = lockSeq
  BY DEF CreateNode, Goto, histVars
<1>2. Live(p) /\ Present(p) /\ Id(p) \in JobIds
  BY <1>0, PresentHasId DEF Live, Present, NodeName
<1>3. TypeOK'
  BY <1>0, <1>2 DEF Inv, TypeOK, PcValue, NodeName
<1>4. \A q \in Process : /\ Id(q)' = Id(q) /\ pc'[q] = IF q = p THEN next ELSE pc[q]
                         /\ (Live(q)' <=> Live(q)) /\ (pc'[q] \in Locked <=> pc[q] \in Locked)
                         /\ (pc'[q] = "run" <=> pc[q] = "run")
                         /\ (pc'[q] = "publish" <=> pc[q] = "publish")
                         /\ (pc'[q] = "gone" <=> pc[q] = "gone") /\ (pc'[q] = "off" <=> pc[q] = "off")
  BY <1>0 DEF Id, Live, Locked, NodeName, Inv, TypeOK
<1>5. Ids'
  BY <1>0, <1>4, IdsStay DEF Inv, TypeOK
<1>6. Phases'
  BY <1>0, <1>2, <1>4 DEF Inv, Phases, NodeName
<1>7. Owners'
  BY <1>0, <1>4, NodeTypes DEF Inv, Owners
<1>8. LocksHeld'
  BY <1>0, <1>4 DEF Inv, LocksHeld
<1>9. LocksKnown'
  BY <1>0, <1>4, NodeTypes DEF Inv, LocksKnown
<1>10. LocksDiffer'
  BY <1>0 DEF Inv, LocksDiffer
<1>11. \A q \in Process : Position(q)' = Position(q)
  BY <1>0, <1>4, SamePosition
<1>12. Positions'
  BY <1>0, <1>4, <1>11 DEF Inv, Positions
<1>13. Endpoints'
  BY <1>0, <1>4, NodeTypes DEF Inv, Endpoints
<1> QED
  BY <1>3, <1>5, <1>6, <1>7, <1>8, <1>9, <1>10, <1>12, <1>13 DEF Inv

LEMMA CreateLockInv ==
  ASSUME Inv, NEW p \in Process, CreateLock(p)
  PROVE  Inv'
<1> DEFINE new == [job |-> Id(p), seq |-> lockSeq[Id(p)], owner |-> p]
<1>0. /\ pc[p] = "lock" /\ pc' = [pc EXCEPT ![p] = "children"] /\ <<Id(p), "proc-lock">> \in nodes
      /\ locks' = locks \cup {new} /\ lock' = [lock EXCEPT ![p] = lockSeq[Id(p)]]
      /\ lockSeq' = [lockSeq EXCEPT ![Id(p)] = lockSeq[Id(p)] + 1]
      /\ nodes' = nodes /\ jobSeq' = jobSeq /\ procs' = procs /\ jobId' = jobId
      /\ procsId' = procsId /\ disturbed' = disturbed
  BY DEF CreateLock, Goto, histVars
<1>1. new.job = Id(p) /\ new.seq = lockSeq[Id(p)] /\ new.owner = p
  OBVIOUS
<1>2. Live(p) /\ Present(p) /\ Id(p) \in JobIds /\ lockSeq[Id(p)] \in Nat
  BY <1>0, PresentHasId DEF Live, Present, Inv, TypeOK
<1>3. new \in [job : JobIds, seq : Nat, owner : Process]
  BY <1>2
<1> HIDE DEF new
<1>4. TypeOK'
  BY <1>0, <1>2, <1>3 DEF Inv, TypeOK, PcValue
<1>5. \A q \in Process : /\ Id(q)' = Id(q) /\ pc'[q] = IF q = p THEN "children" ELSE pc[q]
                         /\ lock'[q] = IF q = p THEN lockSeq[Id(p)] ELSE lock[q]
                         /\ (Live(q)' <=> Live(q))
  BY <1>0 DEF Id, Live, Inv, TypeOK
<1>6. Ids'
  BY <1>0, <1>5, IdsStay DEF Inv, TypeOK
<1>7. Phases'
  BY <1>0, <1>2, <1>5 DEF Inv, Phases
<1>8. Owners'
  BY <1>0, <1>1, <1>5, NodeTypes DEF Inv, Owners
<1>9. \A k \in locks : k.owner \in Process /\ k.job \in JobIds /\ k.job = Id(k.owner) /\ Present(k.owner)
  BY NodeTypes, HasNode DEF Inv, Owners
<1>10. \A k \in locks : k.owner[1] \notin disturbed => k.owner # p
  BY <1>0, <1>9 DEF Inv, LocksKnown, Locked
<1>11. \A k \in locks : k.job = Id(p) /\ (p[1] \notin disturbed \/ k.owner[1] \notin disturbed)
         => k.owner[1] = p[1]
  BY <1>2, <1>9, SameLaunch
<1>12. \A k \in locks : k.job = Id(p) /\ p[1] \notin disturbed => k.seq \in Nat /\ k.seq < new.seq
  BY <1>1, <1>11, NodeTypes DEF Inv, LocksKnown
<1>13. LocksHeld'
  <2> SUFFICES ASSUME NEW q \in Process, q[1] \notin disturbed, pc'[q] \in Locked
      PROVE  lock'[q] \in Nat /\ [job |-> Id(q), seq |-> lock'[q], owner |-> q] \in locks'
    BY <1>0, <1>5 DEF LocksHeld
  <2>1. CASE q = p
    BY <1>0, <1>2, <1>5, <2>1 DEF new
  <2>2. CASE q # p
    BY <1>0, <1>5, <2>2 DEF Inv, LocksHeld
  <2> QED
    BY <2>1, <2>2
<1>14. LocksKnown'
  <2> SUFFICES ASSUME NEW k \in locks', k.owner[1] \notin disturbed
      PROVE  /\ pc'[k.owner] \in Locked /\ k.seq = lock'[k.owner]
             /\ k.seq < lockSeq'[k.job] /\ <<k.job, "proc-lock">> \in nodes
    BY <1>0 DEF LocksKnown
  <2>1. CASE k = new
    <3>1. lockSeq'[Id(p)] = lockSeq[Id(p)] + 1
      BY <1>0, <1>2 DEF Inv, TypeOK
    <3> QED
      BY <1>0, <1>1, <1>2, <1>5, <2>1, <3>1 DEF Locked
  <2>2. CASE k \in locks
    <3>1. /\ pc[k.owner] \in Locked /\ k.seq = lock[k.owner]
          /\ k.seq < lockSeq[k.job] /\ <<k.job, "proc-lock">> \in nodes
      BY <2>2 DEF Inv, LocksKnown
    <3>2. lockSeq[k.job] \in Nat /\ k.seq \in Nat
          /\ (lockSeq'[k.job] = lockSeq[k.job] \/ lockSeq'[k.job] = lockSeq[k.job] + 1)
      BY <1>0, <1>2, <1>9, <2>2, NodeTypes DEF Inv, TypeOK
    <3>3. k.owner # p /\ k.owner \in Process
      BY <1>9, <1>10, <2>2
    <3> QED
      BY <1>5, <3>1, <3>2, <3>3
  <2> QED
    BY <1>0, <2>1, <2>2
<1>15. LocksDiffer'
  <2> SUFFICES ASSUME NEW k \in locks', NEW m \in locks', k.owner[1] \notin disturbed,
                      m.owner # k.owner, m.job = k.job
      PROVE  m.seq # k.seq
    BY <1>0 DEF LocksDiffer
  <2>0. new.seq \in Nat
    BY <1>1, <1>2
  <2>1. CASE k = new /\ m \in locks
    BY <1>1, <1>12, <2>0, <2>1
  <2>2. CASE k \in locks /\ m = new
    BY <1>1, <1>11, <1>12, <2>0, <2>2
  <2>3. CASE k \in locks /\ m \in locks
    BY <2>3 DEF Inv, LocksDiffer
  <2> QED
    BY <1>0, <2>1, <2>2, <2>3
<1>16. ASSUME NEW q \in Process, q[1] \notin disturbed, pc'[q] \in {"publish", "run"}
       PROVE  q # p /\ pc'[q] = pc[q] /\ Position(q)' = Position(q)
  <2>1. q # p /\ pc'[q] = pc[q] /\ lock'[q] = lock[q] /\ Id(q)' = Id(q)
    BY <1>5, <1>16
  <2> DEFINE own == [job |-> Id(q), seq |-> lock[q], owner |-> q]
  <2>2. own \in locks /\ own.job = Id(q) /\ own.seq = lock[q] /\ own.owner = q
    BY <1>16, <2>1 DEF Inv, LocksHeld, Locked
  <2>3. new.job = Id(q) => lock[q] < new.seq /\ lock[q] \in Nat /\ new.seq \in Nat
    <3> HIDE DEF own
    <3> SUFFICES ASSUME new.job = Id(q) PROVE lock[q] < new.seq /\ lock[q] \in Nat /\ new.seq \in Nat
      OBVIOUS
    <3>1. own.job = Id(p)
      BY <1>1, <2>2
    <3>2. p[1] = q[1]
      BY <1>11, <1>16, <2>2, <3>1
    <3> QED
      BY <1>1, <1>2, <1>12, <1>16, <2>2, <3>1, <3>2
  <2>4. \A k : k.job = Id(q) /\ k.seq < lock[q] => (k \in locks' <=> k \in locks)
    BY <1>0, <2>3
  <2> QED
    BY <2>1, <2>4, SamePosition
<1>17. Positions'
  BY <1>0, <1>16 DEF Inv, Positions
<1>18. Endpoints'
  BY <1>0, <1>5, NodeTypes DEF Inv, Endpoints
<1> QED
  BY <1>4, <1>6, <1>7, <1>8, <1>13, <1>14, <1>15, <1>17, <1>18 DEF Inv

\* Whatever fails, ends or is removed: the launches that remain undisturbed keep
\* their processes and their nodes.
LEMMA RemovalInv ==
  ASSUME Inv, jobId' = jobId, jobSeq' \in Nat, jobSeq' <= jobSeq, lockSeq' \in [JobIds -> Nat],
         lock' \in [Process -> Int], procsId' \in [Process -> Int], pc' \in [Process -> PcValue],
         locks' \subseteq locks, procs' \subseteq procs, nodes' \subseteq nodes,
         disturbed \subseteq disturbed', disturbed' \subseteq Launch,
         \A q \in Process : /\ pc'[q] = "off" <=> pc[q] = "off"
                            /\ pc[q] = "gone" => pc'[q] = "gone"
                            /\ pc'[q] # pc[q] => q[1] \in disturbed',
         \A q \in Process : q[1] \notin disturbed' => lock'[q] = lock[q] /\ procsId'[q] = procsId[q],
         \A k \in locks' : pc'[k.owner] # "gone",
         \A e \in procs' : pc'[e.owner] # "gone",
         \A k \in locks : k.owner[1] \notin disturbed' =>
            /\ k \in locks' /\ lockSeq'[k.job] = lockSeq[k.job]
            /\ (<<k.job, "proc-lock">> \in nodes => <<k.job, "proc-lock">> \in nodes'),
         \A e \in procs : e.owner[1] \notin disturbed' => e \in procs'
  PROVE  Inv'
<1>1. TypeOK'
  BY DEF Inv, TypeOK
<1>2. \A q \in Process : Id(q)' = Id(q)
  BY DEF Id
<1>3. Phases' /\ Ids'
  <2>1. Ids'
    BY IdsStay
  <2> QED
    BY <2>1 DEF Inv, Phases
<1>4. Owners'
  <2>1. \A k \in locks' : k \in locks /\ k.owner \in Process /\ Id(k.owner)' = Id(k.owner)
    BY <1>2, NodeTypes DEF Inv
  <2>2. \A e \in procs' : e \in procs /\ e.owner \in Process /\ Id(e.owner)' = Id(e.owner)
    BY <1>2, NodeTypes DEF Inv
  <2> QED
    BY <2>1, <2>2 DEF Inv, Owners
<1>5. LocksHeld'
  <2> SUFFICES ASSUME NEW q \in Process, q[1] \notin disturbed', pc'[q] \in Locked
      PROVE  lock[q] \in Nat /\ [job |-> Id(q), seq |-> lock[q], owner |-> q] \in locks'
    BY <1>2 DEF LocksHeld
  <2> DEFINE own == [job |-> Id(q), seq |-> lock[q], owner |-> q]
  <2>1. lock[q] \in Nat /\ own \in locks
    BY DEF Inv, LocksHeld
  <2>2. own.owner = q
    OBVIOUS
  <2> QED
    BY <2>1, <2>2
<1>6. LocksKnown'
  BY NodeTypes DEF Inv, LocksKnown
<1>7. LocksDiffer'
  BY DEF Inv, LocksDiffer
<1>8. ASSUME NEW q \in Process, q[1] \notin disturbed', pc'[q] \in {"publish", "run"}
      PROVE  pc[q] = pc'[q] /\ Position(q)' = Position(q)
  <2>1. pc[q] = pc'[q] /\ q[1] \notin disturbed /\ lock'[q] = lock[q]
    BY <1>8
  <2>2. Present(q)
    BY <1>8, <2>1 DEF Present, Live
  <2>3. \A k \in locks : k.job = Id(q) => k.owner[1] = q[1]
    BY <2>1, <2>2, HasNode, SameLaunch DEF Inv, Owners
  <2>4. \A k : k.job = Id(q) /\ k.seq < lock[q] => (k \in locks' <=> k \in locks)
    BY <1>8, <2>3
  <2> QED
    BY <1>2, <2>1, <2>4, SamePosition
<1>9. Positions'
  BY <1>8 DEF Inv, Positions
<1>10. Endpoints'
  <2>1. \A e \in procs' : e.owner[1] \notin disturbed' => pc'[e.owner] = "run" /\ e.id = procsId'[e.owner]
    BY NodeTypes DEF Inv, Endpoints
  <2>2. ASSUME NEW q \in Process, q[1] \notin disturbed', pc'[q] = "run"
        PROVE  [job |-> Id(q), id |-> procsId[q], owner |-> q] \in procs'
    <3> DEFINE e == [job |-> Id(q), id |-> procsId[q], owner |-> q]
    <3>1. e \in procs
      BY <2>2 DEF Inv, Endpoints
    <3>2. e.owner = q
      OBVIOUS
    <3> QED
      BY <2>2, <3>1, <3>2
  <2> QED
    BY <1>2, <2>1, <2>2 DEF Endpoints
<1> QED
  BY <1>1, <1>3, <1>4, <1>5, <1>6, <1>7, <1>9, <1>10 DEF Inv

\* A process fails, for whatever reason.
LEMMA FailInv ==
  ASSUME Inv, NEW p \in Process, pc[p] \notin {"off", "gone"}, Goto(p, "dead"),
         disturbed' = disturbed \cup {p[1]}, UNCHANGED <<zkVars, jobId, lock, procsId>>
  PROVE  Inv'
<1>0. /\ pc' = [pc EXCEPT ![p] = "dead"] /\ jobSeq' = jobSeq /\ nodes' = nodes /\ lockSeq' = lockSeq
      /\ locks' = locks /\ procs' = procs /\ jobId' = jobId /\ lock' = lock /\ procsId' = procsId
  BY DEF Goto, zkVars
<1>1. \A q \in Process : pc'[q] = IF q = p THEN "dead" ELSE pc[q]
  BY <1>0 DEF Inv, TypeOK
<1>2. /\ pc' \in [Process -> PcValue] /\ disturbed' \subseteq Launch /\ jobSeq' \in Nat
      /\ lockSeq' \in [JobIds -> Nat] /\ lock' \in [Process -> Int] /\ procsId' \in [Process -> Int]
  BY <1>0, ProcessIs DEF Inv, TypeOK, PcValue
<1>3. /\ \A k \in locks' : pc'[k.owner] # "gone"
      /\ \A e \in procs' : pc'[e.owner] # "gone"
  BY <1>0, <1>1, NodeTypes DEF Inv, Owners
<1> QED
  BY <1>0, <1>1, <1>2, <1>3, RemovalInv

LEMMA ReadLocksInv ==
  ASSUME Inv, NEW p \in Process, ReadLocks(p)
  PROVE  Inv'
<1>0. pc[p] = "children" /\ UNCHANGED <<zkVars, jobId, lock>>
  BY DEF ReadLocks
<1>1. CASE lock[p] \notin SeqsOf(p)
  BY <1>0, <1>1, FailInv DEF ReadLocks
<1>2. CASE lock[p] \in SeqsOf(p)
  <2>0. /\ pc' = [pc EXCEPT ![p] = "publish"] /\ procsId' = [procsId EXCEPT ![p] = Position(p)]
        /\ disturbed' = disturbed /\ jobSeq' = jobSeq /\ nodes' = nodes /\ lockSeq' = lockSeq
        /\ locks' = locks /\ procs' = procs /\ jobId' = jobId /\ lock' = lock
    BY <1>0, <1>2 DEF ReadLocks, Goto, zkVars
  <2>1. Position(p) \in Int
    BY BelowFinite DEF Inv
  <2>2. TypeOK'
    BY <2>0, <2>1 DEF Inv, TypeOK, PcValue
  <2>3. \A q \in Process : /\ Id(q)' = Id(q) /\ pc'[q] = IF q = p THEN "publish" ELSE pc[q]
                           /\ procsId'[q] = IF q = p THEN Position(p) ELSE procsId[q]
                           /\ (Live(q)' <=> Live(q)) /\ (pc'[q] \in Locked <=> pc[q] \in Locked)
    BY <1>0, <2>0 DEF Id, Live, Locked, Inv, TypeOK
  <2>4. Ids'
    BY <1>0, <2>0, <2>3, IdsStay DEF Inv, TypeOK
  <2>5. Phases'
    BY <1>0, <2>0, <2>3 DEF Inv, Phases
  <2>6. Owners'
    BY <2>0, <2>3, NodeTypes DEF Inv, Owners
  <2>7. LocksHeld'
    BY <2>0, <2>3 DEF Inv, LocksHeld
  <2>8. LocksKnown'
    BY <2>0, <2>3, NodeTypes DEF Inv, LocksKnown
  <2>9. LocksDiffer'
    BY <2>0 DEF Inv, LocksDiffer
  <2>10. \A q \in Process : Position(q)' = Position(q)
    BY <2>0, <2>3, SamePosition
  <2>11. Positions'
    BY <2>0, <2>3, <2>10 DEF Inv, Positions
  <2>12. Endpoints'
    BY <1>0, <2>0, <2>3, NodeTypes DEF Inv, Endpoints
  <2> QED
    BY <2>2, <2>4, <2>5, <2>6, <2>7, <2>8, <2>9, <2>11, <2>12 DEF Inv
<1> QED
  BY <1>1, <1>2

LEMMA PublishInv ==
  ASSUME Inv, NEW p \in Process, Publish(p)
  PROVE  Inv'
<1> DEFINE new == [job |-> Id(p), id |-> procsId[p], owner |-> p]
<1>0. /\ pc[p] = "publish" /\ pc' = [pc EXCEPT ![p] = "run"]
      /\ procs' = IF \E e \in procs : e.job = Id(p) /\ e.id = procsId[p] THEN procs ELSE procs \cup {new}
      /\ nodes' = nodes /\ jobSeq' = jobSeq /\ locks' = locks /\ jobId' = jobId /\ lockSeq' = lockSeq
      /\ lock' = lock /\ procsId' = procsId /\ disturbed' = disturbed
  BY DEF Publish, Goto, histVars
<1>1. new.job = Id(p) /\ new.id = procsId[p] /\ new.owner = p
  OBVIOUS
<1>2. Live(p) /\ Present(p) /\ Id(p) \in JobIds
  BY <1>0, PresentHasId DEF Live, Present
<1>3. new \in [job : JobIds, id : Int, owner : Process]
  BY <1>2 DEF Inv, TypeOK
<1>4. ASSUME p[1] \notin disturbed PROVE procs' = procs \cup {new}
  <2> SUFFICES ASSUME NEW e \in procs, e.job = Id(p), e.id = procsId[p] PROVE FALSE
    BY <1>0
  <2>1. e.owner \in Process /\ Present(e.owner) /\ Id(e.owner) = Id(p)
    BY HasNode DEF Inv, Owners
  <2>2. e.owner[1] = p[1]
    BY <1>2, <1>4, <2>1, SameLaunch
  <2>3. pc[e.owner] = "run" /\ e.id = procsId[e.owner]
    BY <1>4, <2>2 DEF Inv, Endpoints
  <2>4. e.owner # p
    BY <1>0, <2>3
  <2>5. Position(e.owner) # Position(p)
    BY <1>0, <1>4, <2>1, <2>2, <2>3, <2>4, PositionsDiffer DEF Locked
  <2>6. procsId[e.owner] = Position(e.owner) /\ procsId[p] = Position(p)
    BY <1>0, <1>4, <2>1, <2>2, <2>3 DEF Inv, Positions
  <2> QED
    BY <2>3, <2>5, <2>6
<1>5. procs \subseteq procs' /\ procs' \subseteq procs \cup {new}
  BY <1>0
<1> HIDE DEF new
<1>6. TypeOK'
  BY <1>0, <1>3, <1>5 DEF Inv, TypeOK, PcValue
<1>7. \A q \in Process : /\ Id(q)' = Id(q) /\ pc'[q] = IF q = p THEN "run" ELSE pc[q]
                         /\ (Live(q)' <=> Live(q)) /\ (pc'[q] \in Locked <=> pc[q] \in Locked)
                         /\ (pc'[q] \in {"publish", "run"} <=> pc[q] \in {"publish", "run"})
  BY <1>0 DEF Id, Live, Locked, Inv, TypeOK
<1>9. Ids'
  BY <1>0, <1>7, IdsStay DEF Inv, TypeOK
<1>10. Phases'
  BY <1>0, <1>2, <1>7 DEF Inv, Phases
<1>11. Owners'
  BY <1>0, <1>1, <1>5, <1>7, NodeTypes DEF Inv, Owners
<1>12. LocksHeld'
  BY <1>0, <1>7 DEF Inv, LocksHeld
<1>13. LocksKnown'
  BY <1>0, <1>7, NodeTypes DEF Inv, LocksKnown
<1>14. LocksDiffer'
  BY <1>0 DEF Inv, LocksDiffer
<1>15. \A q \in Process : Position(q)' = Position(q)
  BY <1>0, <1>7, SamePosition
<1>16. Positions'
  BY <1>0, <1>7, <1>15 DEF Inv, Positions
<1>17. Endpoints'
  <2>1. \A e \in procs' : e.owner[1] \notin disturbed => pc'[e.owner] = "run" /\ e.id = procsId[e.owner]
    BY <1>1, <1>5, <1>7, NodeTypes DEF Inv, Endpoints
  <2>2. \A q \in Process : q[1] \notin disturbed /\ pc'[q] = "run" =>
           [job |-> Id(q), id |-> procsId[q], owner |-> q] \in procs'
    BY <1>4, <1>5, <1>7 DEF Inv, Endpoints, new
  <2> QED
    BY <1>0, <1>7, <2>1, <2>2 DEF Endpoints
<1> QED
  BY <1>6, <1>9, <1>10, <1>11, <1>12, <1>13, <1>14, <1>16, <1>17 DEF Inv

LEMMA ExpireInv ==
  ASSUME Inv, NEW p \in Process, Expire(p)
  PROVE  Inv'
<1>0. /\ pc[p] = "dead" /\ pc' = [pc EXCEPT ![p] = "gone"]
      /\ locks' = {k \in locks : k.owner # p} /\ procs' = {e \in procs : e.owner # p}
      /\ nodes' = nodes /\ jobSeq' = jobSeq /\ jobId' = jobId /\ lockSeq' = lockSeq
      /\ lock' = lock /\ procsId' = procsId /\ disturbed' = disturbed
  BY DEF Expire, Goto, histVars
<1>1. p[1] \in disturbed
  BY <1>0 DEF Inv, Phases
<1>2. \A q \in Process : pc'[q] = IF q = p THEN "gone" ELSE pc[q]
  BY <1>0 DEF Inv, TypeOK
<1>3. /\ pc' \in [Process -> PcValue] /\ disturbed' \subseteq Launch /\ jobSeq' \in Nat
      /\ lockSeq' \in [JobIds -> Nat] /\ lock' \in [Process -> Int] /\ procsId' \in [Process -> Int]
  BY <1>0 DEF Inv, TypeOK, PcValue
<1>4. /\ \A k \in locks' : pc'[k.owner] # "gone"
      /\ \A e \in procs' : pc'[e.owner] # "gone"
  BY <1>0, <1>2, NodeTypes DEF Inv, Owners
<1> QED
  BY <1>0, <1>1, <1>2, <1>3, <1>4, RemovalInv

\* singatool removes a node: it disturbs the launches that have the job's id.
LEMMA RemoveInv ==
  ASSUME Inv, NEW path, Remove(path), UNCHANGED procVars
  PROVE  Inv'
<1>0. /\ nodes' = nodes \ {<<path[2], path[1]>>}
      /\ locks' = {k \in locks : path # <<"lock", k.job, k.seq>>}
      /\ procs' = {e \in procs : path # <<"endpoint", e.job, e.id>>}
      /\ lockSeq' = lockSeq \/ lockSeq' = [lockSeq EXCEPT ![path[2]] = 0]
      /\ jobSeq' = 0 \/ jobSeq' = jobSeq
      /\ disturbed' = disturbed \cup {l \in Launch : jobId[l] # -1 /\ jobId[l] = path[2]}
      /\ jobId' = jobId /\ pc' = pc /\ lock' = lock /\ procsId' = procsId
  BY DEF Remove, procVars
<1>1. \A k \in locks : k.owner \in Process /\ k.job \in JobIds /\ jobId[k.owner[1]] = k.job /\ k.job # -1
  BY NodeTypes, HasNode, PresentHasId DEF Inv, Owners, Id
<1>2. \A e \in procs : e.owner \in Process /\ jobId[e.owner[1]] = e.job /\ e.job # -1
  BY NodeTypes, HasNode, PresentHasId DEF Inv, Owners, Id
<1>3. \A k \in locks : k.owner[1] \notin disturbed' => k.job # path[2]
  BY <1>0, <1>1, ProcessIs
<1>4. \A e \in procs : e.owner[1] \notin disturbed' => e.job # path[2]
  BY <1>0, <1>2, ProcessIs
<1>5. /\ pc' \in [Process -> PcValue] /\ disturbed' \subseteq Launch /\ jobSeq' \in Nat /\ jobSeq' <= jobSeq
      /\ lockSeq' \in [JobIds -> Nat] /\ lock' \in [Process -> Int] /\ procsId' \in [Process -> Int]
  BY <1>0 DEF Inv, TypeOK
<1>6. \A k \in locks : k.job # path[2] => k \in locks'
  <2> SUFFICES ASSUME NEW k \in locks, path = <<"lock", k.job, k.seq>> PROVE path[2] = k.job
    BY <1>0
  <2> QED
    OBVIOUS
<1>7. \A e \in procs : e.job # path[2] => e \in procs'
  <2> SUFFICES ASSUME NEW e \in procs, path = <<"endpoint", e.job, e.id>> PROVE path[2] = e.job
    BY <1>0
  <2> QED
    OBVIOUS
<1>8. \A k \in locks : k.job # path[2] =>
        /\ lockSeq'[k.job] = lockSeq[k.job]
        /\ (<<k.job, "proc-lock">> \in nodes => <<k.job, "proc-lock">> \in nodes')
  BY <1>0, <1>1 DEF Inv, TypeOK
<1>9. /\ \A k \in locks' : pc'[k.owner] # "gone"
      /\ \A e \in procs' : pc'[e.owner] # "gone"
  BY <1>0 DEF Inv, Owners
<1>10. /\ nodes' \subseteq nodes /\ locks' \subseteq locks /\ procs' \subseteq procs
       /\ disturbed \subseteq disturbed'
  BY <1>0
<1>11. /\ \A k \in locks : k.owner[1] \notin disturbed' =>
            /\ k \in locks' /\ lockSeq'[k.job] = lockSeq[k.job]
            /\ (<<k.job, "proc-lock">> \in nodes => <<k.job, "proc-lock">> \in nodes')
       /\ \A e \in procs : e.owner[1] \notin disturbed' => e \in procs'
  BY <1>3, <1>4, <1>6, <1>7, <1>8
<1>12. jobId' = jobId /\ pc' = pc /\ lock' = lock /\ procsId' = procsId
  BY <1>0
<1> QED
  BY <1>5, <1>9, <1>10, <1>11, <1>12, RemovalInv

LEMMA KillInv ==
  ASSUME Inv, KillHost
  PROVE  Inv'
<1> DEFINE killed == {p \in Process : p[2] = stop + 1 /\ Live(p)}
<1>0. /\ pc' = [p \in Process |-> IF p \in killed THEN "dead" ELSE pc[p]]
      /\ lock' = [p \in Process |-> IF p \in killed THEN -1 ELSE lock[p]]
      /\ procsId' = [p \in Process |-> IF p \in killed THEN -1 ELSE procsId[p]]
      /\ disturbed' = disturbed \cup {p[1] : p \in killed}
      /\ jobSeq' = jobSeq /\ nodes' = nodes /\ lockSeq' = lockSeq
      /\ locks' = locks /\ procs' = procs /\ jobId' = jobId
  BY DEF KillHost, zkVars
<1>1. \A q \in killed : q \in Process /\ pc[q] \notin {"off", "gone"}
  BY DEF Live
<1> HIDE DEF killed
<1>2. /\ pc' \in [Process -> PcValue] /\ disturbed' \subseteq Launch /\ jobSeq' \in Nat
      /\ lockSeq' \in [JobIds -> Nat] /\ lock' \in [Process -> Int] /\ procsId' \in [Process -> Int]
  BY <1>0, <1>1, ProcessIs DEF Inv, TypeOK, PcValue
<1>3. \A q \in killed : q[1] \in disturbed'
  BY <1>0
<1>4. \A q \in Process : /\ pc'[q] = IF q \in killed THEN "dead" ELSE pc[q]
                         /\ q \notin killed => lock'[q] = lock[q] /\ procsId'[q] = procsId[q]
  BY <1>0
<1>5. /\ \A k \in locks' : pc'[k.owner] # "gone"
      /\ \A e \in procs' : pc'[e.owner] # "gone"
  BY <1>0, <1>4, NodeTypes DEF Inv, Owners
<1>6. \A q \in Process : /\ pc'[q] = "off" <=> pc[q] = "off"
                         /\ pc[q] = "gone" => pc'[q] = "gone"
                         /\ pc'[q] # pc[q] => q[1] \in disturbed'
  BY <1>1, <1>3, <1>4
<1>7. \A q \in Process : q[1] \notin disturbed' => lock'[q] = lock[q] /\ procsId'[q] = procsId[q]
  BY <1>3, <1>4
<1>8. disturbed \subseteq disturbed' /\ jobSeq' <= jobSeq
  BY <1>0 DEF Inv, TypeOK
<1> QED
  BY <1>0, <1>2, <1>5, <1>6, <1>7, <1>8, RemovalInv

\* What the steps of singatool do to the nodes.
LEMMA ToolSteps ==
  ASSUME CleanPath \/ CleanLeaf \/ DeleteNode
  PROVE  /\ UNCHANGED procVars
         /\ UNCHANGED coreVars \/ \E path : Remove(path)
<1>1. CASE CleanPath
  BY <1>1 DEF CleanPath, coreVars, histVars
<1>2. CASE CleanLeaf
  BY <1>2 DEF CleanLeaf, coreVars, procVars
<1>3. CASE DeleteNode
  BY <1>3 DEF DeleteNode, coreVars, procVars
<1> QED
  BY <1>1, <1>2, <1>3

LEMMA InvNext == Inv /\ [Next]_vars => Inv'
<1> SUFFICES ASSUME Inv, [Next]_vars PROVE Inv'
  OBVIOUS
<1>1. ASSUME NEW p \in Process, ProcessStep(p) \/ Crash(p) \/ Expire(p) PROVE Inv'
  <2>1. CASE CreateNode(p, "job", "proc")
    BY <2>1, CreateNodeInv DEF NodeName
  <2>2. CASE CreateNode(p, "proc", "proc-lock")
    BY <2>2, CreateNodeInv DEF NodeName
  <2>3. CASE CreateNode(p, "proc-lock", "lock")
    BY <2>3, CreateNodeInv DEF NodeName
  <2>4. CASE GiveUp(p)
    <3>1. pc[p] \notin {"off", "gone"}
      BY <2>4 DEF GiveUp, ParentMissing
    <3> QED
      BY <2>4, <3>1, FailInv DEF GiveUp
  <2>5. CASE Crash(p)
    <3>1. pc[p] \notin {"off", "gone"}
      BY <2>5 DEF Crash, Live
    <3> QED
      BY <2>5, <3>1, FailInv DEF Crash
  <2> QED
    BY <1>1, <2>1, <2>2, <2>3, <2>4, <2>5, CreateLockInv, ReadLocksInv, PublishInv, ExpireInv
       DEF ProcessStep
<1>2. CASE CleanPath \/ CleanLeaf \/ DeleteNode
  BY <1>2, ToolSteps, InvUnchanged, RemoveInv
<1>3. CASE ListJobs \/ ListNext \/ Cleanup
  <2>1. UNCHANGED coreVars
    BY <1>3 DEF ListJobs, ListNext, Cleanup, coreVars, histVars
  <2> QED
    BY <2>1, InvUnchanged
<1>4. ASSUME NEW l \in Launch, Clean(l) PROVE Inv'
  <2>1. UNCHANGED coreVars
    BY <1>4 DEF Clean, coreVars
  <2> QED
    BY <2>1, InvUnchanged
<1>5. CASE UNCHANGED vars
  BY <1>5, InvUnchanged DEF vars, coreVars, histVars
<1> QED
  BY <1>1, <1>2, <1>3, <1>4, <1>5, GenerateInv, StartInv, KillInv DEF Next, ToolStep

\* What the proofs below rest on: nodes of an undisturbed job are those of its
\* processes, and its locks keep their order.
THEOREM RegistryInv == Spec => []Inv
<1>1. Spec => Init /\ [][Next]_vars
  BY PTL DEF Spec
<1> QED
  BY <1>1, InvInit, InvNext, PTL

\* For any launches and processes, in any order of their requests: a running
\* process of an undisturbed job has the endpoint under its id, and it alone
\* (ZKClusterRT::RegistProc).
THEOREM RegistryOwnEndpoint == Spec => []OwnEndpoint
<1>1. Inv => OwnEndpoint
  <2> SUFFICES ASSUME Inv, NEW p \in Process, pc[p] = "run", p[1] \notin disturbed
      PROVE  {e.owner : e \in {e \in procs : e.job = Id(p) /\ e.id = procsId[p]}} = {p}
    BY DEF OwnEndpoint
  <2> DEFINE own == [job |-> Id(p), id |-> procsId[p], owner |-> p]
             Mine == {e \in procs : e.job = Id(p) /\ e.id = procsId[p]}
  <2>1. own \in Mine /\ own.owner = p
    BY DEF Inv, Endpoints
  <2>2. ASSUME NEW e \in Mine PROVE e.owner = p
    <3>1. e.owner \in Process /\ Present(e.owner) /\ Id(e.owner) = Id(p)
      BY HasNode DEF Inv, Owners
    <3>2. Present(p)
      BY DEF Present, Live
    <3>3. e.owner[1] = p[1]
      BY <3>1, <3>2, SameLaunch
    <3>4. pc[e.owner] = "run" /\ procsId[e.owner] = procsId[p]
      BY <3>3 DEF Inv, Endpoints
    <3>5. Position(e.owner) = Position(p)
      BY <3>1, <3>3, <3>4 DEF Inv, Positions
    <3> QED
      BY <3>1, <3>3, <3>4, <3>5, PositionsDiffer DEF Locked
  <2> HIDE DEF own, Mine
  <2>3. {e.owner : e \in Mine} = {p}
    BY <2>1, <2>2
  <2> QED
    BY <2>3 DEF Mine
<1> QED
  BY <1>1, RegistryInv, PTL

-----------------------------------------------------------------------------
(***************************************************************************)
(* singatool list.                                                         *)
(***************************************************************************)
\* A finite set of numbers can be sorted: an element comes after those below it.
LEMMA SortedIs ==
  ASSUME NEW S, IsFiniteSet(S), S \subseteq Int
  PROVE  /\ Cardinality(S) \in Nat
         /\ Sorted(S) \in [1..Cardinality(S) -> S]
         /\ \A i, j \in 1..Cardinality(S) : i < j => Sorted(S)[i] < Sorted(S)[j]
<1> DEFINE n == Cardinality(S)
           low(x) == {y \in S : y < x}
           r == [x \in S |-> Cardinality(low(x)) + 1]
<1>1. n \in Nat
  BY FS_CardinalityType
<1>2. \A x \in S : IsFiniteSet(low(x)) /\ Cardinality(low(x)) \in Nat /\ Cardinality(low(x)) < n
  <2> SUFFICES ASSUME NEW x \in S
      PROVE  IsFiniteSet(low(x)) /\ Cardinality(low(x)) \in Nat /\ Cardinality(low(x)) < n
    OBVIOUS
  <2>1. low(x) \subseteq S /\ low(x) # S
    <3>1. x \notin low(x)
      BY DEF low
    <3> QED
      BY <3>1
  <2>2. /\ IsFiniteSet(low(x)) /\ Cardinality(low(x)) <= n
        /\ (Cardinality(low(x)) = n => low(x) = S)
    <3> HIDE DEF low
    <3> QED
      BY <2>1, FS_Subset
  <2>3. Cardinality(low(x)) \in Nat
    BY <2>2, FS_CardinalityType
  <2> QED
    BY <1>1, <2>1, <2>2, <2>3
<1>3. \A x, y \in S : x < y => Cardinality(low(x)) < Cardinality(low(y))
  <2> SUFFICES ASSUME NEW x \in S, NEW y \in S, x < y
      PROVE  Cardinality(low(x)) < Cardinality(low(y))
    OBVIOUS
  <2>0. x \in Int /\ y \in Int
    OBVIOUS
  <2>1. low(x) \subseteq low(y) /\ x \in low(y) /\ x \notin low(x)
    <3>1. ASSUME NEW z \in S, z < x PROVE z < y
      <4>1. z \in Int
        OBVIOUS
      <4> QED
        BY <2>0, <3>1, <4>1
    <3>2. ~(x < x)
      BY <2>0
    <3> QED
      BY <3>1, <3>2, Zenon
  <2> HIDE DEF low
  <2>2. Cardinality(low(x)) <= Cardinality(low(y)) /\ Cardinality(low(x)) # Cardinality(low(y))
    BY <1>2, <2>1, FS_Subset
  <2> QED
    BY <1>2, <2>2
<1> HIDE DEF low
<1>4. r \in Bijection(S, 1..n)
  <2>1. r \in [S -> 1..n]
    BY <1>1, <1>2
  <2>2. \A x, y \in S : r[x] = r[y] => x = y
    <3> SUFFICES ASSUME NEW x \in S, NEW y \in S, x # y PROVE r[x] # r[y]
      OBVIOUS
    <3>1. x < y \/ y < x
      OBVIOUS
    <3>2. Cardinality(low(x)) # Cardinality(low(y))
      BY <1>2, <1>3, <3>1
    <3> QED
      BY <1>2, <3>2
  <2>3. r \in Injection(S, 1..n)
    BY <2>1, <2>2 DEF Injection, IsInjective
  <2>4. IsFiniteSet(1..n) /\ Cardinality(1..n) = n
    BY <1>1, FS_Interval
  <2>5. r \in Surjection(S, 1..n)
    BY <2>3, <2>4, FS_Injection
  <2> QED
    BY <2>3, <2>5 DEF Bijection
<1>5. \A i \in 1..n : \E x \in S : r[x] = i
  BY <1>4 DEF Bijection, Surjection
<1> DEFINE f == [i \in 1..n |-> CHOOSE x \in S : r[x] = i]
<1>6. \A i \in 1..n : f[i] \in S /\ r[f[i]] = i
  BY <1>5
<1>7. \A i, j \in 1..n : i < j => f[i] < f[j]
  <2> SUFFICES ASSUME NEW i \in 1..n, NEW j \in 1..n, i < j PROVE f[i] < f[j]
    OBVIOUS
  <2>1. f[i] \in S /\ f[j] \in S /\ r[f[i]] = i /\ r[f[j]] = j
    BY <1>6
  <2> HIDE DEF f
  <2>2. Cardinality(low(f[i])) + 1 = i /\ Cardinality(low(f[j])) + 1 = j
    BY <2>1
  <2> DEFINE ci == Cardinality(low(f[i]))
             cj == Cardinality(low(f[j]))
  <2>3. ci \in Nat /\ cj \in Nat /\ ci + 1 = i /\ cj + 1 = j
    BY <1>2, <2>1, <2>2
  <2>4. ci < cj
    <3> HIDE DEF ci, cj
    <3> QED
      BY <2>3
  <2>5. f[i] # f[j]
    BY <2>3, <2>4
  <2>6. f[j] < f[i] => cj < ci
    BY <1>3, <2>1
  <2>7. ~(cj < ci)
    <3> HIDE DEF ci, cj
    <3> QED
      BY <2>3, <2>4
  <2>8. f[i] \in Int /\ f[j] \in Int
    BY <2>1
  <2>9. ~(f[j] < f[i])
    BY <2>6, <2>7, Zenon
  <2> QED
    BY <2>5, <2>8, <2>9
<1>8. f \in [1..n -> S] /\ DOMAIN f = 1..n
  BY <1>6
<1> HIDE DEF f
<1>9. \E g \in [1..n -> S] : \A i, j \in DOMAIN g : i < j => g[i] < g[j]
  BY <1>7, <1>8
<1>10. /\ Sorted(S) \in [1..n -> S]
       /\ \A i, j \in DOMAIN Sorted(S) : i < j => Sorted(S)[i] < Sorted(S)[j]
  BY <1>9 DEF Sorted
<1> QED
  BY <1>1, <1>10

\* Sorting lists the elements of the set.
LEMMA SortedLists ==
  ASSUME NEW S, IsFiniteSet(S), S \subseteq Int
  PROVE  Len(Sorted(S)) = Cardinality(S) /\ \A i \in 1..Cardinality(S) : Sorted(S)[i] \in S
<1>1. Sorted(S) \in [1..Cardinality(S) -> S] /\ Cardinality(S) \in Nat
  BY SortedIs
<1> QED
  BY <1>1

-----------------------------------------------------------------------------
(***************************************************************************)
(* The calls of CleanPath under way.                                       *)
(***************************************************************************)
JobKinds == {"job", "proc", "proc-lock", "lock", "endpoint"}
Kinds == JobKinds \cup {"caller", "app", "job-lock"}
Path == Kinds \X Int \X Int
FrameSet == [path : Path, todo : SUBSET Path]

\* What a run of singatool may touch: listing only the job it has come to, and
\* only singatool cleanup what is above the jobs.
Fits(c, t) ==
  /\ t.pc # "cleanup" => c[1] \in JobKinds
  /\ t.pc = "list" => c[2] = t.list[t.i]

FitsFrame(f, t) == f \in FrameSet /\ \A c \in f.todo : Fits(c, t)

StackOK(s, t) ==
  /\ s \in Seq(FrameSet)
  /\ \A f \in 1..Len(s) : FitsFrame(s[f], t) /\ (f < Len(s) => Fits(s[f].path, t))

ListOK(t) ==
  /\ t.i \in Nat \ {0}
  /\ t.list \in [1..Len(t.list) -> JobIds]
  /\ Len(t.list) \in Nat
  /\ \A i, j \in 1..Len(t.list) : i < j => t.list[i] < t.list[j]
  /\ \A j \in 1..Len(t.list) : t.i < j \/ (t.i = j /\ t.stack = << >>)
       => <<t.list[j], "job">> \in nodes
  /\ t.stack # << >> => /\ t.i - 1 + JobsNotRemoved < Len(t.list)
                        /\ t.i \in 1..Len(t.list)

\* The jobs the tool has not come to yet are still there, and when it removes one
\* there are enough of them.
ToolOK ==
  /\ tool = [pc |-> tool.pc, list |-> tool.list, i |-> tool.i, stack |-> tool.stack]
  /\ tool.pc \in {"idle", "list", "clean", "cleanup"}
  /\ StackOK(tool.stack, tool)
  /\ tool.pc = "list" => ListOK(tool)

LEMMA EmptyOK == \A t : StackOK(<< >>, t)
<1>1. << >> \in Seq(FrameSet) /\ Len(<< >>) = 0
  OBVIOUS
<1> QED
  BY <1>1 DEF StackOK

LEMMA IdleIs == Idle.pc = "idle" /\ Idle.stack = << >> /\ Idle.list = << >> /\ Idle.i = 0
BY DEF Idle

LEMMA IdleOK == ASSUME tool' = Idle PROVE ToolOK'
BY EmptyOK, IdleIs DEF ToolOK, Idle

\* What is below a path that fits fits, too.
LEMMA ChildrenFit ==
  ASSUME TypeOK, NEW c \in Path, NEW t, Fits(c, t)
  PROVE  FitsFrame(Frame(c, GetChild(c)), t)
<1>0. ASSUME NEW n \in Kinds, NEW i \in Int, NEW k \in Int
      PROVE  /\ <<n, i, k>> \in Path /\ <<n, i, k>>[1] = n /\ <<n, i, k>>[2] = i
             /\ (t.pc = "cleanup" => Fits(<<n, i, k>>, t))
             /\ (n \in JobKinds /\ i = c[2] => Fits(<<n, i, k>>, t))
  BY DEF Path, Fits
<1>01. c[2] \in Int /\ -1 \in Int
  BY DEF Path
<1>1. ASSUME NEW d \in GetChild(c) PROVE d \in Path /\ Fits(d, t)
  <2>1. CASE c[1] = "app"
    <3>1. t.pc = "cleanup" /\ t.pc # "list"
      BY <2>1 DEF Fits, JobKinds
    <3>2. PICK n \in nodes : d = JobPath(n[1])
      BY <1>1, <2>1 DEF GetChild
    <3>3. n[1] \in Int
      BY LaunchCount DEF TypeOK
    <3> QED
      BY <1>0, <1>01, <3>1, <3>2, <3>3 DEF JobPath, Kinds, JobKinds
  <2>2. CASE c[1] = "job"
    <3>1. PICK n \in {"proc", "proc-lock"} : d = <<n, c[2], -1>>
      BY <1>1, <2>2 DEF GetChild
    <3>2. n \in Kinds /\ n \in JobKinds
      BY DEF Kinds, JobKinds
    <3> QED
      BY <1>0, <1>01, <3>1, <3>2
  <2>3. CASE c[1] = "proc"
    <3>1. PICK e \in procs : d = <<"endpoint", c[2], e.id>>
      BY <1>1, <2>3 DEF GetChild
    <3>2. e.id \in Int
      BY NodeTypes
    <3> QED
      BY <1>0, <1>01, <3>1, <3>2 DEF Kinds, JobKinds
  <2>4. CASE c[1] = "proc-lock"
    <3>1. PICK k \in locks : d = <<"lock", c[2], k.seq>>
      BY <1>1, <2>4 DEF GetChild
    <3>2. k.seq \in Int
      BY NodeTypes
    <3> QED
      BY <1>0, <1>01, <3>1, <3>2 DEF Kinds, JobKinds
  <2>5. CASE c[1] \notin {"app", "job", "proc", "proc-lock"}
    BY <1>1, <2>5 DEF GetChild
  <2> QED
    BY <2>1, <2>2, <2>3, <2>4, <2>5
<1>2. GetChild(c) \in SUBSET Path
  BY <1>1
<1> QED
  BY <1>1, <1>2 DEF FitsFrame, Frame, FrameSet

LEMMA TailOK ==
  ASSUME NEW s, NEW t, StackOK(s, t), s # << >>
  PROVE  /\ StackOK(Tail(s), t) /\ FitsFrame(Head(s), t)
         /\ (Len(s) > 1 => Fits(Head(s).path, t))
<1>1. s \in Seq(FrameSet) /\ Len(s) \in Nat \ {0}
  BY DEF StackOK
<1>2. /\ Tail(s) \in Seq(FrameSet) /\ Len(Tail(s)) = Len(s) - 1 /\ Head(s) = s[1]
      /\ \A f \in 1..Len(s) - 1 : Tail(s)[f] = s[f + 1]
  BY <1>1
<1>3. ASSUME NEW f \in 1..Len(Tail(s))
      PROVE  FitsFrame(Tail(s)[f], t) /\ (f < Len(Tail(s)) => Fits(Tail(s)[f].path, t))
  <2>1. f + 1 \in 1..Len(s) /\ Tail(s)[f] = s[f + 1] /\ (f < Len(Tail(s)) => f + 1 < Len(s))
    BY <1>1, <1>2
  <2> QED
    BY <2>1 DEF StackOK
<1> QED
  BY <1>1, <1>2, <1>3 DEF StackOK

\* A new frame on top; the one below it then has a path that fits, or is the last.
LEMMA PushOK ==
  ASSUME NEW s, NEW t, StackOK(s, t), NEW f, FitsFrame(f, t), s # << >> => Fits(f.path, t)
  PROVE  StackOK(<<f>> \o s, t)
<1>1. s \in Seq(FrameSet) /\ Len(s) \in Nat /\ f \in FrameSet
  BY DEF StackOK, FitsFrame
<1>2. /\ <<f>> \o s \in Seq(FrameSet) /\ Len(<<f>> \o s) = Len(s) + 1 /\ (<<f>> \o s)[1] = f
      /\ \A g \in 2..Len(s) + 1 : (<<f>> \o s)[g] = s[g - 1]
  BY <1>1
<1> DEFINE r == <<f>> \o s
<1>3. ASSUME NEW g \in 1..Len(r)
      PROVE  FitsFrame(r[g], t) /\ (g < Len(r) => Fits(r[g].path, t))
  <2>1. CASE g = 1
    <3>1. 1 < Len(r) => s # << >>
      BY <1>1, <1>2
    <3> QED
      BY <1>2, <2>1, <3>1
  <2>2. CASE g # 1
    <3>1. g - 1 \in 1..Len(s) /\ r[g] = s[g - 1] /\ (g < Len(r) => g - 1 < Len(s))
      BY <1>1, <1>2, <2>2
    <3> QED
      BY <3>1 DEF StackOK
  <2> QED
    BY <2>1, <2>2
<1> QED
  BY <1>2, <1>3 DEF StackOK

LEMMA FirstIs == \A todo : First(todo) \subseteq todo
BY DEF First

\* The top frame with one child fewer.
LEMMA PopChildOK ==
  ASSUME NEW s, NEW t, StackOK(s, t), s # << >>, NEW c
  PROVE  StackOK(<<[Head(s) EXCEPT !.todo = @ \ {c}]>> \o Tail(s), t)
<1> DEFINE h == Head(s)
           f == [h EXCEPT !.todo = @ \ {c}]
<1>1. FitsFrame(h, t) /\ StackOK(Tail(s), t) /\ (Len(s) > 1 => Fits(h.path, t))
  BY TailOK
<1>2. h \in FrameSet
  BY <1>1 DEF FitsFrame
<1> HIDE DEF h
<1>3. f.path = h.path /\ f.todo = h.todo \ {c} /\ f \in FrameSet
  BY <1>2 DEF FrameSet
<1>4. FitsFrame(f, t)
  BY <1>1, <1>3 DEF FitsFrame
<1>5. Tail(s) # << >> => Len(s) > 1
  BY DEF StackOK
<1> HIDE DEF f
<1>6. StackOK(<<f>> \o Tail(s), t)
  BY <1>1, <1>3, <1>4, <1>5, PushOK
<1> QED
  BY <1>6 DEF f, h

-----------------------------------------------------------------------------
LEMMA ToolInit == Init => ToolOK
BY EmptyOK, IdleIs DEF Init, ToolOK, Idle

\* What fits depends on the job the tool is at, not on the calls under way.
LEMMA FitsSame ==
  ASSUME NEW s, NEW t, NEW u, StackOK(s, t), u.pc = t.pc, u.list = t.list, u.i = t.i
  PROVE  StackOK(s, u)
BY DEF StackOK, FitsFrame, Fits

\* The tool goes on while processes do: they only add nodes.
LEMMA ToolStays ==
  ASSUME ToolOK, nodes \subseteq nodes', tool' = tool
  PROVE  ToolOK'
BY DEF ToolOK, ListOK

LEMMA ToolWith ==
  ASSUME ToolOK, NEW s, tool' = [tool EXCEPT !.stack = s]
  PROVE  /\ tool' = [pc |-> tool.pc, list |-> tool.list, i |-> tool.i, stack |-> s]
         /\ tool'.pc = tool.pc /\ tool'.list = tool.list /\ tool'.i = tool.i /\ tool'.stack = s
<1>1. tool' = [pc |-> tool.pc, list |-> tool.list, i |-> tool.i, stack |-> s]
  BY DEF ToolOK
<1> QED
  BY <1>1

\* Another call, or one fewer: nothing but a node of the job it is at may go.
LEMMA StackStep ==
  ASSUME Inv, ToolOK, NEW s, StackOK(s, tool), s # << >>, tool.stack # << >>,
         tool' = [tool EXCEPT !.stack = s],
         \A n \in nodes \ nodes' : tool.pc = "list" => n[1] = tool.list[tool.i]
  PROVE  ToolOK'
<1>1. /\ tool' = [pc |-> tool.pc, list |-> tool.list, i |-> tool.i, stack |-> s]
      /\ tool'.pc = tool.pc /\ tool'.list = tool.list /\ tool'.i = tool.i /\ tool'.stack = s
  BY ToolWith
<1>2. StackOK(s, tool')
  BY <1>1, FitsSame
<1>3. ASSUME tool.pc = "list" PROVE ListOK(tool)'
  <2>1. ListOK(tool)
    BY <1>3 DEF ToolOK
  <2>2. \A j \in 1..Len(tool.list) : tool.i < j => tool.list[j] # tool.list[tool.i]
    BY <2>1, LaunchCount DEF ListOK
  <2>3. \A j \in 1..Len(tool.list) : tool.i < j => <<tool.list[j], "job">> \in nodes'
    <3> SUFFICES ASSUME NEW j \in 1..Len(tool.list), tool.i < j PROVE <<tool.list[j], "job">> \in nodes'
      OBVIOUS
    <3>1. <<tool.list[j], "job">> \in nodes /\ <<tool.list[j], "job">>[1] = tool.list[j]
      BY <2>1 DEF ListOK
    <3> QED
      BY <1>3, <2>2, <3>1
  <2> QED
    BY <1>1, <2>1, <2>3 DEF ListOK
<1> QED
  BY <1>1, <1>2, <1>3 DEF ToolOK

LEMMA ReturnOK ==
  ASSUME Inv, ToolOK, NEW s, StackOK(s, tool), s # << >>, tool.stack # << >>, Return(s),
         \A n \in nodes \ nodes' : tool.pc = "list" => n[1] = tool.list[tool.i]
  PROVE  ToolOK'
<1>1. CASE tool' = [tool EXCEPT !.stack = s]
  BY <1>1, StackStep
<1>2. CASE tool' = Idle
  BY <1>2, IdleOK
<1>3. CASE tool.pc = "list" /\ tool' = [tool EXCEPT !.i = @ + 1, !.stack = << >>]
  <2>1. tool' = [pc |-> "list", list |-> tool.list, i |-> tool.i + 1, stack |-> << >>]
    BY <1>3 DEF ToolOK
  <2>2. tool'.pc = "list" /\ tool'.list = tool.list /\ tool'.i = tool.i + 1 /\ tool'.stack = << >>
    BY <2>1
  <2>3. ListOK(tool)
    BY <1>3 DEF ToolOK
  <2>4. \A j \in 1..Len(tool.list) : tool.i < j => tool.list[j] # tool.list[tool.i]
    <3>1. PICK f, i, n : f = tool.list /\ i = tool.i /\ n = Len(tool.list)
      OBVIOUS
    <3>2. /\ i \in Nat \ {0} /\ n \in Nat /\ f \in [1..n -> JobIds]
          /\ \A a, b \in 1..n : a < b => f[a] < f[b]
      BY <2>3, <3>1 DEF ListOK
    <3>3. ASSUME NEW j \in 1..n, i < j PROVE f[j] # f[i]
      <4>1. i \in 1..n
        BY <3>2, <3>3
      <4>2. f[i] < f[j] /\ f[i] \in JobIds /\ f[j] \in JobIds
        BY <3>2, <3>3, <4>1
      <4>3. f[i] \in Int /\ f[j] \in Int
        BY <4>2, LaunchCount
      <4> QED
        BY <4>2, <4>3
    <3> QED
      BY <3>1, <3>3
  <2>5. \A j \in 1..Len(tool.list) : tool.i < j => <<tool.list[j], "job">> \in nodes'
    <3> SUFFICES ASSUME NEW j \in 1..Len(tool.list), tool.i < j PROVE <<tool.list[j], "job">> \in nodes'
      OBVIOUS
    <3>1. <<tool.list[j], "job">> \in nodes /\ <<tool.list[j], "job">>[1] = tool.list[j]
      BY <2>3 DEF ListOK
    <3> QED
      BY <1>3, <2>4, <3>1
  <2>6. ListOK(tool)'
    BY <2>2, <2>3, <2>5 DEF ListOK
  <2> QED
    BY <2>1, <2>2, <2>6, EmptyOK DEF ToolOK
<1> QED
  BY <1>1, <1>2, <1>3 DEF Return

\* What singatool removes in a step fits.
LEMMA RemovesWhatFits ==
  ASSUME ToolOK, CleanLeaf \/ DeleteNode, ~(ToolDies /\ UNCHANGED <<zkVars, disturbed, old>>)
  PROVE  \E path \in Path, s \in Seq(FrameSet) :
           /\ Fits(path, tool) /\ Remove(path) /\ Return(s)
           /\ StackOK(s, tool) /\ s # << >> /\ tool.stack # << >>
<1>0. tool.stack \in Seq(FrameSet) /\ StackOK(tool.stack, tool)
  BY DEF ToolOK, StackOK
<1>1. CASE CleanLeaf
  <2> DEFINE top == Head(tool.stack)
  <2>1. PICK c \in First(top.todo) :
          /\ tool.stack # << >> /\ Remove(c)
          /\ Return(<<[top EXCEPT !.todo = @ \ {c}]>> \o Tail(tool.stack))
    BY <1>1 DEF CleanLeaf
  <2> DEFINE s == <<[top EXCEPT !.todo = @ \ {c}]>> \o Tail(tool.stack)
  <2>2. StackOK(s, tool)
    BY <1>0, <2>1, PopChildOK
  <2>3. FitsFrame(top, tool)
    BY <1>0, <2>1, TailOK
  <2>4. c \in top.todo
    BY <2>1, FirstIs
  <2>5. c \in Path /\ Fits(c, tool)
    BY <2>3, <2>4 DEF FitsFrame, FrameSet
  <2>6. s # << >>
    <3>1. Tail(tool.stack) \in Seq(FrameSet) /\ top \in FrameSet
      BY <1>0, <2>1, <2>3 DEF FitsFrame
    <3>2. Len(s) = Len(Tail(tool.stack)) + 1 /\ Len(Tail(tool.stack)) \in Nat
      BY <3>1
    <3> QED
      BY <3>2
  <2> HIDE DEF s
  <2>7. Return(s)
    BY <2>1 DEF s
  <2>8. s \in Seq(FrameSet)
    BY <2>2 DEF StackOK
  <2> QED
    BY <2>1, <2>2, <2>5, <2>6, <2>7, <2>8
<1>2. CASE DeleteNode
  <2>1. /\ Len(tool.stack) > 1 /\ Remove(Head(tool.stack).path) /\ Return(Tail(tool.stack))
    BY <1>2 DEF DeleteNode
  <2>2. tool.stack # << >> /\ Tail(tool.stack) # << >>
    <3>1. PICK k : k = tool.stack
      OBVIOUS
    <3>2. k \in Seq(FrameSet) /\ Len(k) > 1
      BY <1>0, <2>1, <3>1
    <3>3. Len(k) \in Nat /\ k # << >>
      BY <3>2
    <3>4. Len(Tail(k)) = Len(k) - 1
      BY <3>2, <3>3
    <3>5. Len(Tail(k)) # 0
      BY <3>2, <3>3, <3>4
    <3>6. Tail(k) # << >>
      <4>1. Len(<< >>) = 0
        OBVIOUS
      <4> QED
        BY <3>5, <4>1
    <3> QED
      BY <3>1, <3>3, <3>6
  <2>3. StackOK(Tail(tool.stack), tool) /\ Fits(Head(tool.stack).path, tool) /\ FitsFrame(Head(tool.stack), tool)
    BY <1>0, <2>1, <2>2, TailOK
  <2>4. Head(tool.stack).path \in Path
    BY <2>3 DEF FitsFrame, FrameSet
  <2>5. Tail(tool.stack) \in Seq(FrameSet)
    BY <2>3 DEF StackOK
  <2> QED
    BY <2>1, <2>2, <2>3, <2>4, <2>5
<1> QED
  BY <1>1, <1>2

LEMMA RemovedFits ==
  ASSUME NEW path \in Path, Fits(path, tool), Remove(path)
  PROVE  \A n \in nodes \ nodes' : tool.pc = "list" => n[1] = tool.list[tool.i]
<1>1. \A n \in nodes \ nodes' : n = <<path[2], path[1]>>
  BY DEF Remove
<1> QED
  BY <1>1 DEF Fits

LEMMA ToolNext ==
  ASSUME Inv, ToolOK, [Next]_vars
  PROVE  ToolOK'
<1>1. ASSUME NEW l \in Launch, GenerateJobID(l) PROVE ToolOK'
  BY <1>1, ToolStays DEF GenerateJobID
<1>2. ASSUME NEW p \in Process, StartProcess(p) \/ ProcessStep(p) \/ Crash(p) \/ Expire(p) PROVE ToolOK'
  <2>1. nodes \subseteq nodes' /\ tool' = tool
    BY <1>2 DEF StartProcess, ProcessStep, Crash, Expire, CreateNode, CreateLock, ReadLocks, Publish,
       GiveUp, zkVars
  <2> QED
    BY <2>1, ToolStays
<1>3. CASE ListJobs
  <2> DEFINE S == {n[1] : n \in {m \in nodes : m[2] = "job"}}
  <2>1. S \subseteq JobIds
    BY DEF Inv, TypeOK
  <2>2. IsFiniteSet(JobIds) /\ JobIds \subseteq Int
    BY LaunchCount, FS_Interval DEF JobIds
  <2>3. IsFiniteSet(S) /\ S \subseteq Int
    BY <2>1, <2>2, FS_Subset
  <2>4. \A x \in S : <<x, "job">> \in nodes
    BY DEF Inv, TypeOK
  <2>5. tool' = [pc |-> "list", i |-> 1, stack |-> << >>, list |-> Sorted(S)] /\ nodes' = nodes
    BY <1>3 DEF ListJobs, zkVars
  <2> HIDE DEF S
  <2>6. /\ Cardinality(S) \in Nat /\ Sorted(S) \in [1..Cardinality(S) -> S]
        /\ \A i, j \in 1..Cardinality(S) : i < j => Sorted(S)[i] < Sorted(S)[j]
        /\ Len(Sorted(S)) = Cardinality(S)
        /\ \A i \in 1..Cardinality(S) : Sorted(S)[i] \in S
    BY <2>3, SortedIs, SortedLists
  <2>7. tool'.pc = "list" /\ tool'.i = 1 /\ tool'.list = Sorted(S) /\ tool'.stack = << >>
    BY <2>5
  <2>8. Sorted(S) \in [1..Cardinality(S) -> JobIds]
    BY <2>1, <2>6
  <2>9. ListOK(tool)'
    BY <2>4, <2>5, <2>6, <2>7, <2>8 DEF ListOK
  <2> QED
    BY <2>5, <2>7, <2>9, EmptyOK DEF ToolOK
<1>4. CASE ListNext
  <2>1. tool.pc = "list" /\ tool.stack = << >> /\ nodes' = nodes /\ ListOK(tool)
    BY <1>4 DEF ListNext, zkVars, ToolOK
  <2> DEFINE id == tool.list[tool.i]
             s == <<Frame(Caller, {JobPath(id)})>>
  <2>2. CASE tool' = Idle
    BY <2>2, IdleOK
  <2>3. CASE MayRemove /\ ~(tool.i > Len(tool.list)) /\ tool' = [tool EXCEPT !.stack = s]
    <3>1. tool.i \in 1..Len(tool.list)
      BY <2>1, <2>3 DEF ListOK
    <3>2. /\ tool' = [pc |-> tool.pc, list |-> tool.list, i |-> tool.i, stack |-> s]
          /\ tool'.pc = tool.pc /\ tool'.list = tool.list /\ tool'.i = tool.i /\ tool'.stack = s
      BY <2>3, ToolWith
    <3>3. id \in Int
      BY <2>1, <3>1, LaunchCount DEF ListOK
    <3>4. FitsFrame(Frame(Caller, {JobPath(id)}), tool)
      <4>1. JobPath(id) \in Path /\ Caller \in Path
        BY <3>3 DEF Path, JobPath, Caller, Kinds, JobKinds
      <4>2. Fits(JobPath(id), tool)
        BY DEF Fits, JobPath, JobKinds
      <4> QED
        BY <4>1, <4>2 DEF FitsFrame, Frame, FrameSet
    <3>5. StackOK(s, tool)
      <4> DEFINE f == Frame(Caller, {JobPath(id)})
      <4>1. f \in FrameSet /\ FitsFrame(f, tool)
        BY <3>4 DEF FitsFrame
      <4> HIDE DEF f
      <4>2. <<f>> \in Seq(FrameSet) /\ Len(<<f>>) = 1 /\ <<f>>[1] = f
        BY <4>1
      <4>3. StackOK(<<f>>, tool)
        BY <4>1, <4>2 DEF StackOK
      <4> QED
        BY <4>3 DEF f
    <3>6. s # << >>
      OBVIOUS
    <3> HIDE DEF s
    <3>7. StackOK(s, tool')
      BY <3>2, <3>5, FitsSame
    <3>8. ListOK(tool)'
      BY <2>1, <2>3, <3>1, <3>2, <3>6 DEF ListOK, MayRemove
    <3> QED
      BY <2>1, <3>2, <3>7, <3>8 DEF ToolOK
  <2>4. CASE tool' = [tool EXCEPT !.i = @ + 1]
    <3>1. tool' = [pc |-> "list", list |-> tool.list, i |-> tool.i + 1, stack |-> << >>]
      BY <2>1, <2>4 DEF ToolOK
    <3>2. tool'.pc = "list" /\ tool'.i = tool.i + 1 /\ tool'.list = tool.list /\ tool'.stack = << >>
      BY <3>1
    <3>3. ListOK(tool)'
      BY <2>1, <3>2 DEF ListOK
    <3> QED
      BY <3>1, <3>2, <3>3, EmptyOK DEF ToolOK
  <2> QED
    BY <1>4, <2>2, <2>3, <2>4 DEF ListNext
<1>5. CASE CleanPath
  <2> DEFINE top == Head(tool.stack)
  <2>1. nodes' = nodes /\ tool.stack # << >> /\ tool.stack \in Seq(FrameSet) /\ StackOK(tool.stack, tool)
    BY <1>5 DEF CleanPath, zkVars, ToolOK, StackOK
  <2>2. PICK c \in First(top.todo) :
          \/ tool' = Idle
          \/ tool' = [tool EXCEPT !.stack = <<Frame(c, GetChild(c)),
                                             [top EXCEPT !.todo = @ \ {c}]>> \o Tail(@)]
    BY <1>5 DEF CleanPath, ToolDies
  <2> DEFINE g == [top EXCEPT !.todo = @ \ {c}]
             f == Frame(c, GetChild(c))
             r == <<g>> \o Tail(tool.stack)
  <2>3. CASE tool' = Idle
    BY <2>3, IdleOK
  <2>4. CASE tool' = [tool EXCEPT !.stack = <<f, g>> \o Tail(@)]
    <3>1. StackOK(r, tool)
      BY <2>1, PopChildOK
    <3>2. FitsFrame(top, tool) /\ c \in top.todo
      BY <2>1, FirstIs, TailOK
    <3>3. c \in Path /\ Fits(c, tool)
      BY <3>2 DEF FitsFrame, FrameSet
    <3>4. FitsFrame(f, tool)
      BY <3>3, ChildrenFit DEF Inv
    <3>5. f.path = c
      BY DEF Frame
    <3>6. Tail(tool.stack) \in Seq(FrameSet) /\ g \in FrameSet /\ f \in FrameSet
      BY <2>1, <3>2, <3>4 DEF FitsFrame, FrameSet
    <3> HIDE DEF f, g
    <3>7. <<f, g>> \o Tail(tool.stack) = <<f>> \o r
      BY <3>6 DEF r
    <3> HIDE DEF r
    <3>8. StackOK(<<f>> \o r, tool)
      BY <3>1, <3>3, <3>4, <3>5, PushOK
    <3>9. <<f>> \o r # << >>
      <4>1. r \in Seq(FrameSet)
        BY <3>1 DEF StackOK
      <4>2. Len(<<f>> \o r) = Len(r) + 1 /\ Len(r) \in Nat
        BY <3>6, <4>1
      <4> QED
        BY <4>2
    <3> QED
      BY <2>1, <2>4, <3>7, <3>8, <3>9, StackStep
  <2> QED
    BY <2>2, <2>3, <2>4
<1>6. CASE CleanLeaf \/ DeleteNode
  <2>1. CASE ToolDies
    BY <2>1, IdleOK DEF ToolDies
  <2>2. CASE ~(ToolDies /\ UNCHANGED <<zkVars, disturbed, old>>)
    <3>1. PICK path \in Path, s \in Seq(FrameSet) :
            /\ Fits(path, tool) /\ Remove(path) /\ Return(s)
            /\ StackOK(s, tool) /\ s # << >> /\ tool.stack # << >>
      BY <1>6, <2>2, RemovesWhatFits
    <3>2. \A n \in nodes \ nodes' : tool.pc = "list" => n[1] = tool.list[tool.i]
      BY <3>1, RemovedFits
    <3> QED
      BY <3>1, <3>2, ReturnOK
  <2> QED
    BY <2>1, <2>2
<1>7. ASSUME NEW l \in Launch, Clean(l) PROVE ToolOK'
  <2> DEFINE C == GetChild(<<"proc", jobId[l], -1>>)
             f == Frame(Caller, C)
  <2>1. tool' = [Idle EXCEPT !.pc = "clean", !.stack = <<f>>] /\ jobId[l] # -1
    BY <1>7 DEF Clean
  <2>2. tool' = [pc |-> "clean", list |-> << >>, i |-> 0, stack |-> <<f>>]
    BY <2>1 DEF Idle
  <2>3. tool'.pc = "clean" /\ tool'.stack = <<f>>
    BY <2>2
  <2>4. <<"proc", jobId[l], -1>> \in Path /\ Fits(<<"proc", jobId[l], -1>>, tool')
    <3>1. jobId[l] \in Int
      BY <2>1, LaunchCount DEF Inv, TypeOK
    <3> QED
      BY <2>3, <3>1 DEF Path, Kinds, JobKinds, Fits
  <2>5. FitsFrame(Frame(<<"proc", jobId[l], -1>>, C), tool')
    BY <2>4, ChildrenFit DEF Inv
  <2>6. C \in SUBSET Path /\ \A d \in C : Fits(d, tool')
    BY <2>5 DEF FitsFrame, Frame, FrameSet
  <2> HIDE DEF C
  <2>7. Caller \in Path
    BY DEF Path, Caller, Kinds
  <2>8. f \in FrameSet /\ FitsFrame(f, tool')
    BY <2>6, <2>7 DEF FitsFrame, Frame, FrameSet
  <2> HIDE DEF f
  <2>9. <<f>> \in Seq(FrameSet) /\ Len(<<f>>) = 1 /\ <<f>>[1] = f
    BY <2>8
  <2>10. StackOK(<<f>>, tool')
    BY <2>8, <2>9 DEF StackOK
  <2> QED
    BY <2>2, <2>3, <2>10 DEF ToolOK
<1>8. CASE Cleanup
  <2> DEFINE f == Frame(Caller, {App, JobLock})
  <2>1. tool' = [Idle EXCEPT !.pc = "cleanup", !.stack = <<f>>]
    BY <1>8 DEF Cleanup
  <2>2. tool' = [pc |-> "cleanup", list |-> << >>, i |-> 0, stack |-> <<f>>]
    BY <2>1 DEF Idle
  <2>3. tool'.pc = "cleanup" /\ tool'.stack = <<f>>
    BY <2>2
  <2>4. Caller \in Path /\ App \in Path /\ JobLock \in Path
    BY DEF Path, Caller, App, JobLock, Kinds
  <2>5. f \in FrameSet /\ FitsFrame(f, tool')
    BY <2>3, <2>4 DEF FitsFrame, Frame, FrameSet, Fits
  <2> HIDE DEF f
  <2>6. <<f>> \in Seq(FrameSet) /\ Len(<<f>>) = 1 /\ <<f>>[1] = f
    BY <2>5
  <2>7. StackOK(<<f>>, tool')
    BY <2>5, <2>6 DEF StackOK
  <2> QED
    BY <2>2, <2>3, <2>7 DEF ToolOK
<1>9. CASE KillHost
  BY <1>9, IdleOK, ToolStays DEF KillHost, zkVars
<1>10. CASE UNCHANGED vars
  BY <1>10, ToolStays DEF vars, zkVars
<1> QED
  BY <1>1, <1>2, <1>3, <1>4, <1>5, <1>6, <1>7, <1>8, <1>9, <1>10 DEF Next, ToolStep

\* As many newer jobs as the tool keeps are still there when it removes one.
LEMMA NewerJobs ==
  ASSUME Inv, ToolOK, tool.pc = "list", tool.stack # << >>
  PROVE  Cardinality({m \in nodes : m[2] = "job" /\ m[1] > tool.list[tool.i]}) >= JobsNotRemoved
<1> DEFINE n == Len(tool.list)
           id == tool.list[tool.i]
           Newer == {m \in nodes : m[2] = "job" /\ m[1] > id}
           f == [j \in (tool.i + 1)..n |-> <<tool.list[j], "job">>]
<1>1. /\ tool.i \in 1..n /\ n \in Nat /\ tool.list \in [1..n -> JobIds]
      /\ \A i, j \in 1..n : i < j => tool.list[i] < tool.list[j]
      /\ \A j \in 1..n : tool.i < j => <<tool.list[j], "job">> \in nodes
      /\ tool.i - 1 + JobsNotRemoved < n
  BY DEF ToolOK, ListOK, MayRemove
<1>2. JobsNotRemoved \in Nat
  BY RegistryAssumption
<1> HIDE DEF n
<1>3. f \in Injection((tool.i + 1)..n, Newer)
  <2>1. ASSUME NEW j \in (tool.i + 1)..n PROVE <<tool.list[j], "job">> \in Newer
    <3>1. j \in 1..n /\ tool.i < j
      BY <1>1
    <3>2. tool.list[j] > id
      BY <1>1, <3>1, LaunchCount
    <3> QED
      BY <1>1, <3>1, <3>2
  <2>2. ASSUME NEW i \in (tool.i + 1)..n, NEW j \in (tool.i + 1)..n, i # j
        PROVE  tool.list[i] # tool.list[j]
    <3>1. i \in 1..n /\ j \in 1..n /\ (i < j \/ j < i)
      BY <1>1, <2>2
    <3>2. tool.list[i] \in JobIds /\ tool.list[j] \in JobIds
      BY <1>1, <3>1
    <3> QED
      BY <1>1, <3>1, <3>2, LaunchCount
  <2> HIDE DEF Newer
  <2>3. f \in [(tool.i + 1)..n -> Newer]
    BY <2>1
  <2>4. \A i, j \in (tool.i + 1)..n : f[i] = f[j] => i = j
    BY <2>2
  <2> QED
    BY <2>3, <2>4 DEF Injection, IsInjective
<1>4. IsFiniteSet(Newer)
  <2>1. IsFiniteSet(JobIds)
    BY LaunchCount, FS_Interval DEF JobIds
  <2>2. IsFiniteSet(NodeName)
    <3>1. IsFiniteSet({"job"}) /\ IsFiniteSet({"proc"}) /\ IsFiniteSet({"proc-lock"})
      BY FS_Singleton
    <3>2. NodeName = ({"job"} \cup {"proc"}) \cup {"proc-lock"}
      BY DEF NodeName
    <3>3. IsFiniteSet({"job"} \cup {"proc"})
      BY <3>1, FS_Union
    <3> QED
      BY <3>1, <3>2, <3>3, FS_Union
  <2>3. IsFiniteSet(JobIds \X NodeName)
    BY <2>1, <2>2, FS_Product
  <2>4. Newer \subseteq JobIds \X NodeName
    BY DEF Inv, TypeOK
  <2> QED
    BY <2>3, <2>4, FS_Subset
<1> HIDE DEF Newer, f
<1>5. Cardinality((tool.i + 1)..n) <= Cardinality(Newer)
  BY <1>3, <1>4, FS_Injection
<1>6. Cardinality((tool.i + 1)..n) = n - tool.i
  <2>1. tool.i + 1 \in Int /\ n \in Int /\ n >= tool.i
    BY <1>1
  <2>2. Cardinality((tool.i + 1)..n) = IF tool.i + 1 > n THEN 0 ELSE n - (tool.i + 1) + 1
    BY <2>1, FS_Interval
  <2> QED
    BY <1>1, <2>1, <2>2
<1>7. Cardinality(Newer) \in Nat
  BY <1>4, FS_CardinalityType
<1> QED
  BY <1>1, <1>2, <1>5, <1>6, <1>7 DEF Newer

\* For any launches and number of jobs to keep: listing removes no node of a job
\* with fewer than kJobsNotRemoved newer ones, however many launches, crashes and
\* removals happened since the list was read (JobManager::ListJobs).
THEOREM RegistryRecentStay == Spec => RecentJobsStay
<1> DEFINE Stay == \A n \in nodes \ nodes' :
                     tool.pc = "list" => Cardinality({m \in nodes : m[2] = "job" /\ m[1] > n[1]})
                                           >= JobsNotRemoved
<1>1. Spec => Init /\ [][Next]_vars
  BY PTL DEF Spec
<1>2. ToolOK /\ Inv /\ [Next]_vars => ToolOK'
  BY ToolNext
<1>3. Inv /\ ToolOK /\ [Next]_vars => [Stay]_vars
  <2> SUFFICES ASSUME Inv, ToolOK, Next, NEW n \in nodes \ nodes', tool.pc = "list"
      PROVE  Cardinality({m \in nodes : m[2] = "job" /\ m[1] > n[1]}) >= JobsNotRemoved
    OBVIOUS
  <2>1. tool.stack # << >> /\ n[1] = tool.list[tool.i]
    <3>1. CASE CleanLeaf \/ DeleteNode
      <4>1. ~(ToolDies /\ UNCHANGED <<zkVars, disturbed, old>>)
        BY DEF zkVars
      <4>2. PICK path \in Path, s \in Seq(FrameSet) :
            /\ Fits(path, tool) /\ Remove(path) /\ Return(s)
            /\ StackOK(s, tool) /\ s # << >> /\ tool.stack # << >>
        BY <3>1, <4>1, RemovesWhatFits
      <4> QED
        BY <4>2, RemovedFits
    <3>2. CASE ListJobs \/ ListNext \/ CleanPath \/ KillHost \/ Cleanup
      BY <3>2 DEF ListJobs, ListNext, CleanPath, KillHost, Cleanup, zkVars
    <3>3. CASE \E l \in Launch : GenerateJobID(l) \/ Clean(l)
      BY <3>3 DEF GenerateJobID, Clean, zkVars
    <3>4. ASSUME NEW p \in Process, StartProcess(p) \/ ProcessStep(p) \/ Crash(p) \/ Expire(p) PROVE FALSE
      BY <3>4 DEF StartProcess, ProcessStep, Crash, Expire, CreateNode, CreateLock, ReadLocks, Publish,
         GiveUp, zkVars
    <3> QED
      BY <3>1, <3>2, <3>3, <3>4 DEF Next, ToolStep
  <2> QED
    BY <2>1, NewerJobs
<1> QED
  BY <1>1, <1>2, <1>3, ToolInit, RegistryInv, PTL DEF RecentJobsStay

-----------------------------------------------------------------------------
(***************************************************************************)
(* Job ids across singa-stop.sh.                                           *)
(***************************************************************************)
\* Ids given out since the counter was reset differ; what lives although its host
\* was killed, or although its id is from before a reset, was started late.
StopOK ==
  /\ stop \in 0..nhosts
  /\ tool.pc = "cleanup" => stop = nhosts
  /\ \A l \in old : jobId[l] # -1
  /\ \A l \in Launch : l \notin old => jobId[l] < jobSeq
  /\ \A l, m \in Launch : l \notin old /\ m \notin old /\ l # m /\ jobId[l] # -1 => jobId[l] # jobId[m]
  /\ \A p \in Process : Live(p) /\ (p[1] \in old \/ p[2] <= stop) => p \in late

LEMMA HostIs == \A p \in Process : p[2] \in Int /\ 1 <= p[2] /\ p[2] <= nhosts
<1> SUFFICES ASSUME NEW p \in Process PROVE p[2] \in Int /\ 1 <= p[2] /\ p[2] <= nhosts
  OBVIOUS
<1>1. PICK l \in Launch : p \in {l} \X (1..nprocs[l])
  BY DEF Process
<1>2. nprocs[l] \in Nat /\ nprocs[l] <= nhosts /\ nhosts \in Nat /\ p[2] \in 1..nprocs[l]
  BY <1>1, RegistryAssumption
<1> QED
  BY <1>2

LEMMA StopInit == Init => StopOK
<1> SUFFICES ASSUME Init PROVE StopOK
  OBVIOUS
<1>1. nhosts \in Nat
  BY RegistryAssumption
<1> QED
  BY <1>1, IdleIs DEF Init, StopOK, Live

\* Nobody comes and no id is given out or forgotten; a stop may end.
LEMMA StopStays ==
  ASSUME StopOK, jobId' = jobId, jobSeq' = jobSeq, old' = old, late \subseteq late',
         stop' \in {stop, 0}, tool'.pc = "cleanup" => tool.pc = "cleanup" /\ stop' = stop,
         \A p \in Process : Live(p)' => Live(p) \/ p \in late' \/ ~(p[1] \in old \/ p[2] <= stop)
  PROVE  StopOK'
<1>1. nhosts \in Nat /\ stop \in 0..nhosts
  BY RegistryAssumption DEF StopOK
<1>2. ASSUME NEW p \in Process, Live(p)', p[1] \in old \/ p[2] <= stop' PROVE p \in late'
  <2>1. p[1] \in old \/ p[2] <= stop
    BY <1>1, <1>2, HostIs
  <2> QED
    BY <1>2, <2>1 DEF StopOK
<1>3. stop' \in 0..nhosts
  BY <1>1
<1> QED
  BY <1>2, <1>3 DEF StopOK

LEMMA StopNext ==
  ASSUME Inv, ToolOK, StopOK, [Next]_vars
  PROVE  StopOK'
<1>0. nhosts \in Nat /\ stop \in 0..nhosts /\ jobSeq \in Nat /\ \A l \in Launch : jobId[l] \in Int
  BY RegistryAssumption, LaunchCount DEF StopOK, Inv, TypeOK
<1>1. ASSUME NEW l \in Launch, GenerateJobID(l) PROVE StopOK'
  <2>1. /\ jobId[l] = -1 /\ jobId' = [jobId EXCEPT ![l] = jobSeq] /\ jobSeq' = jobSeq + 1
        /\ pc' = pc /\ tool' = tool /\ stop' = stop /\ old' = old /\ late' = late
    BY <1>1 DEF GenerateJobID, NextJobId
  <2>2. \A m \in Launch : jobId'[m] = IF m = l THEN jobSeq ELSE jobId[m]
    BY <2>1 DEF Inv, TypeOK
  <2>3. \A m \in old : jobId'[m] # -1
    BY <1>0, <2>1 DEF StopOK, Inv, TypeOK
  <2>4. \A m \in Launch : m \notin old => jobId'[m] < jobSeq'
    BY <1>0, <2>1, <2>2 DEF StopOK
  <2>5. \A m \in Launch : m \notin old /\ m # l => jobId'[m] # jobSeq
    BY <1>0, <2>2 DEF StopOK
  <2>6. \A k, m \in Launch : k \notin old /\ m \notin old /\ k # m /\ jobId'[k] # -1 => jobId'[k] # jobId'[m]
    BY <2>2, <2>5 DEF StopOK
  <2>7. \A p \in Process : Live(p)' <=> Live(p)
    BY <2>1 DEF Live
  <2> QED
    BY <2>1, <2>3, <2>4, <2>6, <2>7 DEF StopOK
<1>2. ASSUME NEW p \in Process, StartProcess(p) PROVE StopOK'
  <2>1. /\ jobId' = jobId /\ jobSeq' = jobSeq /\ old' = old /\ stop' = stop /\ tool' = tool
        /\ pc' = [pc EXCEPT ![p] = "job"]
        /\ late' = IF p[2] <= stop \/ p[1] \in old THEN late \cup {p} ELSE late
    BY <1>2 DEF StartProcess, Goto, zkVars
  <2>2. \A q \in Process : Live(q)' => Live(q) \/ q = p
    BY <2>1 DEF Live, Inv, TypeOK
  <2> QED
    BY <2>1, <2>2, StopStays
<1>3. ASSUME NEW p \in Process, ProcessStep(p) \/ Crash(p) \/ Expire(p) PROVE StopOK'
  <2>1. /\ jobId' = jobId /\ jobSeq' = jobSeq /\ old' = old /\ stop' = stop /\ tool' = tool /\ late' = late
    BY <1>3 DEF ProcessStep, Crash, Expire, CreateNode, CreateLock, ReadLocks, Publish, GiveUp,
       zkVars, histVars
  <2>2. Live(p) \/ pc' = [pc EXCEPT ![p] = "gone"]
    BY <1>3 DEF ProcessStep, Crash, Expire, CreateNode, CreateLock, ReadLocks, Publish, GiveUp,
       ParentMissing, Live, Goto
  <2>3. \A q \in Process : q # p => pc'[q] = pc[q]
    BY <1>3 DEF ProcessStep, Crash, Expire, CreateNode, CreateLock, ReadLocks, Publish, GiveUp, Goto,
       Inv, TypeOK
  <2>4. \A q \in Process : Live(q)' => Live(q)
    BY <2>2, <2>3 DEF Live, Inv, TypeOK
  <2> QED
    BY <2>1, <2>4, StopStays
<1>4. CASE ListJobs \/ ListNext \/ CleanPath \/ \E l \in Launch : Clean(l)
  <2>1. jobId' = jobId /\ jobSeq' = jobSeq /\ old' = old /\ late' = late /\ pc' = pc
    BY <1>4 DEF ListJobs, ListNext, CleanPath, Clean, zkVars, procVars, histVars
  <2>2. stop' \in {stop, 0} /\ (tool'.pc = "cleanup" => tool.pc = "cleanup" /\ stop' = stop)
    <3>1. CASE ListJobs
      BY <3>1 DEF ListJobs
    <3>2. CASE ListNext
      <4>1. \A s : [tool EXCEPT !.stack = s].pc = tool.pc
        BY DEF ToolOK
      <4>2. [tool EXCEPT !.i = @ + 1].pc = tool.pc
        BY DEF ToolOK
      <4> QED
        BY <3>2, <4>1, <4>2, IdleIs DEF ListNext
    <3>3. CASE CleanPath
      <4>1. \A s : [tool EXCEPT !.stack = s].pc = tool.pc
        BY DEF ToolOK
      <4>2. (tool' = Idle /\ stop' \in {stop, 0}) \/ (stop' = stop /\ \E s : tool' = [tool EXCEPT !.stack = s])
        BY <3>3 DEF CleanPath, ToolDies
      <4> QED
        BY <4>1, <4>2, IdleIs
    <3>4. ASSUME NEW l \in Launch, Clean(l) PROVE stop' = stop /\ tool'.pc = "clean"
      BY <3>4 DEF Clean, Idle
    <3> QED
      BY <1>4, <3>1, <3>2, <3>3, <3>4
  <2> QED
    BY <2>1, <2>2, StopStays DEF Live
<1>5. CASE CleanLeaf \/ DeleteNode
  <2>0. late' = late /\ jobId' = jobId /\ pc' = pc
    BY <1>5 DEF CleanLeaf, DeleteNode, procVars
  <2>1. CASE ToolDies /\ UNCHANGED <<zkVars, disturbed, old>>
    BY <2>0, <2>1, IdleIs, StopStays DEF ToolDies, zkVars, Live
  <2>2. CASE ~(ToolDies /\ UNCHANGED <<zkVars, disturbed, old>>)
    <3>1. PICK path \in Path, s \in Seq(FrameSet) : Fits(path, tool) /\ Remove(path) /\ Return(s)
      BY <1>5, <2>2, RemovesWhatFits
    <3>2. /\ stop' \in {stop, 0} /\ (tool'.pc = "cleanup" => tool.pc = "cleanup" /\ stop' = stop)
      <4>1. [tool EXCEPT !.stack = s].pc = tool.pc /\ [tool EXCEPT !.i = @ + 1, !.stack = << >>].pc = tool.pc
        BY DEF ToolOK
      <4> QED
        BY <3>1, <4>1, IdleIs DEF Return
    <3>3. CASE path # JobLock
      <4>1. jobSeq' = jobSeq /\ old' = old
        BY <3>1, <3>3 DEF Remove
      <4> QED
        BY <2>0, <3>2, <4>1, StopStays DEF Live
    <3>4. CASE path = JobLock
      <4>1. jobSeq' = 0 /\ old' = {l \in Launch : jobId[l] # -1}
        BY <3>1, <3>4 DEF Remove
      <4>2. tool.pc = "cleanup" /\ stop = nhosts
        BY <3>1, <3>4 DEF Fits, JobLock, JobKinds, StopOK
      <4>3. \A p \in Process : Live(p)' => p \in late'
        BY <2>0, <4>2, HostIs DEF StopOK, Live
      <4>4. \A l \in Launch : l \notin old' => jobId'[l] = -1
        BY <2>0, <4>1
      <4>5. \A l \in Launch : l \notin old' => jobId'[l] < jobSeq'
        BY <4>1, <4>4
      <4>6. stop' \in 0..nhosts /\ (tool'.pc = "cleanup" => stop' = nhosts) /\ \A l \in old' : jobId'[l] # -1
        BY <1>0, <2>0, <3>2, <4>1, <4>2
      <4> QED
        BY <4>3, <4>4, <4>5, <4>6 DEF StopOK
    <3> QED
      BY <3>3, <3>4
  <2> QED
    BY <2>1, <2>2
<1>6. CASE KillHost
  <2> DEFINE killed == {p \in Process : p[2] = stop + 1 /\ Live(p)}
  <2>1. /\ stop < nhosts /\ stop' = stop + 1 /\ tool' \in {tool, Idle} /\ jobSeq' = jobSeq
        /\ jobId' = jobId /\ old' = old /\ late' = late
        /\ pc' = [p \in Process |-> IF p \in killed THEN "dead" ELSE pc[p]]
    BY <1>6 DEF KillHost, zkVars
  <2>2. \A p \in Process : Live(p)' => Live(p) /\ p[2] # stop + 1
    BY <2>1 DEF Live
  <2>3. \A p \in Process : p[2] <= stop + 1 /\ p[2] # stop + 1 => p[2] <= stop
    BY <1>0, HostIs
  <2>4. tool'.pc # "cleanup" /\ stop' \in 0..nhosts
    BY <1>0, <2>1, IdleIs DEF StopOK
  <2>5. \A p \in Process : Live(p)' /\ (p[1] \in old' \/ p[2] <= stop') => p \in late'
    BY <2>1, <2>2, <2>3 DEF StopOK
  <2> QED
    BY <2>1, <2>4, <2>5 DEF StopOK
<1>7. CASE Cleanup
  <2>1. /\ stop = nhosts /\ stop' = stop /\ jobSeq' = jobSeq /\ jobId' = jobId /\ old' = old
        /\ late' = late /\ pc' = pc
    BY <1>7 DEF Cleanup, zkVars, procVars, histVars
  <2> QED
    BY <2>1 DEF StopOK, Live
<1>8. CASE UNCHANGED vars
  BY <1>8, StopStays DEF vars, zkVars, procVars, histVars, Live
<1> QED
  BY <1>1, <1>2, <1>3, <1>4, <1>5, <1>6, <1>7, <1>8 DEF Next, ToolStep

\* For any launches, hosts, crashes and cleanups: two launches with live processes
\* have the same job id only if singa-run.sh started a process of one of them on a
\* host that singa-stop.sh had already killed (JobManager::GenerateJobID).
THEOREM RegistryIdsDiffer == Spec => []JobIdsDiffer
<1>1. Spec => Init /\ [][Next]_vars
  BY PTL DEF Spec
<1>2. Inv /\ ToolOK /\ [Next]_vars => ToolOK'
  BY ToolNext
<1>3. Inv /\ ToolOK /\ StopOK /\ [Next]_vars => StopOK'
  BY StopNext
<1>4. Inv /\ StopOK => JobIdsDiffer
  <2> SUFFICES ASSUME Inv, StopOK, NEW p \in Process, NEW q \in Process, p[1] # q[1],
                      Live(p), Live(q), Id(p) = Id(q)
      PROVE  p \in late \/ q \in late
    BY DEF JobIdsDiffer
  <2>1. jobId[p[1]] = jobId[q[1]] /\ jobId[p[1]] # -1
    BY DEF Id, Live, Inv, Phases
  <2>2. p[1] \in old \/ q[1] \in old
    BY <2>1, ProcessIs DEF StopOK
  <2> QED
    BY <2>2 DEF StopOK
<1> QED
  BY <1>1, <1>2, <1>3, <1>4, ToolInit, StopInit, RegistryInv, PTL

=============================================================================
