-------------------------- MODULE ServerSyncProofs --------------------------
(***************************************************************************)
(* Proofs about the exchange among server groups (ServerSync), for any     *)
(* number of groups and updates: an update of a group is in exactly one    *)
(* place on its way to the master, no copy ever counts it twice, the       *)
(* master gives nothing up, and every round is paid for by an update of    *)
(* the master's own workers.                                               *)
(***************************************************************************)
EXTENDS ServerSync, SequenceTheorems, FiniteSetTheorems, TLAPS

Value == [Update -> Int]

TypeOK ==
  /\ shard \in SUBSET Grp
  /\ cur \in [Grp -> Value]
  /\ last_data \in [Grp -> Value]
  /\ local_version \in Nat
  /\ version \in Nat
  /\ count \in [Grp -> 0..MaxUpdates]
  /\ to_group \in [Grp -> Seq(Value)]
  /\ to_master \in [Grp -> Seq(Value)]
  /\ rounds \in Nat

-----------------------------------------------------------------------------
\* u is an update of the workers of g, already applied.
Own(g, u) == u[1] = g /\ u[2] > 0 /\ Made(u)

\* A group without the slice has done nothing, and before the master has it
\* nothing is on its way.
Absent ==
  /\ \A g \in Grp : g \notin shard =>
       /\ count[g] = 0
       /\ \A u \in Update : cur[g][u] = 0 /\ last_data[g][u] = 0
  /\ \A g \in Grp : Master \notin shard => to_group[g] = <<>> /\ to_master[g] = <<>>

\* The master has an update once or not at all, and never another group's
\* initial value.
AtMaster ==
  \A u \in Update :
    /\ cur[Master][u] \in {0, 1}
    /\ cur[Master][u] = 1 => Made(u) /\ (u[1] \in Others => u[2] > 0)

\* A request is an earlier value of the master.
Requests ==
  \A g \in Others : \A i \in 1..Len(to_group[g]) : \A u \in Update :
    0 <= to_group[g][i][u] /\ to_group[g][i][u] <= cur[Master][u]

\* What a group has not sent, and what it has sent, are its own updates.
Unsents ==
  \A g \in Others : \A u \in Update :
    Unsent(g)[u] \in {0, 1} /\ (Unsent(g)[u] = 1 => Own(g, u))

Answers ==
  \A g \in Others : \A i \in 1..Len(to_master[g]) : \A u \in Update :
    to_master[g][i][u] \in {0, 1} /\ (to_master[g][i][u] = 1 => Own(g, u))

\* An update is not in two places.
Apart ==
  \A g \in Others : \A u \in Update :
    /\ Unsent(g)[u] = 1 => cur[Master][u] = 0
    /\ \A i \in 1..Len(to_master[g]) : to_master[g][i][u] = 1 =>
         /\ Unsent(g)[u] = 0
         /\ cur[Master][u] = 0
         /\ \A j \in 1..Len(to_master[g]) : to_master[g][j][u] = 1 => j = i

\* An update is in some place.
Somewhere ==
  \A g \in Others : \A u \in Update : Own(g, u) =>
    \/ cur[Master][u] = 1
    \/ Unsent(g)[u] = 1
    \/ \E i \in 1..Len(to_master[g]) : to_master[g][i][u] = 1

\* What a group remembers is apart from what it has to send.
Remembered ==
  \A g \in Others : \A u \in Update :
    /\ last_data[g][u] \in {0, 1}
    /\ last_data[g][u] = 1 => Made(u) /\ Unsent(g)[u] = 0

OnePlace == /\ Absent /\ AtMaster /\ Requests /\ Unsents
            /\ Answers /\ Apart /\ Somewhere /\ Remembered

-----------------------------------------------------------------------------
\* The messages of the rounds that have not come to an end.
Open(g) == Len(to_group[g]) + Len(to_master[g])
Pending == UNION {{g} \X (1..Open(g)) : g \in Others}

\* Each round brings the master at most one answer of every other group.
Paid ==
  /\ version <= local_version
  /\ Cardinality(Grp) * rounds <= version
  /\ IsFiniteSet(Pending)
  /\ local_version + Cardinality(Pending)
       <= count[Master] + Cardinality(Others) * rounds

-----------------------------------------------------------------------------
\* Formal sums are values, and add up one update at a time.
LEMMA SumType ==
  /\ Zero \in Value
  /\ \A v \in Update : Unit(v) \in Value
  /\ \A a, b \in Value : Plus(a, b) \in Value /\ Minus(a, b) \in Value
BY DEF Zero, Unit, Plus, Minus, Value

LEMMA SumAt ==
  \A u \in Update :
    /\ Zero[u] = 0
    /\ \A v : Unit(v)[u] = IF u = v THEN 1 ELSE 0
    /\ \A a, b : Plus(a, b)[u] = a[u] + b[u] /\ Minus(a, b)[u] = a[u] - b[u]
BY DEF Zero, Unit, Plus, Minus

\* An update is a group and a number.
LEMMA UpdateIs ==
  /\ \A u \in Update : u[1] \in Grp /\ u[2] \in 0..MaxUpdates /\ u = <<u[1], u[2]>>
  /\ \A g \in Grp, n \in 0..MaxUpdates :
       <<g, n>> \in Update /\ <<g, n>>[1] = g /\ <<g, n>>[2] = n
BY DEF Update

\* What happens to a queue, by position.
LEMMA AppendAt ==
  ASSUME NEW S, NEW q \in Seq(S), NEW e \in S
  PROVE  /\ Append(q, e) \in Seq(S)
         /\ Len(q) \in Nat /\ Len(Append(q, e)) = Len(q) + 1
         /\ \A i \in 1..Len(q) : Append(q, e)[i] = q[i]
         /\ Append(q, e)[Len(q) + 1] = e
BY AppendProperties, LenProperties

LEMMA TailAt ==
  ASSUME NEW S, NEW q \in Seq(S), q # <<>>
  PROVE  /\ Tail(q) \in Seq(S) /\ Head(q) \in S /\ Head(q) = q[1]
         /\ Len(q) \in Nat \ {0} /\ Len(Tail(q)) = Len(q) - 1
         /\ \A i \in 1..Len(Tail(q)) : Tail(q)[i] = q[i + 1]
BY HeadTailProperties, LenProperties

LEMMA TypeInit == Init => TypeOK
<1> SUFFICES ASSUME Init PROVE TypeOK
  OBVIOUS
<1>1. <<>> \in Seq(Value)
  OBVIOUS
<1> QED
  BY <1>1, SumType, SyncAssumption DEF Init, TypeOK

LEMMA TypeNext == TypeOK /\ [Next]_vars => TypeOK'
<1> SUFFICES ASSUME TypeOK, [Next]_vars PROVE TypeOK'
  OBVIOUS
<1> USE SyncAssumption DEF TypeOK
<1>1. ASSUME NEW g \in Grp, HandlePut(g) PROVE TypeOK'
  <2>1. <<g, 0>> \in Update
    BY UpdateIs
  <2>2. Unit(<<g, 0>>) \in Value
    BY <2>1, SumType
  <2> QED
    BY <1>1, <2>2 DEF HandlePut
<1>2. ASSUME NEW g \in Grp, HandleUpdate(g) PROVE TypeOK'
  <2>1. count[g] + 1 \in 0..MaxUpdates
    BY <1>2 DEF HandleUpdate
  <2>2. Plus(cur[g], Unit(<<g, count[g] + 1>>)) \in Value
    BY <2>1, SumType, UpdateIs
  <2> QED
    BY <1>2, <2>1, <2>2 DEF HandleUpdate
<1>3. CASE SyncReminder
  <2>1. \A g \in Grp : Append(to_group[g], cur[Master]) \in Seq(Value)
    BY AppendAt
  <2> QED
    BY <1>3, <2>1 DEF SyncReminder
<1>4. ASSUME NEW g \in Others, Requeue(g) PROVE TypeOK'
  <2>1. g \in Grp
    BY DEF Others
  <2>2. Append(Tail(to_group[g]), Head(to_group[g])) \in Seq(Value)
    BY <1>4, <2>1, TailAt, AppendAt DEF Requeue
  <2> QED
    BY <1>4, <2>1, <2>2 DEF Requeue
<1>5. ASSUME NEW g \in Others, AnswerSync(g) PROVE TypeOK'
  <2>1. g \in Grp
    BY DEF Others
  <2> DEFINE diff == Minus(cur[g], last_data[g])
  <2>2. diff \in Value
    BY <2>1, SumType
  <2>3. Tail(to_group[g]) \in Seq(Value) /\ Head(to_group[g]) \in Value
    BY <1>5, <2>1, TailAt DEF AnswerSync
  <2>4. Append(to_master[g], diff) \in Seq(Value)
    BY <2>1, <2>2, AppendAt
  <2>5. Plus(diff, Head(to_group[g])) \in Value
    BY <2>2, <2>3, SumType
  <2> QED
    BY <1>5, <2>1, <2>3, <2>4, <2>5 DEF AnswerSync
<1>6. ASSUME NEW g \in Others, KeepSync(g) PROVE TypeOK'
  <2>1. g \in Grp
    BY DEF Others
  <2> DEFINE diff == Minus(cur[g], last_data[g])
  <2>2. diff \in Value
    BY <2>1, SumType
  <2>3. Tail(to_group[g]) \in Seq(Value) /\ Head(to_group[g]) \in Value
    BY <1>6, <2>1, TailAt DEF KeepSync
  <2>5. Plus(Head(to_group[g]), diff) \in Value
    BY <2>2, <2>3, SumType
  <2> QED
    BY <1>6, <2>1, <2>3, <2>5 DEF KeepSync
<1>7. ASSUME NEW g \in Others, HandleAnswer(g) PROVE TypeOK'
  <2>1. g \in Grp
    BY DEF Others
  <2>2. Tail(to_master[g]) \in Seq(Value) /\ Head(to_master[g]) \in Value
    BY <1>7, <2>1, TailAt DEF HandleAnswer
  <2>3. Plus(cur[Master], Head(to_master[g])) \in Value
    BY <2>2, SumType
  <2> QED
    BY <1>7, <2>1, <2>2, <2>3 DEF HandleAnswer
<1>8. CASE UNCHANGED vars
  BY <1>8 DEF vars
<1> QED
  BY <1>1, <1>2, <1>3, <1>4, <1>5, <1>6, <1>7, <1>8 DEF Next, Idle

\* Every variable keeps its type.
THEOREM SyncTypeOK == Spec => []TypeOK
BY TypeInit, TypeNext, PTL DEF Spec

-----------------------------------------------------------------------------
LEMMA UnsentAt ==
  \A h : \A u \in Update :
    /\ Unsent(h)[u] = cur[h][u] - last_data[h][u]
    /\ (Unsent(h)[u])' = cur'[h][u] - last_data'[h][u]
BY DEF Unsent, Minus

LEMMA ValueAt ==
  ASSUME TypeOK
  PROVE  \A h \in Grp : \A u \in Update :
           /\ cur[h][u] \in Int /\ last_data[h][u] \in Int
           /\ \A i \in 1..Len(to_group[h]) : to_group[h][i][u] \in Int
           /\ \A i \in 1..Len(to_master[h]) : to_master[h][i][u] \in Int
<1> SUFFICES ASSUME NEW h \in Grp, NEW u \in Update
    PROVE  /\ cur[h][u] \in Int /\ last_data[h][u] \in Int
           /\ \A i \in 1..Len(to_group[h]) : to_group[h][i][u] \in Int
           /\ \A i \in 1..Len(to_master[h]) : to_master[h][i][u] \in Int
  OBVIOUS
<1>1. cur[h] \in Value /\ last_data[h] \in Value
  BY DEF TypeOK
<1>2. \A i \in 1..Len(to_group[h]) : to_group[h][i] \in Value
  BY ElementOfSeq DEF TypeOK
<1>3. \A i \in 1..Len(to_master[h]) : to_master[h][i] \in Value
  BY ElementOfSeq DEF TypeOK
<1> QED
  BY <1>1, <1>2, <1>3 DEF Value

LEMMA OnePlaceInit == Init => OnePlace
<1> SUFFICES ASSUME Init PROVE OnePlace
  OBVIOUS
<1>1. \A h \in Grp : \A u \in Update : cur[h][u] = 0 /\ last_data[h][u] = 0
  BY SumAt DEF Init
<1>2. \A h \in Grp : \A u \in Update : Unsent(h)[u] = 0
  BY <1>1, UnsentAt
<1>3. \A h \in Grp : /\ to_group[h] = <<>> /\ to_master[h] = <<>> /\ count[h] = 0
                     /\ Len(to_group[h]) = 0 /\ Len(to_master[h]) = 0
  BY DEF Init
<1>4. \A u \in Update : ~Made(u)
  BY DEF Made, Init
<1>5. Master \in Grp
  BY SyncAssumption
<1> QED
  BY <1>1, <1>2, <1>3, <1>4, <1>5 DEF OnePlace, Absent, AtMaster, Requests, Unsents, Answers,
     Apart, Somewhere, Remembered, Own, Others

LEMMA PutOnePlace ==
  ASSUME TypeOK, OnePlace, NEW g \in Grp, HandlePut(g)
  PROVE  OnePlace'
<1> USE DEF OnePlace
<1>0. Master \in Grp /\ Others \subseteq Grp /\ Master \notin Others
  BY SyncAssumption DEF Others
<1>1. \A h \in Grp : \A u \in Update :
        cur'[h][u] = IF h = g THEN (IF u = <<g, 0>> THEN 1 ELSE 0) ELSE cur[h][u]
  <2>1. \A u \in Update : Unit(<<g, 0>>)[u] = IF u = <<g, 0>> THEN 1 ELSE 0
    BY SumAt
  <2> QED
    BY <2>1 DEF HandlePut, TypeOK
<1>2. \A h \in Others : \A u \in Update :
        last_data'[h][u] = IF h = g THEN (IF u = <<g, 0>> THEN 1 ELSE 0) ELSE last_data[h][u]
  <2>1. \A u \in Update : Unit(<<g, 0>>)[u] = IF u = <<g, 0>> THEN 1 ELSE 0
    BY SumAt
  <2>2. CASE g = Master
    BY <2>2, <1>0 DEF HandlePut
  <2>3. CASE g # Master
    BY <2>1, <2>3, <1>0 DEF HandlePut, TypeOK
  <2> QED
    BY <2>2, <2>3
<1>3. g \notin shard /\ shard' = shard \cup {g} /\ count' = count
      /\ to_group' = to_group /\ to_master' = to_master
  BY DEF HandlePut
<1>4. \A u \in Update : cur[g][u] = 0 /\ last_data[g][u] = 0
  BY <1>3 DEF Absent
<1>5. \A h \in Others : \A u \in Update : (Unsent(h)[u])' = Unsent(h)[u]
  BY <1>0, <1>1, <1>2, <1>4, UnsentAt, ValueAt
<1>6. count[g] = 0
  BY <1>3 DEF Absent
<1>7. \A u \in Update : Made(u)' <=> Made(u) \/ u = <<g, 0>>
  BY <1>3, <1>6, UpdateIs DEF Made
<1>8. \A h \in Others : \A u \in Update : Own(h, u)' <=> Own(h, u)
  BY <1>7, UpdateIs DEF Own
<1>9. <<g, 0>>[1] = g
  OBVIOUS
<1>a. Absent'
  <2>1. \A h \in Grp : h \notin shard' => \A u \in Update : last_data'[h][u] = 0
    BY <1>3 DEF Absent, HandlePut, TypeOK
  <2> QED
    BY <1>1, <1>3, <2>1 DEF Absent
<1>b. AtMaster'
  BY <1>0, <1>1, <1>7, <1>9 DEF AtMaster
<1>c. Requests'
  <2>1. CASE g = Master
    BY <2>1, <1>0, <1>3 DEF Requests, Absent
  <2>2. CASE g # Master
    BY <2>2, <1>0, <1>1, <1>3 DEF Requests
  <2> QED
    BY <2>1, <2>2
<1>d. Unsents'
  BY <1>5, <1>8 DEF Unsents
<1>e. Answers'
  BY <1>3, <1>8 DEF Answers
<1>f. \A u \in Update : \A h \in Others :
        Own(h, u) => cur'[Master][u] = cur[Master][u]
  BY <1>0, <1>1, <1>4, <1>7, UpdateIs DEF Own
<1>g. Apart'
  BY <1>3, <1>5, <1>f DEF Apart, Unsents, Answers
<1>h. Somewhere'
  BY <1>3, <1>5, <1>8, <1>f DEF Somewhere
<1>i. Remembered'
  <2>1. \A u \in Update : g \in Others => Unsent(g)[u] = 0
    BY <1>4, <1>0, UnsentAt
  <2> QED
    BY <1>2, <1>5, <1>7, <2>1 DEF Remembered
<1> QED
  BY <1>a, <1>b, <1>c, <1>d, <1>e, <1>g, <1>h, <1>i

LEMMA UpdateOnePlace ==
  ASSUME TypeOK, OnePlace, NEW g \in Grp, HandleUpdate(g)
  PROVE  OnePlace'
<1> USE DEF OnePlace
<1> DEFINE new == <<g, count[g] + 1>>
<1>0. Master \in Grp /\ Others \subseteq Grp /\ Master \notin Others
  BY SyncAssumption DEF Others
<1>1. count[g] \in Nat /\ count[g] + 1 \in 0..MaxUpdates /\ g \in shard
  BY SyncAssumption DEF HandleUpdate, TypeOK
<1>2. new \in Update /\ new[1] = g /\ new[2] = count[g] + 1
  BY <1>1, UpdateIs
<1> HIDE DEF new
<1>3. \A h \in Grp : \A u \in Update :
        cur'[h][u] = IF h = g /\ u = new THEN cur[h][u] + 1 ELSE cur[h][u]
  <2>1. \A u \in Update : Plus(cur[g], Unit(new))[u] = cur[g][u] + (IF u = new THEN 1 ELSE 0)
    BY SumAt
  <2>2. cur' = [cur EXCEPT ![g] = Plus(cur[g], Unit(new))]
    BY DEF HandleUpdate, new
  <2> QED
    BY <2>1, <2>2, ValueAt DEF TypeOK
<1>4. shard' = shard /\ last_data' = last_data
      /\ to_group' = to_group /\ to_master' = to_master
      /\ count' = [count EXCEPT ![g] = count[g] + 1]
  BY DEF HandleUpdate
<1>5. \A h \in Others : \A u \in Update :
        (Unsent(h)[u])' = IF h = g /\ u = new THEN Unsent(h)[u] + 1 ELSE Unsent(h)[u]
  <2> SUFFICES ASSUME NEW h \in Others, NEW u \in Update
      PROVE (Unsent(h)[u])' = IF h = g /\ u = new THEN Unsent(h)[u] + 1 ELSE Unsent(h)[u]
    OBVIOUS
  <2>1. cur[h][u] \in Int /\ last_data[h][u] \in Int
    BY <1>0, ValueAt
  <2>2. Unsent(h)[u] = cur[h][u] - last_data[h][u]
    BY UnsentAt
  <2>3. (Unsent(h)[u])' = cur'[h][u] - last_data[h][u]
    BY UnsentAt, <1>4
  <2>4. cur'[h][u] = IF h = g /\ u = new THEN cur[h][u] + 1 ELSE cur[h][u]
    BY <1>0, <1>3
  <2> QED
    BY <2>1, <2>2, <2>3, <2>4
<1>6. \A u \in Update : Made(u)' <=> Made(u) \/ u = new
  <2> SUFFICES ASSUME NEW u \in Update PROVE Made(u)' <=> Made(u) \/ u = new
    OBVIOUS
  <2>1. u[1] \in Grp /\ u[2] \in Nat /\ u = <<u[1], u[2]>> /\ count[u[1]] \in Nat
    BY UpdateIs, SyncAssumption DEF TypeOK
  <2>2. u = new <=> u[1] = g /\ u[2] = count[g] + 1
    BY <2>1 DEF new
  <2>3. count'[u[1]] = IF u[1] = g THEN count[g] + 1 ELSE count[u[1]]
    BY <1>4, <2>1 DEF TypeOK
  <2> QED
    BY <1>1, <1>4, <2>1, <2>2, <2>3 DEF Made
<1>7. ~Made(new)
  BY <1>1, <1>2 DEF Made
<1>8. \A h \in Others : \A u \in Update : Own(h, u)' <=> Own(h, u) \/ (h = g /\ u = new)
  BY <1>1, <1>2, <1>6 DEF Own
<1>9. /\ cur[Master][new] = 0
      /\ \A h \in Others : /\ Unsent(h)[new] = 0 /\ last_data[h][new] = 0
                           /\ \A i \in 1..Len(to_master[h]) : to_master[h][i][new] = 0
  BY <1>2, <1>7 DEF AtMaster, Unsents, Answers, Remembered, Own
<1>a. Absent'
  BY <1>1, <1>3, <1>4 DEF Absent, TypeOK
<1>b. AtMaster'
  BY <1>0, <1>2, <1>3, <1>6, <1>9, <1>1 DEF AtMaster
<1>c. Requests'
  <2>1. \A u \in Update : cur[Master][u] <= cur'[Master][u]
    BY <1>0, <1>3, ValueAt
  <2> QED
    BY <1>0, <1>4, <2>1, <1>3, ValueAt DEF Requests
<1>d. Unsents'
  BY <1>5, <1>8, <1>9 DEF Unsents
<1>e. Answers'
  BY <1>4, <1>8 DEF Answers
<1>f. \A u \in Update : cur'[Master][u] = cur[Master][u] \/ (g = Master /\ u = new)
  BY <1>0, <1>3
<1>g. Apart'
  <2>1. \A h \in Others : \A u \in Update :
          Own(h, u)' => cur'[Master][u] = cur[Master][u]
    BY <1>0, <1>f, <1>2 DEF Own
  <2>2. \A h \in Others : \A u \in Update : (Unsent(h)[u])' = 1 => Own(h, u)'
    BY <1>d DEF Unsents
  <2>3. \A h \in Others : \A u \in Update : \A i \in 1..Len(to_master[h]) :
          to_master[h][i][u] = 1 => Own(h, u)'
    BY <1>8 DEF Answers
  <2> QED
    BY <2>1, <2>2, <2>3, <1>4, <1>5, <1>9 DEF Apart
<1>h. Somewhere'
  <2>1. \A h \in Others : \A u \in Update :
          Own(h, u) => cur'[Master][u] = cur[Master][u] /\ u # new
    BY <1>0, <1>f, <1>2, <1>7 DEF Own
  <2> QED
    BY <2>1, <1>4, <1>5, <1>8, <1>9 DEF Somewhere
<1>i. Remembered'
  BY <1>4, <1>5, <1>6, <1>9 DEF Remembered
<1> QED
  BY <1>a, <1>b, <1>c, <1>d, <1>e, <1>g, <1>h, <1>i

LEMMA ReminderOnePlace ==
  ASSUME TypeOK, OnePlace, SyncReminder
  PROVE  OnePlace'
<1> USE DEF OnePlace
<1>0. Master \in Grp /\ Others \subseteq Grp /\ Master \notin Others
  BY SyncAssumption DEF Others
<1>1. shard' = shard /\ cur' = cur /\ last_data' = last_data /\ count' = count
      /\ to_master' = to_master /\ Master \in shard
  BY DEF SyncReminder
<1>2. \A h : \A u \in Update : (Unsent(h)[u])' = Unsent(h)[u]
  BY <1>1, UnsentAt
<1>3. \A u \in Update : Made(u)' <=> Made(u)
  BY <1>1 DEF Made
<1>4. \A h \in Others : \A u \in Update : Own(h, u)' <=> Own(h, u)
  BY <1>3 DEF Own
<1>a. Absent'
  BY <1>1 DEF Absent
<1>b. AtMaster'
  BY <1>1, <1>3 DEF AtMaster
<1>c. Requests'
  <2> SUFFICES ASSUME NEW h \in Others, NEW i \in 1..Len(to_group'[h]), NEW u \in Update
      PROVE  0 <= to_group'[h][i][u] /\ to_group'[h][i][u] <= cur'[Master][u]
    BY DEF Requests
  <2>1. to_group'[h] = Append(to_group[h], cur[Master])
    BY <1>0 DEF SyncReminder
  <2>2. to_group[h] \in Seq(Value) /\ cur[Master] \in Value
    BY <1>0 DEF TypeOK
  <2>3. \/ i \in 1..Len(to_group[h]) /\ to_group'[h][i] = to_group[h][i]
        \/ to_group'[h][i] = cur[Master]
    BY <2>1, <2>2, AppendAt
  <2>4. cur[Master][u] \in {0, 1}
    BY DEF AtMaster
  <2> QED
    BY <2>3, <2>4, <1>1 DEF Requests
<1>d. Unsents'
  BY <1>2, <1>4 DEF Unsents
<1>e. Answers'
  BY <1>1, <1>4 DEF Answers
<1>g. Apart'
  BY <1>1, <1>2 DEF Apart
<1>h. Somewhere'
  BY <1>1, <1>2, <1>4 DEF Somewhere
<1>i. Remembered'
  BY <1>1, <1>2, <1>3 DEF Remembered
<1> QED
  BY <1>a, <1>b, <1>c, <1>d, <1>e, <1>g, <1>h, <1>i

LEMMA RequeueOnePlace ==
  ASSUME TypeOK, OnePlace, NEW g \in Others, Requeue(g)
  PROVE  OnePlace'
<1> USE DEF OnePlace
<1>0. Master \in Grp /\ Others \subseteq Grp /\ Master \notin Others
  BY SyncAssumption DEF Others
<1>1. shard' = shard /\ cur' = cur /\ last_data' = last_data /\ count' = count
      /\ to_master' = to_master /\ to_group[g] # <<>>
  BY DEF Requeue
<1>2. \A h : \A u \in Update : (Unsent(h)[u])' = Unsent(h)[u]
  BY <1>1, UnsentAt
<1>3. \A u \in Update : Made(u)' <=> Made(u)
  BY <1>1 DEF Made
<1>4. \A h \in Others : \A u \in Update : Own(h, u)' <=> Own(h, u)
  BY <1>3 DEF Own
<1>5. \A h \in Grp : h # g => to_group'[h] = to_group[h]
  BY DEF Requeue, TypeOK
<1>a. Absent'
  BY <1>0, <1>1, <1>5 DEF Absent
<1>b. AtMaster'
  BY <1>1, <1>3 DEF AtMaster
<1>c. Requests'
  <2> SUFFICES ASSUME NEW h \in Others, NEW i \in 1..Len(to_group'[h]), NEW u \in Update
      PROVE  0 <= to_group'[h][i][u] /\ to_group'[h][i][u] <= cur'[Master][u]
    BY DEF Requests
  <2>1. to_group[g] \in Seq(Value)
    BY <1>0 DEF TypeOK
  <2>2. to_group'[g] = Append(Tail(to_group[g]), Head(to_group[g]))
    BY <1>0 DEF Requeue, TypeOK
  <2>3. h = g => \E j \in 1..Len(to_group[g]) : to_group'[g][i] = to_group[g][j]
    <3> SUFFICES ASSUME h = g PROVE \E j \in 1..Len(to_group[g]) : to_group'[g][i] = to_group[g][j]
      OBVIOUS
    <3> DEFINE q == to_group[g]
               t == Tail(q)
    <3>1. /\ t \in Seq(Value) /\ Head(q) \in Value /\ Head(q) = q[1]
          /\ Len(q) \in Nat \ {0} /\ Len(t) = Len(q) - 1
          /\ \A j \in 1..Len(t) : t[j] = q[j + 1]
      BY <2>1, <1>1, TailAt
    <3>2. /\ Len(Append(t, Head(q))) = Len(t) + 1
          /\ \A j \in 1..Len(t) : Append(t, Head(q))[j] = t[j]
          /\ Append(t, Head(q))[Len(t) + 1] = Head(q)
      BY <3>1, AppendAt
    <3> HIDE DEF t
    <3>3. i \in 1..(Len(t) + 1) /\ to_group'[g][i] = Append(t, Head(q))[i]
      BY <3>2, <2>2 DEF t
    <3>4. CASE i = Len(t) + 1
      <4>1. to_group'[g][i] = q[1] /\ 1 \in 1..Len(q)
        BY <3>1, <3>2, <3>3, <3>4
      <4> QED
        BY <4>1
    <3>5. CASE i # Len(t) + 1
      <4>1. i \in 1..Len(t)
        BY <3>1, <3>3, <3>5
      <4>2. to_group'[g][i] = q[i + 1] /\ i + 1 \in 1..Len(q)
        BY <3>1, <3>2, <3>3, <4>1
      <4> QED
        BY <4>2
    <3> QED
      BY <3>4, <3>5
  <2> QED
    BY <1>0, <1>1, <1>5, <2>3 DEF Requests
<1>d. Unsents'
  BY <1>2, <1>4 DEF Unsents
<1>e. Answers'
  BY <1>1, <1>4 DEF Answers
<1>g. Apart'
  BY <1>1, <1>2 DEF Apart
<1>h. Somewhere'
  BY <1>1, <1>2, <1>4 DEF Somewhere
<1>i. Remembered'
  BY <1>1, <1>2, <1>3 DEF Remembered
<1> QED
  BY <1>a, <1>b, <1>c, <1>d, <1>e, <1>g, <1>h, <1>i

\* A group takes its oldest request, which is an earlier value of the master.
LEMMA TakeRequest ==
  ASSUME TypeOK, OnePlace, NEW g \in Others, to_group[g] # <<>>,
         to_group' = [to_group EXCEPT ![g] = Tail(@)],
         cur'[Master] = cur[Master]
  PROVE  /\ Requests'
         /\ \A u \in Update : /\ Head(to_group[g])[u] \in {0, 1}
                              /\ Head(to_group[g])[u] = 1 => cur[Master][u] = 1
<1> USE DEF OnePlace
<1>0. g \in Grp /\ Others \subseteq Grp
  BY DEF Others
<1>1. to_group[g] \in Seq(Value)
  BY <1>0 DEF TypeOK
<1> DEFINE t == Tail(to_group[g])
<1>2. /\ Head(to_group[g]) = to_group[g][1]
      /\ Len(to_group[g]) \in Nat \ {0} /\ Len(t) = Len(to_group[g]) - 1
      /\ \A i \in 1..Len(t) : t[i] = to_group[g][i + 1]
  BY <1>1, TailAt
<1>3. /\ to_group'[g] = t
      /\ \A h \in Others : h # g => to_group'[h] = to_group[h]
  BY <1>0 DEF TypeOK
<1> HIDE DEF t
<1>4. \A i \in 1..Len(to_group'[g]) : /\ to_group'[g][i] = to_group[g][i + 1]
                                      /\ i + 1 \in 1..Len(to_group[g])
  BY <1>2, <1>3
<1>5. Requests'
  BY <1>3, <1>4 DEF Requests
<1>6. \A u \in Update : /\ 0 <= to_group[g][1][u] /\ to_group[g][1][u] <= cur[Master][u]
                        /\ to_group[g][1][u] \in Int /\ cur[Master][u] \in {0, 1}
  BY <1>0, <1>2, ValueAt DEF Requests, AtMaster
<1> QED
  BY <1>2, <1>5, <1>6

LEMMA AnswerOnePlace ==
  ASSUME TypeOK, OnePlace, NEW g \in Others, AnswerSync(g)
  PROVE  OnePlace'
<1> USE DEF OnePlace
<1>0. Master \in Grp /\ Others \subseteq Grp /\ Master \notin Others /\ g \in Grp /\ g # Master
  BY SyncAssumption DEF Others
<1> DEFINE tmp == Head(to_group[g])
           diff == Minus(cur[g], last_data[g])
<1>1. /\ shard' = shard /\ count' = count
      /\ to_group[g] # <<>> /\ to_group' = [to_group EXCEPT ![g] = Tail(@)]
      /\ to_master' = [to_master EXCEPT ![g] = Append(@, diff)]
      /\ last_data' = [last_data EXCEPT ![g] = Plus(diff, tmp)]
      /\ cur' = [cur EXCEPT ![g] = Plus(diff, tmp)]
      /\ g \in shard
  BY DEF AnswerSync
<1>2. /\ \A u \in Update : diff[u] = Unsent(g)[u]
      /\ diff \in Value
  BY <1>0, SumType DEF Unsent, TypeOK
<1>3. cur'[Master] = cur[Master]
  BY <1>0, <1>1 DEF TypeOK
<1>4. /\ Requests'
      /\ \A u \in Update : tmp[u] \in {0, 1} /\ (tmp[u] = 1 => cur[Master][u] = 1)
  BY <1>1, <1>3, TakeRequest
<1>5. \A h \in Grp : \A u \in Update :
        /\ cur'[h][u] = IF h = g THEN Unsent(g)[u] + tmp[u] ELSE cur[h][u]
        /\ last_data'[h][u] = IF h = g THEN Unsent(g)[u] + tmp[u] ELSE last_data[h][u]
  <2>1. \A u \in Update : Plus(diff, tmp)[u] = Unsent(g)[u] + tmp[u]
    BY <1>2, SumAt
  <2> QED
    BY <1>1, <2>1 DEF TypeOK
<1>6. \A h \in Others : \A u \in Update :
        (Unsent(h)[u])' = IF h = g THEN 0 ELSE Unsent(h)[u]
  <2>1. \A u \in Update : Unsent(g)[u] \in Int /\ tmp[u] \in Int
    BY <1>4 DEF Unsents
  <2> QED
    BY <1>0, <1>5, <2>1, UnsentAt
<1>7. /\ Len(to_master[g]) \in Nat /\ Len(to_master'[g]) = Len(to_master[g]) + 1
      /\ \A i \in 1..Len(to_master[g]) : to_master'[g][i] = to_master[g][i]
      /\ \A u \in Update : to_master'[g][Len(to_master[g]) + 1][u] = Unsent(g)[u]
      /\ \A h \in Grp : h # g => to_master'[h] = to_master[h]
  <2>1. to_master[g] \in Seq(Value)
    BY <1>0 DEF TypeOK
  <2>2. to_master'[g] = Append(to_master[g], diff)
    BY <1>0, <1>1 DEF TypeOK
  <2>3. /\ Len(to_master[g]) \in Nat /\ Len(Append(to_master[g], diff)) = Len(to_master[g]) + 1
        /\ \A i \in 1..Len(to_master[g]) : Append(to_master[g], diff)[i] = to_master[g][i]
        /\ Append(to_master[g], diff)[Len(to_master[g]) + 1] = diff
    BY <1>2, <2>1, AppendAt
  <2>4. \A h \in Grp : h # g => to_master'[h] = to_master[h]
    BY <1>1 DEF TypeOK
  <2> QED
    BY <1>2, <2>2, <2>3, <2>4
<1> HIDE DEF tmp, diff
<1>8. \A u \in Update : Made(u)' <=> Made(u)
  BY <1>1 DEF Made
<1>9. \A h \in Others : \A u \in Update : Own(h, u)' <=> Own(h, u)
  BY <1>8 DEF Own
<1>A. \A i \in 1..Len(to_master'[g]) :
        \/ i \in 1..Len(to_master[g]) /\ to_master'[g][i] = to_master[g][i]
        \/ i = Len(to_master[g]) + 1 /\ \A u \in Update : to_master'[g][i][u] = Unsent(g)[u]
  BY <1>7
<1>a. Absent'
  <2>1. Master \in shard
    BY <1>0, <1>1 DEF Absent
  <2> QED
    BY <1>1, <1>5, <2>1 DEF Absent
<1>b. AtMaster'
  BY <1>3, <1>8 DEF AtMaster
<1>d. Unsents'
  BY <1>6, <1>9 DEF Unsents
<1>e. Answers'
  BY <1>0, <1>7, <1>A, <1>9 DEF Answers, Unsents
<1>g. Apart'
  <2> SUFFICES ASSUME NEW h \in Others, NEW u \in Update
      PROVE /\ (Unsent(h)[u])' = 1 => cur'[Master][u] = 0
            /\ \A i \in 1..Len(to_master'[h]) : to_master'[h][i][u] = 1 =>
                 /\ (Unsent(h)[u])' = 0
                 /\ cur'[Master][u] = 0
                 /\ \A j \in 1..Len(to_master'[h]) : to_master'[h][j][u] = 1 => j = i
    BY DEF Apart
  <2>1. CASE h = g
    BY <2>1, <1>3, <1>6, <1>A DEF Apart
  <2>2. CASE h # g
    BY <2>2, <1>0, <1>3, <1>6, <1>7 DEF Apart
  <2> QED
    BY <2>1, <2>2
<1>h. Somewhere'
  <2> SUFFICES ASSUME NEW h \in Others, NEW u \in Update, Own(h, u)
      PROVE \/ cur'[Master][u] = 1
            \/ (Unsent(h)[u])' = 1
            \/ \E i \in 1..Len(to_master'[h]) : to_master'[h][i][u] = 1
    BY <1>9 DEF Somewhere
  <2>1. CASE h # g
    BY <2>1, <1>0, <1>3, <1>6, <1>7 DEF Somewhere
  <2>2. CASE h = g /\ Unsent(g)[u] = 1
    <3>1. /\ Len(to_master[g]) + 1 \in 1..Len(to_master'[g])
          /\ to_master'[g][Len(to_master[g]) + 1][u] = 1
      BY <2>2, <1>7
    <3> QED
      BY <3>1, <2>2
  <2>3. CASE h = g /\ Unsent(g)[u] # 1
    <3>1. \A i \in 1..Len(to_master[g]) : i \in 1..Len(to_master'[g])
      BY <1>7
    <3> QED
      BY <2>3, <3>1, <1>3, <1>7 DEF Somewhere
  <2> QED
    BY <2>1, <2>2, <2>3
<1>i. Remembered'
  <2>1. \A u \in Update :
          /\ Unsent(g)[u] \in {0, 1} /\ (Unsent(g)[u] = 1 => cur[Master][u] = 0 /\ Made(u))
          /\ cur[Master][u] = 1 => Made(u)
    BY DEF Unsents, Apart, AtMaster, Own
  <2>2. \A u \in Update : last_data'[g][u] \in {0, 1} /\ (last_data'[g][u] = 1 => Made(u))
    BY <2>1, <1>0, <1>4, <1>5
  <2> QED
    BY <2>2, <1>0, <1>5, <1>6, <1>8 DEF Remembered
<1> QED
  BY <1>a, <1>b, <1>4, <1>d, <1>e, <1>g, <1>h, <1>i

LEMMA KeepOnePlace ==
  ASSUME TypeOK, OnePlace, NEW g \in Others, KeepSync(g)
  PROVE  OnePlace'
<1> USE DEF OnePlace
<1>0. Master \in Grp /\ Others \subseteq Grp /\ Master \notin Others /\ g \in Grp /\ g # Master
  BY SyncAssumption DEF Others
<1> DEFINE tmp == Head(to_group[g])
           diff == Minus(cur[g], last_data[g])
<1>1. /\ shard' = shard /\ count' = count /\ to_master' = to_master
      /\ to_group[g] # <<>> /\ to_group' = [to_group EXCEPT ![g] = Tail(@)]
      /\ last_data' = [last_data EXCEPT ![g] = tmp]
      /\ cur' = [cur EXCEPT ![g] = Plus(tmp, diff)]
      /\ g \in shard
  BY DEF KeepSync
<1>2. \A u \in Update : diff[u] = Unsent(g)[u]
  BY DEF Unsent
<1>3. cur'[Master] = cur[Master]
  BY <1>0, <1>1 DEF TypeOK
<1>4. /\ Requests'
      /\ \A u \in Update : tmp[u] \in {0, 1} /\ (tmp[u] = 1 => cur[Master][u] = 1)
  BY <1>1, <1>3, TakeRequest
<1>5. \A h \in Grp : \A u \in Update :
        /\ cur'[h][u] = IF h = g THEN tmp[u] + Unsent(g)[u] ELSE cur[h][u]
        /\ last_data'[h][u] = IF h = g THEN tmp[u] ELSE last_data[h][u]
  <2>1. \A u \in Update : Plus(tmp, diff)[u] = tmp[u] + Unsent(g)[u]
    BY <1>2, SumAt
  <2> QED
    BY <1>1, <2>1 DEF TypeOK
<1> HIDE DEF tmp, diff
<1>6. \A h \in Others : \A u \in Update : (Unsent(h)[u])' = Unsent(h)[u]
  <2>1. \A u \in Update : Unsent(g)[u] \in Int /\ tmp[u] \in Int
    BY <1>4 DEF Unsents
  <2> QED
    BY <1>0, <1>5, <2>1, UnsentAt
<1>8. \A u \in Update : Made(u)' <=> Made(u)
  BY <1>1 DEF Made
<1>9. \A h \in Others : \A u \in Update : Own(h, u)' <=> Own(h, u)
  BY <1>8 DEF Own
<1>a. Absent'
  <2>1. Master \in shard
    BY <1>0, <1>1 DEF Absent
  <2> QED
    BY <1>1, <1>5, <2>1 DEF Absent
<1>b. AtMaster'
  BY <1>3, <1>8 DEF AtMaster
<1>d. Unsents'
  BY <1>6, <1>9 DEF Unsents
<1>e. Answers'
  BY <1>1, <1>9 DEF Answers
<1>g. Apart'
  BY <1>1, <1>3, <1>6 DEF Apart
<1>h. Somewhere'
  BY <1>1, <1>3, <1>6, <1>9 DEF Somewhere
<1>i. Remembered'
  <2>1. \A u \in Update : tmp[u] = 1 => Made(u) /\ Unsent(g)[u] = 0
    BY <1>4 DEF AtMaster, Apart, Unsents
  <2> QED
    BY <2>1, <1>0, <1>4, <1>5, <1>6, <1>8 DEF Remembered
<1> QED
  BY <1>a, <1>b, <1>4, <1>d, <1>e, <1>g, <1>h, <1>i

LEMMA HandleAnswerOnePlace ==
  ASSUME TypeOK, OnePlace, NEW g \in Others, HandleAnswer(g)
  PROVE  OnePlace'
<1> USE DEF OnePlace
<1>0. Master \in Grp /\ Others \subseteq Grp /\ Master \notin Others /\ g \in Grp /\ g # Master
  BY SyncAssumption DEF Others
<1> DEFINE a == Head(to_master[g])
<1>1. /\ shard' = shard /\ count' = count /\ to_group' = to_group /\ last_data' = last_data
      /\ to_master[g] # <<>> /\ to_master' = [to_master EXCEPT ![g] = Tail(@)]
      /\ cur' = [cur EXCEPT ![Master] = Plus(@, a)]
  BY DEF HandleAnswer
<1>2. \A h \in Grp : \A u \in Update :
        cur'[h][u] = IF h = Master THEN cur[Master][u] + a[u] ELSE cur[h][u]
  <2>1. \A u \in Update : Plus(cur[Master], a)[u] = cur[Master][u] + a[u]
    BY SumAt
  <2> QED
    BY <1>1, <2>1 DEF TypeOK
<1>3. /\ a = to_master[g][1]
      /\ Len(to_master[g]) \in Nat \ {0} /\ Len(to_master'[g]) = Len(to_master[g]) - 1
      /\ \A i \in 1..Len(to_master'[g]) : to_master'[g][i] = to_master[g][i + 1]
      /\ \A h \in Grp : h # g => to_master'[h] = to_master[h]
  <2>1. to_master[g] \in Seq(Value)
    BY <1>0 DEF TypeOK
  <2> DEFINE t == Tail(to_master[g])
  <2>2. to_master'[g] = t
    BY <1>0, <1>1 DEF TypeOK
  <2>3. \A h \in Grp : h # g => to_master'[h] = to_master[h]
    BY <1>1 DEF TypeOK
  <2>4. /\ Head(to_master[g]) = to_master[g][1]
        /\ Len(to_master[g]) \in Nat \ {0} /\ Len(t) = Len(to_master[g]) - 1
        /\ \A i \in 1..Len(t) : t[i] = to_master[g][i + 1]
    BY <1>1, <2>1, TailAt
  <2> HIDE DEF t
  <2> QED
    BY <2>2, <2>3, <2>4
<1> HIDE DEF a
<1>4. 1 \in 1..Len(to_master[g])
  BY <1>3
<1>5. \A u \in Update :
        /\ a[u] \in {0, 1} /\ cur[Master][u] \in {0, 1}
        /\ a[u] = 1 => Own(g, u) /\ Unsent(g)[u] = 0 /\ cur[Master][u] = 0
        /\ a[u] = 1 => \A j \in 1..Len(to_master[g]) : to_master[g][j][u] = 1 => j = 1
  BY <1>3, <1>4 DEF Answers, Apart, AtMaster
<1>6. \A h \in Others : \A u \in Update : (Unsent(h)[u])' = Unsent(h)[u]
  BY <1>0, <1>1, <1>2, UnsentAt
<1>7. \A i \in 1..Len(to_master'[g]) :
        i + 1 \in 1..Len(to_master[g]) /\ i + 1 # 1 /\ to_master'[g][i] = to_master[g][i + 1]
  BY <1>3
<1>8. \A u \in Update : Made(u)' <=> Made(u)
  BY <1>1 DEF Made
<1>9. \A h \in Others : \A u \in Update : Own(h, u)' <=> Own(h, u)
  BY <1>8 DEF Own
<1>a. Absent'
  <2>1. Master \in shard
    BY <1>0, <1>1 DEF Absent
  <2> QED
    BY <1>0, <1>1, <1>2, <2>1 DEF Absent
<1>b. AtMaster'
  <2> SUFFICES ASSUME NEW u \in Update
      PROVE /\ cur'[Master][u] \in {0, 1}
            /\ cur'[Master][u] = 1 => Made(u)' /\ (u[1] \in Others => u[2] > 0)
    BY DEF AtMaster
  <2>1. cur'[Master][u] = cur[Master][u] + a[u]
    BY <1>0, <1>2
  <2>2. a[u] = 1 => Made(u) /\ u[2] > 0
    BY <1>5 DEF Own
  <2> QED
    BY <2>1, <2>2, <1>5, <1>8 DEF AtMaster
<1>c. Requests'
  <2>1. \A u \in Update : cur'[Master][u] = cur[Master][u] + a[u]
    BY <1>0, <1>2
  <2>2. \A h \in Others : \A i \in 1..Len(to_group[h]) : \A u \in Update : to_group[h][i][u] \in Int
    BY <1>0, ValueAt
  <2> QED
    BY <2>1, <2>2, <1>1, <1>5 DEF Requests
<1>d. Unsents'
  BY <1>6, <1>9 DEF Unsents
<1>e. Answers'
  <2>1. \A i \in 1..Len(to_master'[g]) : \A u \in Update :
          to_master'[g][i][u] \in {0, 1} /\ (to_master'[g][i][u] = 1 => Own(g, u))
    BY <1>7 DEF Answers
  <2> QED
    BY <2>1, <1>0, <1>3, <1>9 DEF Answers
<1>g. Apart'
  <2> SUFFICES ASSUME NEW h \in Others, NEW u \in Update
      PROVE /\ (Unsent(h)[u])' = 1 => cur'[Master][u] = 0
            /\ \A i \in 1..Len(to_master'[h]) : to_master'[h][i][u] = 1 =>
                 /\ (Unsent(h)[u])' = 0
                 /\ cur'[Master][u] = 0
                 /\ \A j \in 1..Len(to_master'[h]) : to_master'[h][j][u] = 1 => j = i
    BY DEF Apart
  <2>1. cur'[Master][u] = cur[Master][u] + a[u]
    BY <1>0, <1>2
  <2>2. a[u] = 1 => u[1] = g
    BY <1>5 DEF Own
  <2>3. Unsent(h)[u] = 1 => a[u] = 0
    BY <1>5, <2>2 DEF Unsents, Own
  <2>4. CASE h = g
    <3>1. \A i \in 1..Len(to_master'[g]) : to_master'[g][i][u] = 1 => a[u] = 0
      BY <1>5, <1>7
    <3>2. \A i, j \in 1..Len(to_master'[g]) :
            to_master'[g][i][u] = 1 /\ to_master'[g][j][u] = 1 => j + 1 = i + 1
      <4>1. \A i, j \in 1..Len(to_master[g]) :
              to_master[g][i][u] = 1 /\ to_master[g][j][u] = 1 => j = i
        BY DEF Apart
      <4> QED
        BY ONLY <1>7, <4>1
    <3>3. \A i, j \in 1..Len(to_master'[g]) : j + 1 = i + 1 => j = i
      OBVIOUS
    <3>4. \A i \in 1..Len(to_master'[g]) : to_master'[g][i][u] = 1 =>
            Unsent(g)[u] = 0 /\ cur[Master][u] = 0
      BY <1>7 DEF Apart
    <3>5. Unsent(g)[u] = 1 => cur[Master][u] = 0
      BY DEF Apart
    <3> QED
      BY <2>1, <2>3, <2>4, <3>1, <3>2, <3>3, <3>4, <3>5, <1>6
  <2>5. CASE h # g
    <3>1. \A i \in 1..Len(to_master[h]) : to_master[h][i][u] = 1 => a[u] = 0
      BY <1>5, <2>2, <2>5 DEF Answers, Own
    <3>2. to_master'[h] = to_master[h]
      BY <1>0, <1>3, <2>5
    <3> QED
      BY <2>1, <2>3, <2>5, <3>1, <3>2, <1>6 DEF Apart
  <2> QED
    BY <2>4, <2>5
<1>h. Somewhere'
  <2> SUFFICES ASSUME NEW h \in Others, NEW u \in Update, Own(h, u)
      PROVE \/ cur'[Master][u] = 1
            \/ (Unsent(h)[u])' = 1
            \/ \E i \in 1..Len(to_master'[h]) : to_master'[h][i][u] = 1
    BY <1>9 DEF Somewhere
  <2>1. cur'[Master][u] = cur[Master][u] + a[u]
    BY <1>0, <1>2
  <2>2. cur[Master][u] = 1 => cur'[Master][u] = 1
    BY <2>1, <1>5
  <2>3. a[u] = 1 => cur'[Master][u] = 1
    BY <2>1, <1>5
  <2>4. ASSUME NEW i \in 1..Len(to_master[g]), h = g, to_master[g][i][u] = 1, a[u] # 1
        PROVE  \E j \in 1..Len(to_master'[g]) : to_master'[g][j][u] = 1
    <3>1. i # 1
      BY <2>4, <1>3
    <3>2. i - 1 \in 1..Len(to_master'[g]) /\ (i - 1) + 1 = i
      BY <3>1, <1>3
    <3>3. to_master'[g][i - 1] = to_master[g][i]
      BY <3>2, <1>7
    <3> QED
      BY <2>4, <3>2, <3>3
  <2>5. CASE h = g
    BY <2>2, <2>3, <2>4, <2>5, <1>6 DEF Somewhere
  <2>6. CASE h # g
    BY <2>2, <2>6, <1>0, <1>3, <1>6 DEF Somewhere
  <2> QED
    BY <2>5, <2>6
<1>i. Remembered'
  BY <1>1, <1>6, <1>8 DEF Remembered
<1> QED
  BY <1>a, <1>b, <1>c, <1>d, <1>e, <1>g, <1>h, <1>i

LEMMA OnePlaceNext ==
  ASSUME TypeOK, OnePlace, [Next]_vars
  PROVE  OnePlace'
<1>1. CASE UNCHANGED vars
  <2>1. \A h : \A u \in Update : (Unsent(h)[u])' = Unsent(h)[u]
    BY <1>1, UnsentAt DEF vars
  <2>2. \A u \in Update : Made(u)' <=> Made(u)
    BY <1>1 DEF vars, Made
  <2>3. \A h \in Others : \A u \in Update : Own(h, u)' <=> Own(h, u)
    BY <2>2 DEF Own
  <2> QED
    BY <1>1, <2>1, <2>2, <2>3 DEF vars, OnePlace, Absent, AtMaster, Requests, Unsents, Answers,
       Apart, Somewhere, Remembered
<1>2. CASE SyncReminder
  BY <1>2, ReminderOnePlace
<1> QED
  BY <1>1, <1>2, PutOnePlace, UpdateOnePlace, RequeueOnePlace, AnswerOnePlace, KeepOnePlace,
     HandleAnswerOnePlace DEF Next, Idle

\* What the proofs below rest on: the exchange keeps every update in one place.
THEOREM SyncOnePlace == Spec => [](TypeOK /\ OnePlace)
<1>1. Init => TypeOK /\ OnePlace
  BY TypeInit, OnePlaceInit
<1>2. (TypeOK /\ OnePlace) /\ [Next]_vars => (TypeOK /\ OnePlace)'
  BY TypeNext, OnePlaceNext
<1> QED
  BY <1>1, <1>2, PTL DEF Spec

-----------------------------------------------------------------------------
\* A copy is what the group remembers plus what it has to send, and the two are
\* apart.
LEMMA OnePlaceCounts == TypeOK /\ OnePlace => NoDoubleCount
<1> SUFFICES ASSUME TypeOK, OnePlace, NEW g \in Grp, NEW u \in Update
    PROVE  cur[g][u] \in {0, 1} /\ (cur[g][u] = 1 => Made(u))
  BY DEF NoDoubleCount
<1>1. CASE g = Master
  BY <1>1 DEF OnePlace, AtMaster
<1>2. CASE g # Master
  <2>1. g \in Others
    BY <1>2 DEF Others
  <2>2. cur[g][u] \in Int /\ last_data[g][u] \in Int /\ Unsent(g)[u] = cur[g][u] - last_data[g][u]
    BY ValueAt, UnsentAt
  <2>3. Unsent(g)[u] \in {0, 1} /\ (Unsent(g)[u] = 1 => Made(u))
    BY <2>1 DEF OnePlace, Unsents, Own
  <2>4. last_data[g][u] \in {0, 1} /\ (last_data[g][u] = 1 => Made(u) /\ Unsent(g)[u] = 0)
    BY <2>1 DEF OnePlace, Remembered
  <2> QED
    BY <2>2, <2>3, <2>4
<1> QED
  BY <1>1, <1>2

\* For any groups and numbers of updates: no copy counts an update twice, or less
\* than zero, or before it is made, in whatever order the groups answer
\* (Server::HandleSyncRequest).
THEOREM SyncCountsOnce == Spec => []NoDoubleCount
BY SyncOnePlace, OnePlaceCounts, PTL

\* An update that is with the master, unsent or in one answer has that one place.
LEMMA OnePlacePlaces == TypeOK /\ OnePlace => NothingLost
<1> SUFFICES ASSUME TypeOK, OnePlace, NEW u \in Update, Made(u), u[1] \in Others, u[2] > 0
    PROVE  Cardinality(Places(u)) = 1
  BY DEF NothingLost
<1> DEFINE g == u[1]
           q == to_master[g]
<1>1. Own(g, u) /\ g \in Grp
  BY DEF Own, Others
<1>2. Len(q) \in Nat
  BY <1>1, LenProperties DEF TypeOK
<1>3. Unsent(g)[u] \in {0, 1} /\ cur[Master][u] \in {0, 1}
      /\ \A i \in 1..Len(q) : q[i][u] \in {0, 1}
  BY DEF OnePlace, Unsents, AtMaster, Answers
<1>4. \A i \in -1..Len(q) : i \in Places(u) <=>
         \/ i = -1 /\ cur[Master][u] # 0
         \/ i = 0 /\ Unsent(g)[u] # 0
         \/ i \in 1..Len(q) /\ q[i][u] # 0
  BY <1>2 DEF Places
<1>5. Places(u) \subseteq -1..Len(q)
  BY DEF Places
<1>6. \E x : Places(u) = {x}
  <2>1. CASE cur[Master][u] = 1
    <3>1. Unsent(g)[u] = 0 /\ \A i \in 1..Len(q) : q[i][u] = 0
      BY <1>3, <2>1 DEF OnePlace, Apart
    <3>2. -1 \in -1..Len(q)
      BY <1>2
    <3>3. Places(u) = {-1}
      BY <1>4, <1>5, <2>1, <3>1, <3>2
    <3> QED
      BY <3>3
  <2>2. CASE Unsent(g)[u] = 1
    <3>1. cur[Master][u] = 0 /\ \A i \in 1..Len(q) : q[i][u] = 0
      BY <1>3, <2>2 DEF OnePlace, Apart
    <3>2. 0 \in -1..Len(q) /\ 0 # -1
      BY <1>2
    <3>3. Places(u) = {0}
      BY <1>4, <1>5, <2>2, <3>1, <3>2
    <3> QED
      BY <3>3
  <2>3. ASSUME NEW i \in 1..Len(q), q[i][u] = 1
        PROVE  \E x : Places(u) = {x}
    <3>1. cur[Master][u] = 0 /\ Unsent(g)[u] = 0 /\ \A j \in 1..Len(q) : q[j][u] # 0 => j = i
      BY <1>3, <2>3 DEF OnePlace, Apart
    <3>2. i \in -1..Len(q)
      BY <1>2
    <3>3. Places(u) = {i}
      BY <1>4, <1>5, <2>3, <3>1, <3>2
    <3> QED
      BY <3>3
  <2> QED
    BY <1>1, <2>1, <2>2, <2>3 DEF OnePlace, Somewhere
<1> QED
  BY <1>6, FS_Singleton

\* For any groups and numbers of updates: every update of a group's workers is with
\* the master, on its way there, or still to be sent, and in one of these places
\* only, whether groups answer or keep their part (Server::HandleSyncRequest).
THEOREM SyncLosesNothing == Spec => []NothingLost
BY SyncOnePlace, OnePlacePlaces, PTL

\* For any groups and numbers of updates: the master never gives up an update it
\* has, whatever is put, updated or answered.
THEOREM SyncMasterKeeps == Spec => MasterKeeps
<1> DEFINE Keeps == \A u \in Update : cur'[Master][u] >= cur[Master][u]
<1>1. TypeOK /\ OnePlace /\ [Next]_vars => [Keeps]_cur
  <2> SUFFICES ASSUME TypeOK, OnePlace, Next, NEW u \in Update, cur' # cur
      PROVE  cur'[Master][u] >= cur[Master][u]
    BY DEF vars
  <2>0. Master \in Grp /\ cur[Master][u] \in {0, 1}
    BY SyncAssumption DEF OnePlace, AtMaster
  <2>1. ASSUME NEW g \in Grp, HandlePut(g) PROVE cur'[Master][u] >= cur[Master][u]
    <3>1. CASE g = Master
      <4>1. cur[Master][u] = 0
        BY <2>1, <3>1 DEF HandlePut, OnePlace, Absent
      <4>2. cur'[Master][u] \in {0, 1}
        BY <2>1, PutOnePlace DEF OnePlace, AtMaster
      <4> QED
        BY <4>1, <4>2
    <3>2. CASE g # Master
      BY <2>0, <2>1, <3>2 DEF HandlePut, TypeOK
    <3> QED
      BY <3>1, <3>2
  <2>2. ASSUME NEW g \in Grp, HandleUpdate(g) PROVE cur'[Master][u] >= cur[Master][u]
    <3> DEFINE new == <<g, count[g] + 1>>
    <3>1. Plus(cur[g], Unit(new))[u] = cur[g][u] + (IF u = new THEN 1 ELSE 0)
      BY SumAt
    <3>2. cur' = [cur EXCEPT ![g] = Plus(cur[g], Unit(new))]
      BY <2>2 DEF HandleUpdate
    <3> HIDE DEF new
    <3> QED
      BY <2>0, <3>1, <3>2 DEF TypeOK
  <2>3. ASSUME NEW g \in Others, AnswerSync(g) PROVE cur'[Master][u] >= cur[Master][u]
    BY <2>0, <2>3 DEF AnswerSync, Others, TypeOK
  <2>4. ASSUME NEW g \in Others, KeepSync(g) PROVE cur'[Master][u] >= cur[Master][u]
    BY <2>0, <2>4 DEF KeepSync, Others, TypeOK
  <2>5. ASSUME NEW g \in Others, HandleAnswer(g) PROVE cur'[Master][u] >= cur[Master][u]
    <3> DEFINE a == Head(to_master[g])
    <3>1. g \in Grp /\ to_master[g] \in Seq(Value) /\ to_master[g] # <<>>
      BY <2>5 DEF HandleAnswer, Others, TypeOK
    <3>2. a = to_master[g][1] /\ 1 \in 1..Len(to_master[g])
      BY <3>1, TailAt
    <3>3. a[u] \in {0, 1}
      BY <3>2 DEF OnePlace, Answers
    <3>4. Plus(cur[Master], a)[u] = cur[Master][u] + a[u]
      BY SumAt
    <3>5. cur' = [cur EXCEPT ![Master] = Plus(cur[Master], a)]
      BY <2>5 DEF HandleAnswer
    <3> HIDE DEF a
    <3> QED
      BY <2>0, <3>3, <3>4, <3>5 DEF TypeOK
  <2> QED
    BY <2>1, <2>2, <2>3, <2>4, <2>5 DEF Next, SyncReminder, Requeue, Idle, vars
<1> QED
  BY <1>1, SyncOnePlace, PTL DEF Spec, MasterKeeps

-----------------------------------------------------------------------------
LEMMA PendingIs ==
  /\ \A x : x \in Pending <=> \E g \in Others : \E i \in 1..Open(g) : x = <<g, i>>
  /\ \A x : x \in Pending' <=> \E g \in Others : \E i \in 1..(Open(g))' : x = <<g, i>>
BY DEF Pending

LEMMA OpenType == TypeOK => \A g \in Others : Open(g) \in Nat
BY LenProperties DEF TypeOK, Open, Others

LEMMA GroupCount ==
  /\ IsFiniteSet(Others) /\ Cardinality(Others) \in Nat
  /\ Cardinality(Grp) = Cardinality(Others) + 1
<1>1. IsFiniteSet(Grp) /\ Master \in Grp
  BY SyncAssumption
<1>2. IsFiniteSet(Grp \ {Master}) /\ Cardinality(Grp \ {Master}) = Cardinality(Grp) - 1
  BY <1>1, FS_RemoveElement
<1>3. Cardinality(Grp) \in Nat /\ Cardinality(Grp \ {Master}) \in Nat
  BY <1>1, <1>2, FS_CardinalityType
<1> QED
  BY <1>2, <1>3 DEF Others

LEMMA OneMoreTimes == \A k, r \in Nat : k * r \in Nat /\ (k + 1) * r = k * r + r
OBVIOUS

LEMMA OpenStep ==
  ASSUME NEW g, Len(to_group[g]) \in Nat, Len(to_master[g]) \in Nat
  PROVE  /\ Len(to_group'[g]) = Len(to_group[g]) + 1 /\ Len(to_master'[g]) = Len(to_master[g])
              => (Open(g))' = Open(g) + 1
         /\ Len(to_group'[g]) = Len(to_group[g]) - 1 /\ Len(to_master'[g]) = Len(to_master[g]) + 1
              => (Open(g))' = Open(g)
         /\ Len(to_group'[g]) = Len(to_group[g]) - 1 /\ Len(to_master'[g]) = Len(to_master[g])
              => (Open(g))' = Open(g) - 1
         /\ Len(to_group'[g]) = Len(to_group[g]) /\ Len(to_master'[g]) = Len(to_master[g]) - 1
              => (Open(g))' = Open(g) - 1
         /\ Len(to_group[g]) > 0 \/ Len(to_master[g]) > 0 => Open(g) > 0
<1> DEFINE a == Len(to_group[g])
           b == Len(to_master[g])
           c == Len(to_group'[g])
           d == Len(to_master'[g])
<1>1. Open(g) = a + b /\ (Open(g))' = c + d
  BY DEF Open
<1>2. a \in Nat /\ b \in Nat
  OBVIOUS
<1> HIDE DEF a, b, c, d
<1>3. /\ c = a + 1 /\ d = b => (Open(g))' = Open(g) + 1
      /\ c = a - 1 /\ d = b + 1 => (Open(g))' = Open(g)
      /\ c = a - 1 /\ d = b => (Open(g))' = Open(g) - 1
      /\ c = a /\ d = b - 1 => (Open(g))' = Open(g) - 1
      /\ a > 0 \/ b > 0 => Open(g) > 0
  BY <1>1, <1>2
<1> QED
  BY <1>3, Zenon DEF a, b, c, d

\* No message comes or goes.
LEMMA SamePending ==
  ASSUME \A g \in Others : (Open(g))' = Open(g)
  PROVE  Pending' = Pending
BY PendingIs

\* Group g ends its part of a round.
LEMMA OneLess ==
  ASSUME TypeOK, IsFiniteSet(Pending), NEW g \in Others,
         Open(g) > 0, (Open(g))' = Open(g) - 1,
         \A h \in Others : h # g => (Open(h))' = Open(h)
  PROVE  /\ IsFiniteSet(Pending')
         /\ Cardinality(Pending) \in Nat
         /\ Cardinality(Pending') = Cardinality(Pending) - 1
<1> DEFINE x == <<g, Open(g)>>
<1>0. \A h \in Others : Open(h) \in Nat
  BY OpenType
<1>1. x \in Pending
  BY PendingIs, <1>0
<1>2. Pending' = Pending \ {x}
  <2>1. ASSUME NEW y \in Pending' PROVE y \in Pending /\ y # x
    <3>0. PICK h \in Others : \E i \in 1..(Open(h))' : y = <<h, i>>
      BY <2>1, PendingIs
    <3>1. PICK i \in 1..(Open(h))' : y = <<h, i>>
      BY <3>0
    <3>2. i \in 1..Open(h) /\ (h = g => i # Open(g))
      BY <3>1, <1>0
    <3>3. y \in Pending
      BY <3>1, <3>2, PendingIs
    <3>4. y # x
      BY <3>1, <3>2
    <3> QED
      BY <3>3, <3>4
  <2>2. ASSUME NEW y \in Pending, y # x PROVE y \in Pending'
    <3>0. PICK h \in Others : \E i \in 1..Open(h) : y = <<h, i>>
      BY <2>2, PendingIs
    <3>1. PICK i \in 1..Open(h) : y = <<h, i>>
      BY <3>0
    <3>2. h = g => i # Open(g)
      BY <2>2, <3>1
    <3>3. i \in 1..(Open(h))'
      BY <3>1, <3>2, <1>0
    <3> QED
      BY <3>1, <3>3, PendingIs
  <2> QED
    BY <2>1, <2>2
<1> QED
  BY <1>1, <1>2, FS_RemoveElement, FS_CardinalityType

\* A round starts in every other group.
LEMMA OneMoreEach ==
  ASSUME TypeOK, IsFiniteSet(Pending), \A g \in Others : (Open(g))' = Open(g) + 1
  PROVE  /\ IsFiniteSet(Pending')
         /\ Cardinality(Pending) \in Nat
         /\ Cardinality(Pending') = Cardinality(Pending) + Cardinality(Others)
<1> DEFINE new(g) == <<g, Open(g) + 1>>
           New == {new(g) : g \in Others}
           f == [g \in Others |-> new(g)]
<1>0. \A h \in Others : Open(h) \in Nat
  BY OpenType
<1>1. f \in Bijection(Others, New)
  <2>1. f \in Surjection(Others, New)
    BY DEF Surjection
  <2>2. f \in Injection(Others, New)
    BY DEF Injection, IsInjective
  <2> QED
    BY <2>1, <2>2 DEF Bijection
<1>2. IsFiniteSet(New) /\ Cardinality(New) = Cardinality(Others)
  <2> HIDE DEF New, f
  <2>1. ExistsBijection(Others, New)
    BY <1>1 DEF ExistsBijection
  <2> QED
    BY <2>1, GroupCount, FS_Bijection
<1>3. Pending' = Pending \cup New
  <2>1. ASSUME NEW y \in Pending' PROVE y \in Pending \cup New
    <3>0. PICK h \in Others : \E i \in 1..(Open(h))' : y = <<h, i>>
      BY <2>1, PendingIs
    <3>1. PICK i \in 1..(Open(h))' : y = <<h, i>>
      BY <3>0
    <3>2. i \in 1..Open(h) \/ i = Open(h) + 1
      BY <3>1, <1>0
    <3> QED
      BY <3>1, <3>2, PendingIs
  <2>2. ASSUME NEW y \in Pending PROVE y \in Pending'
    <3>0. PICK h \in Others : \E i \in 1..Open(h) : y = <<h, i>>
      BY <2>2, PendingIs
    <3>1. PICK i \in 1..Open(h) : y = <<h, i>>
      BY <3>0
    <3>2. i \in 1..(Open(h))'
      BY <3>1, <1>0
    <3> QED
      BY <3>1, <3>2, PendingIs
  <2>3. ASSUME NEW g \in Others PROVE new(g) \in Pending'
    <3>1. Open(g) + 1 \in 1..(Open(g))'
      BY <1>0
    <3> QED
      BY <3>1, PendingIs
  <2> QED
    BY <2>1, <2>2, <2>3
<1>4. Pending \cap New = {}
  <2> SUFFICES ASSUME NEW y \in Pending, NEW g \in Others, y = new(g) PROVE FALSE
    OBVIOUS
  <2>0. PICK h \in Others : \E i \in 1..Open(h) : y = <<h, i>>
    BY PendingIs
  <2>1. PICK i \in 1..Open(h) : y = <<h, i>>
    BY <2>0
  <2>2. h = g /\ i = Open(g) + 1
    BY <2>1
  <2> QED
    BY <2>1, <2>2, <1>0
<1> HIDE DEF New
<1>5. Cardinality(Pending \cap New) = 0
  BY <1>4, FS_EmptySet
<1>6. Cardinality(Pending) \in Nat /\ Cardinality(New) \in Nat
  BY <1>2, FS_CardinalityType
<1>7. /\ IsFiniteSet(Pending \cup New)
      /\ Cardinality(Pending \cup New)
           = Cardinality(Pending) + Cardinality(New) - Cardinality(Pending \cap New)
  BY <1>2, FS_Union
<1> QED
  BY <1>2, <1>3, <1>5, <1>6, <1>7

LEMMA PaidInit == Init => Paid
<1> SUFFICES ASSUME Init PROVE Paid
  OBVIOUS
<1>1. \A g \in Others : Open(g) = 0
  BY DEF Init, Open, Others
<1>2. Pending = {}
  <2> SUFFICES ASSUME NEW x \in Pending PROVE FALSE
    OBVIOUS
  <2> QED
    BY <1>1, PendingIs
<1>3. IsFiniteSet(Pending) /\ Cardinality(Pending) = 0
  BY <1>2, FS_EmptySet
<1>4. Cardinality(Grp) * 0 = 0 /\ Cardinality(Others) * 0 = 0
  BY GroupCount
<1> QED
  BY <1>3, <1>4, SyncAssumption DEF Init, Paid

LEMMA PaidNext ==
  ASSUME TypeOK, TypeOK', Paid, [Next]_vars
  PROVE  Paid'
<1>0. /\ Master \in Grp /\ Others \subseteq Grp /\ Master \notin Others
      /\ Cardinality(Others) \in Nat /\ Cardinality(Grp) = Cardinality(Others) + 1
      /\ Cardinality(Pending) \in Nat /\ count[Master] \in Nat /\ rounds \in Nat
      /\ local_version \in Nat /\ version \in Nat
  BY SyncAssumption, GroupCount, FS_CardinalityType DEF Others, Paid, TypeOK
<1>1. \A g \in Others : to_group[g] \in Seq(Value) /\ to_master[g] \in Seq(Value)
                        /\ Len(to_group[g]) \in Nat /\ Len(to_master[g]) \in Nat
                        /\ Len(to_group'[g]) \in Nat /\ Len(to_master'[g]) \in Nat
  BY <1>0, LenProperties DEF TypeOK
<1>2. ASSUME NEW g \in Grp, HandlePut(g) PROVE Paid'
  <2>1. Pending' = Pending
    BY <1>2, SamePending DEF HandlePut, Open
  <2> QED
    BY <1>2, <2>1 DEF HandlePut, Paid
<1>3. ASSUME NEW g \in Grp, HandleUpdate(g) PROVE Paid'
  <2>1. Pending' = Pending
    BY <1>3, SamePending DEF HandleUpdate, Open
  <2>2. /\ version' = version /\ rounds' = rounds
        /\ \/ local_version' = local_version + 1 /\ count'[Master] = count[Master] + 1
           \/ local_version' = local_version /\ count'[Master] = count[Master]
    BY <1>0, <1>3 DEF HandleUpdate, TypeOK
  <2> DEFINE K == Cardinality(Others) * rounds
             M == Cardinality(Grp) * rounds
  <2>3. K \in Int /\ M \in Int
    BY <1>0
  <2>4. version <= local_version /\ M <= version /\ IsFiniteSet(Pending)
        /\ local_version + Cardinality(Pending) <= count[Master] + K
    BY DEF Paid
  <2>5. version' <= local_version' /\ M <= version' /\ IsFiniteSet(Pending')
        /\ local_version' + Cardinality(Pending') <= count'[Master] + K
    <3> HIDE DEF K, M
    <3> QED
      BY <1>0, <2>1, <2>2, <2>3, <2>4
  <2> QED
    BY <2>2, <2>5 DEF Paid
<1>4. CASE SyncReminder
  <2>1. \A g \in Others : (Open(g))' = Open(g) + 1
    <3> SUFFICES ASSUME NEW g \in Others PROVE (Open(g))' = Open(g) + 1
      OBVIOUS
    <3>1. to_group'[g] = Append(to_group[g], cur[Master]) /\ to_master'[g] = to_master[g]
      BY <1>0, <1>4 DEF SyncReminder
    <3>2. cur[Master] \in Value
      BY <1>0 DEF TypeOK
    <3>3. Len(to_group'[g]) = Len(to_group[g]) + 1
      BY <1>1, <3>1, <3>2, AppendAt
    <3>4. Len(to_master'[g]) = Len(to_master[g])
      BY <3>1
    <3> QED
      BY <1>1, <3>3, <3>4, OpenStep
  <2>2. /\ IsFiniteSet(Pending')
        /\ Cardinality(Pending') = Cardinality(Pending) + Cardinality(Others)
    BY <2>1, OneMoreEach DEF Paid
  <2>3. /\ version' = local_version /\ local_version' = local_version
        /\ rounds' = rounds + 1 /\ count' = count
        /\ local_version - version >= Cardinality(Grp)
    BY <1>0, <1>4 DEF SyncReminder, SyncDue, Paid
  <2> DEFINE K == Cardinality(Others) * rounds
             M == Cardinality(Grp) * rounds
  <2>4. /\ K \in Int /\ M \in Int
        /\ Cardinality(Others) * rounds' = K + Cardinality(Others)
        /\ Cardinality(Grp) * rounds' = M + Cardinality(Grp)
    BY <1>0, <2>3
  <2>5. M <= version /\ local_version + Cardinality(Pending) <= count[Master] + K
    BY DEF Paid
  <2>6. /\ version' <= local_version' /\ M + Cardinality(Grp) <= version'
        /\ local_version' + Cardinality(Pending') <= count'[Master] + (K + Cardinality(Others))
    <3> HIDE DEF K, M
    <3> QED
      BY <1>0, <2>2, <2>3, <2>4, <2>5
  <2> QED
    BY <2>2, <2>4, <2>6 DEF Paid
<1>5. ASSUME NEW g \in Others, Requeue(g) PROVE Paid'
  <2>1. (Open(g))' = Open(g)
    <3>1. to_group[g] # <<>> /\ to_master' = to_master
      BY <1>5 DEF Requeue
    <3>2. to_group'[g] = Append(Tail(to_group[g]), Head(to_group[g]))
      BY <1>0, <1>5 DEF Requeue, TypeOK
    <3>3. Len(to_group'[g]) = Len(to_group[g])
      BY <1>1, <3>1, <3>2, TailAt, AppendAt
    <3> QED
      BY <3>1, <3>3 DEF Open
  <2>2. \A h \in Others : h # g => (Open(h))' = Open(h)
    BY <1>0, <1>5 DEF Requeue, Open, TypeOK
  <2>3. Pending' = Pending
    BY <2>1, <2>2, SamePending
  <2> QED
    BY <1>5, <2>3 DEF Requeue, Paid
<1>6. ASSUME NEW g \in Others, AnswerSync(g) PROVE Paid'
  <2>1. (Open(g))' = Open(g)
    <3> DEFINE diff == Minus(cur[g], last_data[g])
    <3>1. diff \in Value
      BY <1>0, SumType DEF TypeOK
    <3>2. to_group[g] # <<>> /\ to_group'[g] = Tail(to_group[g])
          /\ to_master'[g] = Append(to_master[g], diff)
      BY <1>0, <1>6 DEF AnswerSync, TypeOK
    <3>3. Len(to_group'[g]) = Len(to_group[g]) - 1
      BY <1>1, <3>2, TailAt
    <3>4. Len(to_master'[g]) = Len(to_master[g]) + 1
      BY <1>1, <3>1, <3>2, AppendAt
    <3> QED
      BY <1>1, <3>3, <3>4, OpenStep
  <2>2. \A h \in Others : h # g => (Open(h))' = Open(h)
    BY <1>0, <1>6 DEF AnswerSync, Open, TypeOK
  <2>3. Pending' = Pending
    BY <2>1, <2>2, SamePending
  <2> QED
    BY <1>6, <2>3 DEF AnswerSync, Paid
<1>7. ASSUME NEW g \in Others, KeepSync(g) PROVE Paid'
  <2>1. (Open(g))' = Open(g) - 1 /\ Open(g) > 0
    <3>1. to_group[g] # <<>> /\ to_group'[g] = Tail(to_group[g]) /\ to_master' = to_master
      BY <1>0, <1>7 DEF KeepSync, TypeOK
    <3>2. Len(to_group'[g]) = Len(to_group[g]) - 1 /\ Len(to_group[g]) > 0
      BY <1>1, <3>1, TailAt
    <3>3. Len(to_master'[g]) = Len(to_master[g])
      BY <3>1
    <3> QED
      BY <1>1, <3>2, <3>3, OpenStep
  <2>2. \A h \in Others : h # g => (Open(h))' = Open(h)
    BY <1>0, <1>7 DEF KeepSync, Open, TypeOK
  <2>3. IsFiniteSet(Pending') /\ Cardinality(Pending') = Cardinality(Pending) - 1
    BY <2>1, <2>2, OneLess DEF Paid
  <2>4. local_version' = local_version /\ version' = version /\ count' = count /\ rounds' = rounds
    BY <1>7 DEF KeepSync
  <2> DEFINE K == Cardinality(Others) * rounds
  <2>5. K \in Int /\ local_version + Cardinality(Pending) <= count[Master] + K
    BY <1>0 DEF Paid
  <2>6. local_version' + Cardinality(Pending') <= count[Master] + K
    <3> HIDE DEF K
    <3> QED
      BY <1>0, <2>3, <2>4, <2>5
  <2> QED
    BY <2>3, <2>4, <2>6 DEF Paid
<1>8. ASSUME NEW g \in Others, HandleAnswer(g) PROVE Paid'
  <2>1. (Open(g))' = Open(g) - 1 /\ Open(g) > 0
    <3>1. to_master[g] # <<>> /\ to_master'[g] = Tail(to_master[g]) /\ to_group' = to_group
      BY <1>0, <1>8 DEF HandleAnswer, TypeOK
    <3>2. Len(to_master'[g]) = Len(to_master[g]) - 1 /\ Len(to_master[g]) > 0
      BY <1>1, <3>1, TailAt
    <3>3. Len(to_group'[g]) = Len(to_group[g])
      BY <3>1
    <3> QED
      BY <1>1, <3>2, <3>3, OpenStep
  <2>2. \A h \in Others : h # g => (Open(h))' = Open(h)
    BY <1>0, <1>8 DEF HandleAnswer, Open, TypeOK
  <2>3. IsFiniteSet(Pending') /\ Cardinality(Pending') = Cardinality(Pending) - 1
    BY <2>1, <2>2, OneLess DEF Paid
  <2>4. local_version' = local_version + 1 /\ version' = version /\ count' = count
        /\ rounds' = rounds
    BY <1>8 DEF HandleAnswer
  <2> DEFINE K == Cardinality(Others) * rounds
  <2>5. /\ K \in Int /\ local_version + Cardinality(Pending) <= count[Master] + K
        /\ version <= local_version
    BY <1>0 DEF Paid
  <2>6. local_version' + Cardinality(Pending') <= count[Master] + K /\ version <= local_version'
    <3> HIDE DEF K
    <3> QED
      BY <1>0, <2>3, <2>4, <2>5
  <2> QED
    BY <2>3, <2>4, <2>6 DEF Paid
<1>9. CASE UNCHANGED vars
  <2>1. Pending' = Pending
    BY <1>9, SamePending DEF vars, Open
  <2> QED
    BY <1>9, <2>1 DEF vars, Paid
<1> QED
  BY <1>2, <1>3, <1>4, <1>5, <1>6, <1>7, <1>8, <1>9 DEF Next, Idle

\* N rounds of N - 1 answers leave N updates of the master's own.
LEMMA PaidPays == TypeOK /\ Paid => RoundsArePaidFor
<1> SUFFICES ASSUME TypeOK, Paid PROVE rounds <= count[Master]
  BY DEF RoundsArePaidFor
<1> DEFINE K == Cardinality(Others) * rounds
<1>1. /\ Cardinality(Others) \in Nat /\ Cardinality(Grp) = Cardinality(Others) + 1
      /\ Cardinality(Pending) \in Nat /\ count[Master] \in Nat /\ rounds \in Nat
      /\ local_version \in Nat /\ version \in Nat
  BY SyncAssumption, GroupCount, FS_CardinalityType DEF Others, Paid, TypeOK
<1>2. K \in Int /\ Cardinality(Grp) * rounds = K + rounds
  <2>1. K \in Nat /\ (Cardinality(Others) + 1) * rounds = K + rounds
    BY <1>1, OneMoreTimes, Zenon
  <2> QED
    BY <1>1, <2>1
<1>3. /\ version <= local_version /\ K + rounds <= version
      /\ local_version + Cardinality(Pending) <= count[Master] + K
  BY <1>2 DEF Paid
<1> HIDE DEF K
<1> QED
  BY <1>1, <1>2, <1>3

\* For any groups and numbers of updates: the answers of a round alone never start
\* the next one, every round takes an update of the master's own workers
\* (the threshold in Server::Run).
THEOREM SyncRoundsArePaid == Spec => []RoundsArePaidFor
<1>1. Init => TypeOK /\ Paid
  BY TypeInit, PaidInit
<1>2. (TypeOK /\ Paid) /\ [Next]_vars => (TypeOK /\ Paid)'
  BY TypeNext, PaidNext
<1> QED
  BY <1>1, <1>2, PaidPays, PTL DEF Spec

=============================================================================
