----------------------------- MODULE ServerSync -----------------------------
(***************************************************************************)
(* Synchronization among server groups, for one slice.  Every group keeps  *)
(* a copy that its own workers update; one group masters the slice and     *)
(* exchanges values with the others:                                       *)
(*                                                                         *)
(*   master --- its whole value --> group --- what it added --> master     *)
(*                                                                         *)
(* The value of a copy is a formal sum: how often each update, and each    *)
(* group's initial value, is in it.  Messages between two servers travel   *)
(* through the same sockets and keep their order, but a request that comes *)
(* before the slice is put is re-queued behind the later ones.             *)
(***************************************************************************)
EXTENDS Integers, Sequences, FiniteSets

CONSTANTS
  Grp,             \* server groups
  Master,          \* slice2group_ of the slice
  MaxUpdates       \* bound: updates by the workers of each group

ASSUME SyncAssumption ==
  /\ IsFiniteSet(Grp) /\ Master \in Grp
  /\ MaxUpdates \in Nat

Others == Grp \ {Master}

\* The i-th update applied by group g; number 0 is its initial value.
Update == Grp \X (0..MaxUpdates)

Zero == [u \in Update |-> 0]
Unit(v) == [u \in Update |-> IF u = v THEN 1 ELSE 0]
Plus(a, b) == [u \in Update |-> a[u] + b[u]]
Minus(a, b) == [u \in Update |-> a[u] - b[u]]

VARIABLES
  shard,           \* groups that have the slice
  cur,             \* Param data of every group
  last_data,       \* last_data_ of the groups that do not master the slice
  local_version, version,   \* of the master
  count,           \* updates applied by every group's workers
  to_group,        \* sync requests to a group, oldest first
  to_master,       \* answers of a group, oldest first
  rounds           \* how often the master started a synchronization

vars == <<shard, cur, last_data, local_version, version, count, to_group,
          to_master, rounds>>

Init ==
  /\ shard = {}
  /\ cur = [g \in Grp |-> Zero]
  /\ last_data = [g \in Grp |-> Zero]
  /\ local_version = 0
  /\ version = 0
  /\ count = [g \in Grp |-> 0]
  /\ to_group = [g \in Grp |-> <<>>]
  /\ to_master = [g \in Grp |-> <<>>]
  /\ rounds = 0

-----------------------------------------------------------------------------
\* The first worker group of each server group puts its own initial value; a
\* group that does not master the slice remembers it.
HandlePut(g) ==
  /\ g \notin shard
  /\ shard' = shard \cup {g}
  /\ cur' = [cur EXCEPT ![g] = Unit(<<g, 0>>)]
  /\ last_data' = IF g = Master THEN last_data
                  ELSE [last_data EXCEPT ![g] = Unit(<<g, 0>>)]
  /\ UNCHANGED <<local_version, version, count, to_group, to_master, rounds>>

\* The workers of g update its copy.
HandleUpdate(g) ==
  /\ g \in shard
  /\ count[g] < MaxUpdates
  /\ count' = [count EXCEPT ![g] = @ + 1]
  /\ cur' = [cur EXCEPT ![g] = Plus(@, Unit(<<g, count[g] + 1>>))]
  /\ local_version' = IF g = Master THEN local_version + 1 ELSE local_version
  /\ UNCHANGED <<shard, last_data, version, to_group, to_master, rounds>>

\* Fault: one increment less is enough.
SyncDueEarly == local_version - version >= Cardinality(Grp) - 1

\* A reminder starts a synchronization once there are enough updates.
SyncDue ==
  \/ local_version - version >= Cardinality(Grp)
  \/ version - local_version >= Cardinality(Grp)

\* The master sends its value to every other group.
SyncReminder ==
  /\ Master \in shard
  /\ SyncDue
  /\ Others # {}
  /\ to_group' = [g \in Grp |-> IF g \in Others THEN Append(to_group[g], cur[Master])
                                                ELSE to_group[g]]
  /\ version' = local_version
  /\ rounds' = rounds + 1
  /\ UNCHANGED <<shard, cur, last_data, local_version, count, to_master>>

\* A request that comes before the slice goes behind those that come later.
Requeue(g) ==
  /\ g \notin shard /\ to_group[g] # <<>>
  /\ to_group' = [to_group EXCEPT ![g] = Append(Tail(@), Head(@))]
  /\ UNCHANGED <<shard, cur, last_data, local_version, version, count, to_master,
                 rounds>>

\* Fault: the group remembers its whole value before the exchange.
AnswerSyncStale(g) ==
  LET tmp == Head(to_group[g])
      diff == Minus(cur[g], last_data[g])
  IN
  /\ g \in shard /\ to_group[g] # <<>>
  /\ to_group' = [to_group EXCEPT ![g] = Tail(@)]
  /\ to_master' = [to_master EXCEPT ![g] = Append(@, diff)]
  /\ last_data' = [last_data EXCEPT ![g] = cur[g]]
  /\ cur' = [cur EXCEPT ![g] = Plus(diff, tmp)]
  /\ UNCHANGED <<shard, local_version, version, count, rounds>>

\* A group with bandwidth left takes the master's value, adds what it has done
\* since the last time, and sends that back.
AnswerSync(g) ==
  LET tmp == Head(to_group[g])
      diff == Minus(cur[g], last_data[g])
  IN
  /\ g \in shard /\ to_group[g] # <<>>
  /\ to_group' = [to_group EXCEPT ![g] = Tail(@)]
  /\ to_master' = [to_master EXCEPT ![g] = Append(@, diff)]
  /\ last_data' = [last_data EXCEPT ![g] = Plus(diff, tmp)]
  /\ cur' = [cur EXCEPT ![g] = Plus(diff, tmp)]
  /\ UNCHANGED <<shard, local_version, version, count, rounds>>

\* Fault: the updates kept are forgotten.
KeepSyncForgets(g) ==
  /\ g \in shard /\ to_group[g] # <<>>
  /\ to_group' = [to_group EXCEPT ![g] = Tail(@)]
  /\ last_data' = [last_data EXCEPT ![g] = Head(to_group[g])]
  /\ cur' = [cur EXCEPT ![g] = Head(to_group[g])]
  /\ UNCHANGED <<shard, local_version, version, count, to_master, rounds>>

\* Without bandwidth it keeps its own updates for the next time.
KeepSync(g) ==
  LET tmp == Head(to_group[g])
      diff == Minus(cur[g], last_data[g])
  IN
  /\ g \in shard /\ to_group[g] # <<>>
  /\ to_group' = [to_group EXCEPT ![g] = Tail(@)]
  /\ last_data' = [last_data EXCEPT ![g] = tmp]
  /\ cur' = [cur EXCEPT ![g] = Plus(tmp, diff)]
  /\ UNCHANGED <<shard, local_version, version, count, to_master, rounds>>

\* Fault: the answer replaces the master's value.
HandleAnswerReplaces(g) ==
  /\ to_master[g] # <<>>
  /\ to_master' = [to_master EXCEPT ![g] = Tail(@)]
  /\ cur' = [cur EXCEPT ![Master] = Head(to_master[g])]
  /\ local_version' = local_version + 1
  /\ UNCHANGED <<shard, last_data, version, count, to_group, rounds>>

\* The master adds an answer.
HandleAnswer(g) ==
  /\ to_master[g] # <<>>
  /\ to_master' = [to_master EXCEPT ![g] = Tail(@)]
  /\ cur' = [cur EXCEPT ![Master] = Plus(@, Head(to_master[g]))]
  /\ local_version' = local_version + 1
  /\ UNCHANGED <<shard, last_data, version, count, to_group, rounds>>

\* Nothing is left to send and the workers are done.
Idle ==
  /\ \A g \in Grp : g \in shard /\ count[g] = MaxUpdates
  /\ \A g \in Grp : to_group[g] = <<>> /\ to_master[g] = <<>>
  /\ ~SyncDue
  /\ UNCHANGED vars

Next ==
  \/ \E g \in Grp : HandlePut(g) \/ HandleUpdate(g)
  \/ SyncReminder
  \/ \E g \in Others : Requeue(g) \/ AnswerSync(g) \/ KeepSync(g) \/ HandleAnswer(g)
  \/ Idle

Spec == Init /\ [][Next]_vars

-----------------------------------------------------------------------------
\* The update u of a group exists.
Made(u) == u[1] \in shard /\ u[2] <= count[u[1]]

\* What group g has added and not yet sent.
Unsent(g) == Minus(cur[g], last_data[g])

\* Nothing is added twice: in no copy does an update count more than once, or
\* less than zero, whatever is exchanged while workers go on updating
\* (Server::HandleSyncRequest).
NoDoubleCount ==
  \A g \in Grp, u \in Update : cur[g][u] \in {0, 1} /\ (cur[g][u] = 1 => Made(u))

\* Where update u of a group is: in the group's unsent part (0), in an answer on
\* its way (its position), or with the master (-1).
Places(u) ==
  LET g == u[1] IN
    {i \in -1..Len(to_master[g]) :
       CASE i = -1 -> cur[Master][u] # 0
         [] i = 0  -> Unsent(g)[u] # 0
         [] OTHER  -> to_master[g][i][u] # 0}

\* Nothing is lost: every update of a group's workers is with the master, on
\* its way there, or still to be sent, and in one of these places only.
NothingLost ==
  \A u \in Update : Made(u) /\ u[1] \in Others /\ u[2] > 0 => Cardinality(Places(u)) = 1

\* The master never gives up an update it has.
MasterKeeps ==
  [][\A u \in Update : cur'[Master][u] >= cur[Master][u]]_cur

\* Synchronization does not feed itself: the answers of one round are not
\* enough for the next one, which takes an update of the master's own workers.
RoundsArePaidFor == rounds <= count[Master]
=============================================================================
