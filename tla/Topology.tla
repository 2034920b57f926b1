------------------------------ MODULE Topology ------------------------------
(***************************************************************************)
(* Which process runs which worker and server: the table a Cluster builds  *)
(* from its configuration, used to route messages, and the threads each    *)
(* process creates from its own id.  A configuration is a record           *)
(*   [nwg, nw, wpp, nsg, ns, spp, separate]                                *)
(* of worker groups, workers per group and per process, the same of        *)
(* servers, and whether servers have processes of their own.               *)
(***************************************************************************)
EXTENDS Integers, FiniteSets

\* A cluster with workers and servers.
Config == [nwg : Nat \ {0}, nw : Nat \ {0}, wpp : Nat \ {0}, nsg : Nat \ {0}, ns : Nat \ {0},
           spp : Nat \ {0}, separate : BOOLEAN]

kWorkerParam == 0
kWorkerLayer == 1
kServer == 2

nworker_procs(c) == (c.nwg * c.nw) \div c.wpp
nserver_procs(c) == (c.nsg * c.ns) \div c.spp

nprocs(c) ==
  IF c.separate THEN nworker_procs(c) + nserver_procs(c)
  ELSE IF nworker_procs(c) > nserver_procs(c) THEN nworker_procs(c) ELSE nserver_procs(c)

Hash(c, gid, id, flag) ==
  IF flag = kServer THEN (flag * c.nsg + gid) * c.ns + id
                    ELSE (flag * c.nwg + gid) * c.nw + id

WorkerIds(c) == (0..(c.nwg - 1)) \X (0..(c.nw - 1))
ServerIds(c) == (0..(c.nsg - 1)) \X (0..(c.ns - 1))

WorkerProc(c, w) == (w[1] * c.nw + w[2]) \div c.wpp

\* Fault: the servers begin in the process of the last worker.
OffsetLast(c) == IF c.separate THEN WorkerProc(c, <<c.nwg - 1, c.nw - 1>>) ELSE 0

\* procs + 1 where procs is the process of the last worker.
Offset(c) == IF c.separate THEN WorkerProc(c, <<c.nwg - 1, c.nw - 1>>) + 1 ELSE 0

ServerProc(c, s) == (s[1] * c.ns + s[2]) \div c.spp + Offset(c)

\* procs_ids_ is filled for the workers first and for the servers last: a
\* server's entry replaces that of a worker with the same hash.
ProcsIDOf(c, gid, id, flag) ==
  LET h == Hash(c, gid, id, flag)
      servers == {s \in ServerIds(c) : Hash(c, s[1], s[2], kServer) = h}
      workers == {w \in WorkerIds(c) :
                    \E f \in {kWorkerParam, kWorkerLayer} : Hash(c, w[1], w[2], f) = h}
  IN  IF servers # {} THEN ServerProc(c, CHOOSE s \in servers : TRUE)
                      ELSE WorkerProc(c, CHOOSE w \in workers : TRUE)

-----------------------------------------------------------------------------
has_server(c, p) == IF c.separate THEN p >= nworker_procs(c) ELSE p < nserver_procs(c)
has_worker(c, p) == p < nworker_procs(c)

Divides(m, n) == n % m = 0

CreateServers(c, p) ==
  LET pid == IF c.separate THEN p - nworker_procs(c) ELSE p
      gid == (pid * c.spp) \div c.ns
      start == (pid * c.spp) % c.ns
  IN  IF has_server(c, p) THEN {gid} \X (start..(start + c.spp - 1)) ELSE {}

\* A part of one group, or several whole groups; a process whose workers are
\* neither ends in a CHECK.
CreateWorkers(c, p) ==
  LET start == (p * c.wpp) % c.nw
      per == c.wpp \div c.nw
  IN  IF ~has_worker(c, p) THEN {}
      ELSE IF c.nw >= c.wpp
           THEN {(p * c.wpp) \div c.nw} \X (start..(start + c.wpp - 1))
      ELSE IF ~Divides(c.nw, c.wpp) THEN {}
           ELSE ((p * per)..((p + 1) * per - 1)) \X (0..(c.nw - 1))

-----------------------------------------------------------------------------
\* Processes are full, and do not cut across groups.
Regular(c) ==
  /\ Divides(c.wpp, c.nwg * c.nw) /\ (Divides(c.wpp, c.nw) \/ Divides(c.nw, c.wpp))
  /\ Divides(c.spp, c.ns)

\* A server's entry has replaced that of worker w for the flag f: what is sent
\* to w goes to the process of that server.
Replaced(c, w, f) ==
  \E s \in ServerIds(c) : Hash(c, s[1], s[2], kServer) = Hash(c, w[1], w[2], f)

\* Every process creates exactly the threads that the table of every process,
\* which has no other source than the configuration, places there, but for the
\* workers whose entries servers have replaced.  Of the entries for parameters
\* none is, if there are at most twice as many workers as servers.
ThreadsArePlaced(c) ==
  Regular(c) =>
    /\ \A p \in 0..(nprocs(c) - 1) :
         /\ CreateServers(c, p) = {s \in ServerIds(c) : ProcsIDOf(c, s[1], s[2], kServer) = p}
         /\ \A f \in {kWorkerParam, kWorkerLayer} : \A w \in WorkerIds(c) :
              Replaced(c, w, f) \/ (w \in CreateWorkers(c, p) <=> ProcsIDOf(c, w[1], w[2], f) = p)
         /\ CreateWorkers(c, p) \subseteq WorkerIds(c)
    /\ c.nwg * c.nw <= 2 * c.nsg * c.ns => \A w \in WorkerIds(c) : ~Replaced(c, w, kWorkerParam)
=============================================================================
