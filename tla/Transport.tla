----------------------------- MODULE Transport -----------------------------
(***************************************************************************)
(* The messages of a job: every process has a stub (the main thread) with  *)
(* a Router; its worker and server threads each have a Dealer to it, and   *)
(* the stub opens a Dealer to the router of another process when it has    *)
(* the first message for it.  The router can only send to a thread it has  *)
(* heard of, and keeps earlier messages in a buffer.                       *)
(*                                                                         *)
(* The threads are reduced to their traffic: a worker sends requests to    *)
(* its stub, which asks every server of the worker's server group; servers *)
(* answer the asking stub; every thread says kConnect first and kStop      *)
(* last, a worker after it has left its server group.                      *)
(***************************************************************************)
EXTENDS Integers, Sequences, FiniteSets, SequencesExt, FiniteSetsExt

CONSTANTS
  Proc, Worker, Server,
  procOf,          \* Cluster::ProcsIDOf: the process of a thread
  groupOf,         \* server group of a server, and of the group of a worker
  BufSize,         \* bufsize_ of the router
  SyncServers,     \* nserver_grps > 1: poll timeouts send kSyncReminder
  MaxRequest,      \* bound: requests of each worker
  MaxReminder      \* bound: poll timeouts of each stub that send a reminder

Thread == Worker \cup Server
Node == Thread \cup Proc

ThreadsOf(p) == {t \in Thread : procOf[t] = p}

ServersOf(w) == {s \in Server : groupOf[s] = groupOf[w]}

ASSUME TransportAssumption ==
  /\ Worker \cap Server = {} /\ Proc \cap Thread = {} /\ IsFiniteSet(Thread)
  /\ procOf \in [Thread -> Proc]
  /\ BufSize \in Nat /\ MaxRequest \in [Worker -> Nat] /\ MaxReminder \in [Proc -> Nat]
  /\ SyncServers \in BOOLEAN

VARIABLES
  \* one stub per process
  running,         \* "no" before Register, then "yes"; "ended", "fatal" (a CHECK
                   \* failed) or "crashed" (a remainder by zero)
  msg_queue,       \* messages taken or generated, not yet handled
  id2addr,         \* threads whose dealer is known
  bufmsg,          \* bufmsg[p][t]: kept for a thread not yet known
  nBufmsg,         \* the counter compared with bufsize_
  left,            \* nworkers and nservers: threads that have not said kStop
  reminders,       \* timeouts that sent a reminder
  sync_server_id,  \* position of the server to remind next
  \* links
  inbox,           \* inbox[p][c]: from the dealer of c (thread or stub) to p's router
  tbox,            \* tbox[t]: from the router to the dealer of t
  \* threads
  state,           \* "new", "run" or "done"
  asked,           \* requests a worker has sent
  missing,         \* missing[w]: answers the stub still expects for w
  gone             \* workers that have left their server group

stubVars == <<running, msg_queue, id2addr, bufmsg, nBufmsg, left, reminders, sync_server_id>>
vars == <<stubVars, inbox, tbox, state, asked, missing, gone>>

Msg(type, src, dst, n) == [type |-> type, src |-> src, dst |-> dst, n |-> n]

Init ==
  /\ running = [p \in Proc |-> "no"]
  /\ msg_queue = [p \in Proc |-> << >>]
  /\ id2addr = [p \in Proc |-> {}]
  /\ bufmsg = [p \in Proc |-> [t \in Thread |-> << >>]]
  /\ nBufmsg = [p \in Proc |-> 0]
  /\ left = [p \in Proc |-> [workers |-> Cardinality(ThreadsOf(p) \cap Worker),
                             servers |-> Cardinality(ThreadsOf(p) \cap Server)]]
  /\ reminders = [p \in Proc |-> 0]
  /\ sync_server_id = [p \in Proc |-> 0]
  /\ inbox = [p \in Proc |-> [c \in Node |-> << >>]]
  /\ tbox = [t \in Thread |-> << >>]
  /\ state = [t \in Thread |-> "new"]
  /\ asked = [w \in Worker |-> 0]
  /\ missing = [w \in Worker |-> 0]
  /\ gone = {}

-----------------------------------------------------------------------------
(***************************************************************************)
(* Threads                                                                 *)
(***************************************************************************)
\* Fault: a message overtakes those of the thread that wait.
DealerSendFirst(t, m) ==
  inbox' = [inbox EXCEPT ![procOf[t]][t] = << m >> \o @]

\* Dealer::Send of a thread to the router of its process.
DealerSend(t, m) ==
  inbox' = [inbox EXCEPT ![procOf[t]][t] = Append(@, m)]

\* Worker::Run and Server::Run: the first message tells the stub the address.
ConnectStub(t) ==
  /\ state[t] = "new" /\ running[procOf[t]] = "yes"
  /\ state' = [state EXCEPT ![t] = "run"]
  /\ DealerSend(t, Msg("kConnect", t, procOf[t], <<t, 0>>))
  /\ UNCHANGED <<stubVars, tbox, asked, missing, gone>>

\* A thread lives as long as its process.
Alive(t) == state[t] = "run" /\ running[procOf[t]] = "yes"

\* A worker asks for a parameter; it has collected the answers of its last
\* request before.
WorkerRequest(w) ==
  /\ Alive(w) /\ asked[w] < MaxRequest[w] /\ missing[w] = 0
  /\ asked' = [asked EXCEPT ![w] = @ + 1]
  /\ missing' = [missing EXCEPT ![w] = Cardinality(ServersOf(w))]
  /\ DealerSend(w, Msg("kUpdate", w, procOf[w], <<w, asked[w]>>))
  /\ UNCHANGED <<stubVars, tbox, state, gone>>

\* The end of Worker::Run, first LeaveSGroup: the answers of the last request
\* are not awaited.
WorkerLeave(w) ==
  /\ Alive(w) /\ asked[w] = MaxRequest[w] /\ w \notin gone
  /\ gone' = gone \cup {w}
  /\ UNCHANGED <<stubVars, inbox, tbox, state, asked, missing>>

\* Then kStop.
WorkerStop(w) ==
  /\ Alive(w) /\ w \in gone
  /\ state' = [state EXCEPT ![w] = "done"]
  /\ DealerSend(w, Msg("kStop", w, procOf[w], <<w, MaxRequest[w]>>))
  /\ UNCHANGED <<stubVars, tbox, asked, missing, gone>>

\* A server answers the stub a request came from.
ServerReply(s) ==
  /\ Alive(s) /\ tbox[s] # << >>
  /\ tbox' = [tbox EXCEPT ![s] = Tail(@)]
  /\ LET m == Head(tbox[s])
     IN  IF m.type = "kUpdate"
         THEN DealerSend(s, [m EXCEPT !.type = "kRUpdate", !.src = s, !.dst = m.src])
         ELSE UNCHANGED inbox
  /\ UNCHANGED <<stubVars, state, asked, missing, gone>>

\* ZooKeeper tells a server when the workers of its own server group have left
\* (module ServerGroup); those of a process that died are taken for left.
GroupLeft(s) ==
  LET group == {w \in Worker : groupOf[w] = groupOf[s]}
  IN  /\ group # {}
      /\ \A w \in group : w \in gone \/ running[procOf[w]] \in {"fatal", "crashed"}

ServerStop(s) ==
  /\ Alive(s) /\ GroupLeft(s)
  /\ state' = [state EXCEPT ![s] = "done"]
  /\ DealerSend(s, Msg("kStop", s, procOf[s], <<s, 0>>))
  /\ UNCHANGED <<stubVars, tbox, asked, missing, gone>>

-----------------------------------------------------------------------------
(***************************************************************************)
(* Router and stub                                                         *)
(***************************************************************************)
\* Trainer::Start up to Run: bind and register, so that others can connect.
Start(p) ==
  /\ running[p] = "no"
  /\ running' = [running EXCEPT ![p] = "yes"]
  /\ UNCHANGED <<msg_queue, id2addr, bufmsg, nBufmsg, left, reminders, sync_server_id,
                 inbox, tbox, state, asked, missing, gone>>

\* nBufmsg_ restarts when nothing at all is buffered.
RouterCount(p, t) ==
  IF \A u \in Thread : bufmsg[p][u] = << >> THEN 1 ELSE nBufmsg[p] + 1

\* Router::Send to a thread of the process.
RouterSend(p, m) ==
  IF m.dst \in id2addr[p]
  THEN /\ tbox' = [tbox EXCEPT ![m.dst] = Append(@, m)]
       /\ UNCHANGED <<running, bufmsg, nBufmsg>>
  ELSE LET n == RouterCount(p, m.dst)
       IN  /\ bufmsg' = [bufmsg EXCEPT ![p][m.dst] = Append(@, m)]
           /\ nBufmsg' = [nBufmsg EXCEPT ![p] = n]
           /\ running' = [running EXCEPT ![p] = IF n <= BufSize THEN @ ELSE "fatal"]
           /\ UNCHANGED tbox

\* Fault: the messages kept for a new connection are forgotten.
FlushForgets(p, t) ==
  /\ tbox' = tbox
  /\ bufmsg' = [bufmsg EXCEPT ![p][t] = << >>]

\* The messages kept for a thread that has become known.
Flush(p, t) ==
  /\ tbox' = [tbox EXCEPT ![t] = @ \o bufmsg[p][t]]
  /\ bufmsg' = [bufmsg EXCEPT ![p][t] = << >>]

\* Router::Receive, when the stub has nothing queued: a message of any
\* connection; a sender not seen before becomes known.
RouterReceive(p, c) ==
  /\ running[p] = "yes" /\ msg_queue[p] = << >> /\ inbox[p][c] # << >>
  /\ inbox' = [inbox EXCEPT ![p][c] = Tail(@)]
  /\ msg_queue' = [msg_queue EXCEPT ![p] = << Head(inbox[p][c]) >>]
  /\ LET src == Head(inbox[p][c]).src
     IN  IF src \in Thread \ id2addr[p]
         THEN /\ id2addr' = [id2addr EXCEPT ![p] = @ \cup {src}]
              /\ Flush(p, src)
         ELSE UNCHANGED <<id2addr, tbox, bufmsg>>
  /\ UNCHANGED <<running, nBufmsg, left, reminders, sync_server_id, state, asked, missing, gone>>

\* A poll that times out: with several server groups and bandwidth to spare,
\* the local servers are reminded in turn to synchronize.  The turn is taken
\* modulo the servers that have not stopped: with none left, or none in the
\* process, the stub dies.
PollTimeout(p) ==
  /\ running[p] = "yes" /\ msg_queue[p] = << >>
  /\ \A c \in Node : inbox[p][c] = << >>
  /\ \/ UNCHANGED vars
     \/ /\ SyncServers /\ reminders[p] < MaxReminder[p]
        /\ reminders' = [reminders EXCEPT ![p] = @ + 1]
        /\ IF left[p].servers = 0
           THEN /\ running' = [running EXCEPT ![p] = "crashed"]
                /\ UNCHANGED <<sync_server_id, tbox, bufmsg, nBufmsg>>
           ELSE /\ LET s == SetToSeq(ThreadsOf(p) \cap Server)[1 + sync_server_id[p]]
                   IN  RouterSend(p, Msg("kSyncReminder", p, s, <<p, reminders[p]>>))
                /\ sync_server_id' =
                     [sync_server_id EXCEPT ![p] = (@ + 1) % left[p].servers]
        /\ UNCHANGED <<msg_queue, id2addr, left, inbox, state, asked, missing, gone>>

CountStop(p, t) ==
  IF t \in Server THEN [left[p] EXCEPT !.servers = @ - 1]
                  ELSE [left[p] EXCEPT !.workers = @ - 1]

\* Fault: the loop ends with the last one of a worker.
StubStopWorkers(p) ==
  /\ LET l == CountStop(p, Head(msg_queue[p]).src)
     IN  /\ left' = [left EXCEPT ![p] = l]
         /\ running' = [running EXCEPT ![p] = IF l.workers = 0 THEN "ended" ELSE @]
  /\ msg_queue' = [msg_queue EXCEPT ![p] = Tail(@)]
  /\ UNCHANGED <<id2addr, bufmsg, nBufmsg, reminders, sync_server_id, inbox, tbox, missing>>

\* kStop: the loop ends with the last one.
StubStop(p) ==
  /\ LET l == CountStop(p, Head(msg_queue[p]).src)
     IN  /\ left' = [left EXCEPT ![p] = l]
         /\ running' = [running EXCEPT ![p] =
                          IF l.workers = 0 /\ l.servers = 0 THEN "ended" ELSE @]
  /\ msg_queue' = [msg_queue EXCEPT ![p] = Tail(@)]
  /\ UNCHANGED <<id2addr, bufmsg, nBufmsg, reminders, sync_server_id, inbox, tbox, missing>>

\* HandleLocalMsg: a request of a worker becomes one to every server of its
\* server group, queued behind what is there; an answer is written where the worker reads it;
\* kConnect has done its work when it was received.
HandleLocalMsg(p) ==
  /\ LET m == Head(msg_queue[p])
     IN  /\ msg_queue' = [msg_queue EXCEPT ![p] = Tail(@) \o
              (IF m.type = "kUpdate"
               THEN [i \in 1..Cardinality(ServersOf(m.n[1])) |->
                       Msg("kUpdate", p, SetToSeq(ServersOf(m.n[1]))[i], m.n)]
               ELSE << >>)]
         /\ missing' = IF m.type = "kRUpdate" THEN [missing EXCEPT ![m.n[1]] = @ - 1]
                       ELSE missing
  /\ UNCHANGED <<running, id2addr, bufmsg, nBufmsg, left, reminders, sync_server_id, inbox, tbox>>

\* A message of another process: its dealer is opened first, which waits
\* until that process has registered.
InterProcsSend(p, q) ==
  /\ running[q] # "no"
  /\ inbox' = [inbox EXCEPT ![q][p] = Append(@, Head(msg_queue[p]))]
  /\ msg_queue' = [msg_queue EXCEPT ![p] = Tail(@)]
  /\ UNCHANGED <<running, id2addr, bufmsg, nBufmsg, left, reminders, sync_server_id, tbox, missing>>

\* The process a destination lives in.
DstProcs(dst) == IF dst \in Proc THEN dst ELSE procOf[dst]

\* Trainer::Run, the message at the head of the queue.
Dispatch(p) ==
  /\ running[p] = "yes" /\ msg_queue[p] # << >>
  /\ LET m == Head(msg_queue[p])
     IN  \/ m.dst = p /\ m.type = "kStop" /\ StubStop(p)
         \/ m.dst = p /\ m.type # "kStop" /\ HandleLocalMsg(p)
         \/ DstProcs(m.dst) # p /\ InterProcsSend(p, DstProcs(m.dst))
         \/ /\ m.dst \in ThreadsOf(p)
            /\ RouterSend(p, m)
            /\ msg_queue' = [msg_queue EXCEPT ![p] = Tail(@)]
            /\ UNCHANGED <<id2addr, left, reminders, sync_server_id, inbox, missing>>
  /\ UNCHANGED <<state, asked, gone>>

-----------------------------------------------------------------------------
Stub(p) ==
  \/ Start(p)
  \/ Dispatch(p)
  \/ \E c \in Node : RouterReceive(p, c)

WorkerThread(w) == ConnectStub(w) \/ WorkerRequest(w) \/ WorkerLeave(w) \/ WorkerStop(w)

ServerThread(s) == ConnectStub(s) \/ ServerReply(s) \/ ServerStop(s)

Ended == \A p \in Proc : running[p] = "ended"

Next ==
  \/ \E p \in Proc : Stub(p) \/ PollTimeout(p)
  \/ \E w \in Worker : WorkerThread(w)
  \/ \E s \in Server : ServerThread(s)
  \/ (Ended \/ \E p \in Proc : running[p] = "crashed") /\ UNCHANGED vars

\* Every thread is scheduled; timeouts need not happen.
Spec ==
  /\ Init /\ [][Next]_vars
  /\ \A p \in Proc : WF_vars(Stub(p))
  /\ \A w \in Worker : WF_vars(WorkerThread(w))
  /\ \A s \in Server : WF_vars(ServerThread(s))

-----------------------------------------------------------------------------
(***************************************************************************)
(* Properties                                                              *)
(***************************************************************************)
\* The messages from a to b in a queue, in their order.
Between(s, a, b) ==
  LET found[n \in 0..Len(s)] ==
        IF n = 0 THEN << >>
        ELSE IF s[n].src = a /\ s[n].dst = b THEN Append(found[n - 1], s[n]) ELSE found[n - 1]
  IN  found[Len(s)]

\* Everything between a and b, the oldest first: at the receiver, in the
\* queue of its stub, on the link between the stubs, at the sender.
InTransit(a, b) ==
  LET from(q) == Between(q, a, b)
      p == DstProcs(a)
      q == DstProcs(b)
  IN  (IF b \in Thread THEN from(tbox[b]) \o from(bufmsg[q][b]) ELSE << >>)
      \o from(msg_queue[q])
      \o (IF p # q THEN from(inbox[q][p]) \o from(msg_queue[p]) ELSE << >>)
      \o (IF a \in Thread THEN from(inbox[p][a]) ELSE << >>)

Net == INSTANCE FifoNet WITH
  chan <- [a \in Node |-> [b \in Node |-> InTransit(a, b)]]

\* The path of a message through dealers, queues and the router's buffer
\* neither loses, duplicates nor reorders it: the message layer implements
\* one FIFO channel between any two threads or stubs.
ImplementsFifoNet == Net!Spec

\* When a stub ends its loop, all that the threads of its process have sent
\* has left the process: kStop travels behind the last message of its
\* thread, and both kinds of threads are counted to the end.
NothingUnsent ==
  \A p \in Proc : running[p] = "ended" =>
    /\ msg_queue[p] = << >>
    /\ \A t \in ThreadsOf(p) : inbox[p][t] = << >> /\ bufmsg[p][t] = << >>

\* The job ends: every request is answered but perhaps the last one of a
\* worker, all threads and stubs stop.  Unless a stub dies of the remainder
\* by zero in a poll timeout: that takes servers of its process that have all
\* stopped, as they do when their own groups have left, while a worker of
\* another group, or one between LeaveSGroup and kStop, is still there.
AllEnd ==
  <>(\/ Ended
     \/ \E p \in Proc : /\ running[p] = "crashed" /\ left[p].workers > 0
                        /\ \A s \in ThreadsOf(p) \cap Server : GroupLeft(s))
=============================================================================
