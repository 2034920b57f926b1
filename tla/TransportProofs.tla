-------------------------- MODULE TransportProofs --------------------------
(***************************************************************************)
(* Proofs about the messages of a job (Transport), for any processes and   *)
(* threads, any number of requests and reminders and any size of the       *)
(* router's buffer: a stub that ends its loop leaves nothing behind that   *)
(* was sent in its process, and the message layer implements one FIFO      *)
(* channel between any two threads or stubs.                               *)
(***************************************************************************)
EXTENDS Transport, FiniteSetTheorems, SequenceTheorems, WellFoundedInduction, TLAPS

Message == [type : {"kConnect", "kUpdate", "kRUpdate", "kStop", "kSyncReminder"},
            src : Node, dst : Node, n : Node \X Nat]

Running == {"no", "yes", "ended", "fatal", "crashed"}

\* The turn is that of a server of the process, if there is one.
TurnOK(p, k) == k = 0 \/ k < Cardinality(ThreadsOf(p) \cap Server)

\* Links and queues carry messages.
TypeOK ==
  /\ running \in [Proc -> Running]
  /\ msg_queue \in [Proc -> Seq(Message)]
  /\ id2addr \in [Proc -> SUBSET Thread]
  /\ bufmsg \in [Proc -> [Thread -> Seq(Message)]]
  /\ nBufmsg \in [Proc -> Nat]
  /\ left \in [Proc -> [workers : Int, servers : Int]]
  /\ reminders \in [Proc -> Nat] /\ sync_server_id \in [Proc -> Nat]
  /\ inbox \in [Proc -> [Node -> Seq(Message)]]
  /\ tbox \in [Thread -> Seq(Message)]
  /\ state \in [Thread -> {"new", "run", "done"}]
  /\ asked \in [Worker -> Nat]
  /\ missing \in [Worker -> Int]
  /\ gone \subseteq Worker
  /\ \A p \in Proc : TurnOK(p, sync_server_id[p])

-----------------------------------------------------------------------------
\* The link s from thread t, whose state is x, to its router: kStop is the last
\* message of a thread that is done, and no other has sent one.
SourceOK(t, s, x) ==
  /\ s \in Seq(Message)
  /\ \A i \in 1..Len(s) :
       /\ s[i].src = t
       /\ s[i].type = "kStop" => x = "done" /\ i = Len(s) /\ s[i].dst = procOf[t]
  /\ x = "new" => s = << >>
  /\ x = "done" /\ s # << >> => s[Len(s)].type = "kStop"

NoStop(s) == \A i \in 1..Len(s) : s[i].type # "kStop"

\* The stub has the kStop of t in its hands.
Stopping(q, t) == Len(q) = 1 /\ q[1].type = "kStop" /\ q[1].src = t

\* The threads of process p whose kStop the stub has not handled.
Unstopped(p, q, in, st) ==
  {t \in ThreadsOf(p) : st[t] # "done" \/ in[t] # << >> \/ Stopping(q, t)}

\* Only threads of the process, and stubs, are linked to its router; stubs
\* forward no kStop.
LinksOK(p, in, st) ==
  /\ \A t \in ThreadsOf(p) : SourceOK(t, in[t], st[t])
  /\ \A t \in Thread \ ThreadsOf(p) : in[t] = << >>
  /\ \A c \in Proc : NoStop(in[c])

\* A kStop is taken when the queue is empty, and alone in it.
StopOK(p, q, in, st) ==
  /\ q \in Seq(Message)
  /\ \A i \in 1..Len(q) : q[i].type = "kStop" =>
       /\ Len(q) = 1 /\ q[i].dst = p /\ q[i].src \in ThreadsOf(p)
       /\ st[q[i].src] = "done" /\ in[q[i].src] = << >>

\* A thread that has said something is known or about to be, and for known
\* threads nothing is kept.
KnownOK(p, k, b, in, st) ==
  \A t \in ThreadsOf(p) :
    /\ t \in k => b[t] = << >>
    /\ st[t] = "new" \/ in[t] # << >> \/ t \in k

CountOK(l, open) ==
  l = [workers |-> Cardinality(open \cap Worker), servers |-> Cardinality(open \cap Server)]

ProcOK(p, r, q, k, b, l, in, st) ==
  /\ LinksOK(p, in, st) /\ StopOK(p, q, in, st) /\ KnownOK(p, k, b, in, st)
  /\ CountOK(l, Unstopped(p, q, in, st))
  /\ r = "ended" => q = << >> /\ Unstopped(p, q, in, st) = {}

ProcsOK ==
  \A p \in Proc : ProcOK(p, running[p], msg_queue[p], id2addr[p], bufmsg[p], left[p], inbox[p], state)

-----------------------------------------------------------------------------
(***************************************************************************)
(* Links.                                                                  *)
(***************************************************************************)
LEMMA ThreadsAre ==
  /\ \A p : ThreadsOf(p) \subseteq Thread /\ IsFiniteSet(ThreadsOf(p))
  /\ \A t \in Thread : procOf[t] \in Proc /\ t \in ThreadsOf(procOf[t]) /\ t \notin Proc
  /\ \A t \in Thread, p \in Proc : t \in ThreadsOf(p) => procOf[t] = p
<1>1. \A p : ThreadsOf(p) \subseteq Thread
  BY DEF ThreadsOf
<1>2. IsFiniteSet(Thread)
  BY TransportAssumption
<1>3. \A p : IsFiniteSet(ThreadsOf(p))
  BY <1>1, <1>2, FS_Subset
<1> QED
  BY <1>1, <1>3, TransportAssumption DEF ThreadsOf

LEMMA SourceSend ==
  ASSUME NEW t \in Thread, NEW s, NEW x, SourceOK(t, s, x), x # "done",
         NEW m \in Message, m.src = t, NEW y, y # "new",
         IF m.type = "kStop" THEN y = "done" /\ m.dst = procOf[t] ELSE y = "run"
  PROVE  SourceOK(t, Append(s, m), y) /\ Append(s, m) # << >>
<1>1. s \in Seq(Message)
  BY DEF SourceOK
<1> DEFINE a == Append(s, m)
           l == Len(s)
<1>2. /\ a \in Seq(Message) /\ l \in Nat /\ Len(a) = l + 1 /\ a[l + 1] = m
      /\ \A i \in 1..l : a[i] = s[i]
  BY <1>1, AppendProperties, LenProperties
<1>3. \A i \in 1..l : s[i].src = t /\ s[i].type # "kStop"
  BY DEF SourceOK
<1>4. a # << >>
  BY <1>1
<1> HIDE DEF a, l
<1>5. \A i \in 1..(l + 1) : i \in 1..l \/ i = l + 1
  BY <1>2
<1>6. ASSUME NEW i \in 1..(l + 1)
      PROVE  /\ a[i].src = t
             /\ a[i].type = "kStop" => y = "done" /\ i = l + 1 /\ a[i].dst = procOf[t]
  <2>1. CASE i \in 1..l
    BY <1>2, <1>3, <2>1
  <2>2. CASE i = l + 1
    BY <1>2, <2>2
  <2> QED
    BY <1>5, <2>1, <2>2
<1>7. y = "done" => a[l + 1].type = "kStop"
  BY <1>2
<1> QED
  BY <1>2, <1>4, <1>6, <1>7 DEF SourceOK, a

LEMMA SourceTake ==
  ASSUME NEW t \in Thread, NEW s, NEW x, SourceOK(t, s, x), s # << >>
  PROVE  /\ SourceOK(t, Tail(s), x) /\ Head(s) \in Message /\ Head(s).src = t
         /\ Head(s).type = "kStop" => x = "done" /\ Tail(s) = << >> /\ Head(s).dst = procOf[t]
         /\ x = "done" /\ Tail(s) = << >> => Head(s).type = "kStop"
<1> DEFINE a == Tail(s)
           l == Len(s)
           h == Head(s)
<1>1. s \in Seq(Message)
  BY DEF SourceOK
<1>2. /\ a \in Seq(Message) /\ l \in Nat /\ l > 0 /\ Len(a) = l - 1 /\ h = s[1] /\ h \in Message
      /\ \A i \in 1..(l - 1) : a[i] = s[i + 1]
  BY <1>1, HeadTailProperties, LenProperties, EmptySeq
<1>3. a = << >> <=> l = 1
  BY <1>1, <1>2, EmptySeq
<1>4. /\ \A i \in 1..l : /\ s[i].src = t
                         /\ s[i].type = "kStop" => x = "done" /\ i = l /\ s[i].dst = procOf[t]
      /\ x # "new"
      /\ x = "done" => s[l].type = "kStop"
  BY DEF SourceOK
<1> HIDE DEF a, l, h
<1>5. 1 \in 1..l /\ \A i \in 1..(l - 1) : i + 1 \in 1..l /\ (i + 1 = l => i = l - 1)
  BY <1>2
<1>6. h.src = t /\ (h.type = "kStop" => x = "done" /\ 1 = l /\ h.dst = procOf[t])
  BY <1>2, <1>4, <1>5
<1>7. ASSUME NEW i \in 1..(l - 1)
      PROVE  /\ a[i].src = t
             /\ a[i].type = "kStop" => x = "done" /\ i = l - 1 /\ a[i].dst = procOf[t]
  BY <1>2, <1>4, <1>5
<1>8. ASSUME x = "done", a # << >>
      PROVE  a[l - 1].type = "kStop"
  <2>1. l - 1 \in 1..(l - 1) /\ (l - 1) + 1 = l
    BY <1>2, <1>3, <1>8
  <2> QED
    BY <1>2, <1>4, <1>8, <2>1
<1>9. SourceOK(t, a, x)
  BY <1>2, <1>4, <1>7, <1>8 DEF SourceOK
<1>10. x = "done" /\ a = << >> => h.type = "kStop"
  BY <1>2, <1>3, <1>4
<1> QED
  BY <1>2, <1>3, <1>6, <1>9, <1>10 DEF a, h

LEMMA StopAlone ==
  ASSUME NEW p, NEW q, NEW in, NEW st, StopOK(p, q, in, st), q # << >>
  PROVE  /\ Len(q) > 0 /\ Head(q) = q[1] /\ Head(q) \in Message
         /\ Tail(q) \in Seq(Message)
         /\ Head(q).type # "kStop" => NoStop(q) /\ NoStop(Tail(q))
         /\ Head(q).type = "kStop" =>
              /\ Len(q) = 1 /\ Tail(q) = << >> /\ Head(q).dst = p
              /\ Head(q).src \in ThreadsOf(p)
              /\ st[Head(q).src] = "done" /\ in[Head(q).src] = << >>
<1> DEFINE a == Tail(q)
           l == Len(q)
           h == Head(q)
<1>1. q \in Seq(Message)
  BY DEF StopOK
<1>2. /\ a \in Seq(Message) /\ l \in Nat /\ l > 0 /\ Len(a) = l - 1 /\ h = q[1] /\ h \in Message
      /\ \A i \in 1..(l - 1) : a[i] = q[i + 1]
  BY <1>1, HeadTailProperties, LenProperties, EmptySeq
<1>4. \A i \in 1..l : q[i].type = "kStop" =>
        /\ l = 1 /\ q[i].dst = p /\ q[i].src \in ThreadsOf(p)
        /\ st[q[i].src] = "done" /\ in[q[i].src] = << >>
  BY DEF StopOK
<1> HIDE DEF a, l, h
<1>3. a = << >> <=> l = 1
  <2>1. a = << >> <=> Len(a) = 0
    BY <1>2, EmptySeq
  <2> QED
    BY <1>2, <2>1
<1>5. 1 \in 1..l /\ (l = 1 => \A i \in 1..l : i = 1) /\ \A i \in 1..(l - 1) : i + 1 \in 1..l
  BY <1>2
<1>6. h.type # "kStop" => \A i \in 1..l : q[i].type # "kStop"
  <2> SUFFICES ASSUME h.type # "kStop", NEW i \in 1..l, q[i].type = "kStop"
               PROVE  FALSE
    OBVIOUS
  <2>1. i = 1
    BY <1>4, <1>5
  <2> QED
    BY <1>2, <2>1
<1>7. h.type # "kStop" => \A i \in 1..(l - 1) : a[i].type # "kStop"
  BY <1>2, <1>5, <1>6
<1>8. h.type # "kStop" => NoStop(q) /\ NoStop(a)
  BY <1>2, <1>6, <1>7 DEF NoStop, l
<1>9. h.type = "kStop" => /\ l = 1 /\ h.dst = p /\ h.src \in ThreadsOf(p)
                          /\ st[h.src] = "done" /\ in[h.src] = << >>
  BY <1>2, <1>4, <1>5
<1> QED
  BY <1>2, <1>3, <1>8, <1>9 DEF a, l, h

-----------------------------------------------------------------------------
(***************************************************************************)
(* One process.                                                            *)
(***************************************************************************)
\* What other processes and their threads do leaves a process as it is, but for
\* what their stubs send to it.
LEMMA ProcFrame ==
  ASSUME NEW p \in Proc, NEW r, NEW q, NEW k, NEW b, NEW l, NEW in, NEW st, NEW r2, NEW in2, NEW st2,
         ProcOK(p, r, q, k, b, l, in, st), r2 = "ended" => r = "ended",
         \A t \in Thread : in2[t] = in[t], \A t \in ThreadsOf(p) : st2[t] = st[t],
         \A c \in Proc : NoStop(in2[c])
  PROVE  ProcOK(p, r2, q, k, b, l, in2, st2)
<1>1. \A t \in ThreadsOf(p) : in2[t] = in[t] /\ st2[t] = st[t]
  BY ThreadsAre
<1>2. Unstopped(p, q, in2, st2) = Unstopped(p, q, in, st)
  BY <1>1 DEF Unstopped
<1>3. LinksOK(p, in2, st2)
  BY <1>1 DEF ProcOK, LinksOK
<1>4. StopOK(p, q, in2, st2)
  BY <1>1 DEF ProcOK, StopOK
<1>5. KnownOK(p, k, b, in2, st2)
  BY <1>1 DEF ProcOK, KnownOK
<1> QED
  BY <1>2, <1>3, <1>4, <1>5 DEF ProcOK

\* A thread sends to its stub.
LEMMA ProcSend ==
  ASSUME NEW p \in Proc, NEW r, NEW q, NEW k, NEW b, NEW l, NEW in, NEW st, NEW in2, NEW st2,
         ProcOK(p, r, q, k, b, l, in, st), NEW t \in ThreadsOf(p), st[t] # "done",
         NEW m \in Message, m.src = t, st2[t] # "new",
         IF m.type = "kStop" THEN st2[t] = "done" /\ m.dst = p ELSE st2[t] = "run",
         in2[t] = Append(in[t], m), \A c \in Node : c # t => in2[c] = in[c],
         \A u \in Thread : u # t => st2[u] = st[u]
  PROVE  ProcOK(p, r, q, k, b, l, in2, st2)
<1>1. t \in Thread /\ procOf[t] = p /\ t \notin Proc /\ SourceOK(t, in[t], st[t])
  BY ThreadsAre DEF ProcOK, LinksOK
<1>2. SourceOK(t, in2[t], st2[t]) /\ in2[t] # << >>
  BY <1>1, SourceSend
<1>3. \A u \in Thread : u # t => in2[u] = in[u] /\ st2[u] = st[u]
  BY DEF Node
<1>4. \A c \in Proc : in2[c] = in[c]
  BY <1>1 DEF Node
<1>5. Unstopped(p, q, in2, st2) = Unstopped(p, q, in, st) /\ t \in Unstopped(p, q, in, st)
  BY <1>2, <1>3, ThreadsAre DEF Unstopped
<1>6. LinksOK(p, in2, st2)
  BY <1>1, <1>2, <1>3, <1>4, ThreadsAre DEF ProcOK, LinksOK
<1>7. StopOK(p, q, in2, st2)
  <2>1. \A i \in 1..Len(q) : q[i].type = "kStop" =>
          q[i].src \in ThreadsOf(p) /\ q[i].src # t
    BY DEF ProcOK, StopOK
  <2> QED
    BY <1>3, <2>1, ThreadsAre DEF ProcOK, StopOK
<1>8. KnownOK(p, k, b, in2, st2)
  BY <1>2, <1>3, ThreadsAre DEF ProcOK, KnownOK
<1> QED
  BY <1>5, <1>6, <1>7, <1>8 DEF ProcOK

\* The stub goes on with other messages than kStop.
LEMMA ProcStub ==
  ASSUME NEW p \in Proc, NEW r, NEW q, NEW k, NEW b, NEW l, NEW in, NEW st, NEW r2, NEW q2, NEW b2,
         ProcOK(p, r, q, k, b, l, in, st), r2 # "ended",
         NoStop(q), NoStop(q2), q2 \in Seq(Message),
         \A t \in ThreadsOf(p) : t \in k => b2[t] = b[t]
  PROVE  ProcOK(p, r2, q2, k, b2, l, in, st)
<1>1. \A t : ~Stopping(q, t) /\ ~Stopping(q2, t)
  BY DEF Stopping, NoStop
<1>2. Unstopped(p, q2, in, st) = Unstopped(p, q, in, st)
  BY <1>1 DEF Unstopped
<1>3. StopOK(p, q2, in, st)
  BY DEF StopOK, NoStop
<1>4. KnownOK(p, k, b2, in, st)
  BY DEF ProcOK, KnownOK
<1> QED
  BY <1>2, <1>3, <1>4 DEF ProcOK

\* The stub takes a message of another stub ...
LEMMA ProcTakeStub ==
  ASSUME NEW p \in Proc, NEW r, NEW k, NEW b, NEW l, NEW in, NEW st, NEW k2, NEW b2, NEW in2,
         ProcOK(p, r, << >>, k, b, l, in, st), r # "ended",
         NEW c \in Proc, in[c] \in Seq(Message), in[c] # << >>,
         in2[c] = Tail(in[c]), \A d \in Node : d # c => in2[d] = in[d],
         \A t \in ThreadsOf(p) : IF t \in k THEN t \in k2 /\ b2[t] = b[t]
                                           ELSE t \in k2 => b2[t] = << >>
  PROVE  ProcOK(p, r, << Head(in[c]) >>, k2, b2, l, in2, st)
<1> DEFINE s == in[c]
           a == Tail(s)
           h == Head(s)
           q2 == << h >>
           n == Len(s)
<1>1. /\ a \in Seq(Message) /\ n \in Nat /\ n > 0 /\ Len(a) = n - 1 /\ h = s[1] /\ h \in Message
      /\ \A i \in 1..(n - 1) : a[i] = s[i + 1]
  BY HeadTailProperties, LenProperties, EmptySeq
<1>2. \A i \in 1..n : s[i].type # "kStop"
  BY DEF ProcOK, LinksOK, NoStop
<1>3. q2 \in Seq(Message) /\ Len(q2) = 1 /\ q2[1] = h
  BY <1>1
<1> HIDE DEF a, h, n, q2
<1>4. \A i \in 1..(n - 1) : i + 1 \in 1..n
  BY <1>1
<1>5. NoStop(a)
  BY <1>1, <1>2, <1>4 DEF NoStop
<1>6. h.type # "kStop"
  BY <1>1, <1>2
<1>7. \A t \in Thread : in2[t] = in[t]
  BY ThreadsAre DEF Node
<1>8. \A t : ~Stopping(q2, t) /\ ~Stopping(<< >>, t)
  <2>1. Len(<< >>) # 1
    OBVIOUS
  <2> QED
    BY <1>3, <1>6, <2>1 DEF Stopping
<1>9. Unstopped(p, q2, in2, st) = Unstopped(p, << >>, in, st)
  BY <1>7, <1>8, ThreadsAre DEF Unstopped
<1>10. \A d \in Proc : NoStop(in2[d])
  BY <1>5 DEF ProcOK, LinksOK, Node, a, s
<1>11. LinksOK(p, in2, st)
  BY <1>7, <1>10, ThreadsAre DEF ProcOK, LinksOK
<1>12. StopOK(p, q2, in2, st)
  <2>1. \A i \in 1..Len(q2) : i = 1
    BY <1>3
  <2> QED
    BY <1>3, <1>6, <2>1 DEF StopOK
<1>13. KnownOK(p, k2, b2, in2, st)
  BY <1>7, ThreadsAre DEF ProcOK, KnownOK
<1> QED
  BY <1>9, <1>11, <1>12, <1>13 DEF ProcOK, q2, h, s

\* ... or of a thread, which is known from then on.
LEMMA ProcTakeThread ==
  ASSUME NEW p \in Proc, NEW r, NEW k, NEW b, NEW l, NEW in, NEW st, NEW k2, NEW b2, NEW in2,
         ProcOK(p, r, << >>, k, b, l, in, st), r # "ended",
         NEW c \in ThreadsOf(p), in[c] # << >>,
         in2[c] = Tail(in[c]), \A d \in Node : d # c => in2[d] = in[d],
         c \in k2,
         \A t \in ThreadsOf(p) : IF t \in k THEN t \in k2 /\ b2[t] = b[t]
                                           ELSE t \in k2 => b2[t] = << >>
  PROVE  ProcOK(p, r, << Head(in[c]) >>, k2, b2, l, in2, st)
<1> DEFINE s == in[c]
           a == Tail(s)
           h == Head(s)
           q2 == << h >>
<1>1. c \in Thread /\ procOf[c] = p /\ c \notin Proc /\ SourceOK(c, s, st[c])
  BY ThreadsAre DEF ProcOK, LinksOK
<1>2. /\ SourceOK(c, a, st[c]) /\ h \in Message /\ h.src = c
      /\ h.type = "kStop" => st[c] = "done" /\ a = << >> /\ h.dst = p
      /\ st[c] = "done" /\ a = << >> => h.type = "kStop"
  BY <1>1, SourceTake, ZenonT(60)
<1>3. q2 \in Seq(Message) /\ Len(q2) = 1 /\ q2[1] = h
  BY <1>2
<1>4. in2[c] = a /\ s # << >> /\ s = in[c]
  OBVIOUS
<1> HIDE DEF a, h, q2, s
<1>5. \A t \in Thread : t # c => in2[t] = in[t]
  BY DEF Node
<1>6. \A d \in Proc : in2[d] = in[d]
  BY <1>1 DEF Node
<1>7. \A t : ~Stopping(<< >>, t) /\ (Stopping(q2, t) <=> h.type = "kStop" /\ t = c)
  <2>1. Len(<< >>) # 1
    OBVIOUS
  <2> QED
    BY <1>2, <1>3, <2>1 DEF Stopping
<1>8. Unstopped(p, q2, in2, st) = Unstopped(p, << >>, in, st)
  <2>1. ASSUME NEW t \in ThreadsOf(p)
        PROVE  t \in Unstopped(p, q2, in2, st) <=> t \in Unstopped(p, << >>, in, st)
    <3>1. CASE t = c
      BY <1>2, <1>4, <1>7, <3>1 DEF Unstopped
    <3>2. CASE t # c
      BY <1>5, <1>7, <3>2, ThreadsAre DEF Unstopped
    <3> QED
      BY <3>1, <3>2
  <2> QED
    BY <2>1 DEF Unstopped
<1>9. LinksOK(p, in2, st)
  BY <1>1, <1>2, <1>4, <1>5, <1>6, ThreadsAre DEF ProcOK, LinksOK
<1>10. StopOK(p, q2, in2, st)
  <2>1. \A i \in 1..Len(q2) : i = 1
    BY <1>3
  <2> QED
    BY <1>2, <1>3, <1>4, <2>1 DEF StopOK
<1>11. KnownOK(p, k2, b2, in2, st)
  <2> SUFFICES ASSUME NEW t \in ThreadsOf(p)
               PROVE  /\ t \in k2 => b2[t] = << >>
                      /\ st[t] = "new" \/ in2[t] # << >> \/ t \in k2
    BY DEF KnownOK
  <2>1. (t \in k => b[t] = << >>) /\ (st[t] = "new" \/ in[t] # << >> \/ t \in k)
    BY DEF ProcOK, KnownOK
  <2>2. t # c => in2[t] = in[t]
    BY <1>5, ThreadsAre
  <2> QED
    BY <2>1, <2>2
<1> QED
  BY <1>8, <1>9, <1>10, <1>11 DEF ProcOK, q2, h, s

\* The kStop of a thread is counted.  If it was the last, nothing is left.
LEMMA ProcStop ==
  ASSUME NEW p \in Proc, NEW r, NEW q, NEW k, NEW b, NEW l, NEW in, NEW st, NEW r2, NEW l2,
         ProcOK(p, r, q, k, b, l, in, st), r # "ended", q # << >>, Head(q).type = "kStop",
         l2 = IF Head(q).src \in Server THEN [l EXCEPT !.servers = @ - 1]
                                        ELSE [l EXCEPT !.workers = @ - 1],
         r2 = IF l2.workers = 0 /\ l2.servers = 0 THEN "ended" ELSE r
  PROVE  ProcOK(p, r2, << >>, k, b, l2, in, st)
<1> DEFINE t == Head(q).src
           open == Unstopped(p, q, in, st)
           open2 == Unstopped(p, << >>, in, st)
<1>1. /\ Len(q) = 1 /\ Head(q) = q[1] /\ t \in ThreadsOf(p) /\ st[t] = "done" /\ in[t] = << >>
  BY StopAlone DEF ProcOK
<1>2. \A u : ~Stopping(<< >>, u) /\ (Stopping(q, u) <=> u = t)
  <2>1. Len(<< >>) # 1
    OBVIOUS
  <2> QED
    BY <1>1, <2>1 DEF Stopping
<1>3. open2 = open \ {t} /\ t \in open
  BY <1>1, <1>2 DEF Unstopped
<1>4. open \subseteq Thread /\ IsFiniteSet(open)
  <2>1. open \subseteq ThreadsOf(p)
    BY DEF Unstopped
  <2> QED
    BY <2>1, ThreadsAre, FS_Subset
<1>5. l = [workers |-> Cardinality(open \cap Worker), servers |-> Cardinality(open \cap Server)]
  BY DEF ProcOK, CountOK
<1>6. t \in Thread
  BY <1>1, ThreadsAre
<1> HIDE DEF t, open, open2
<1> DEFINE nw == Cardinality(open \cap Worker)
           ns == Cardinality(open \cap Server)
<1>7. /\ IsFiniteSet(open \cap Worker) /\ IsFiniteSet(open \cap Server)
      /\ IsFiniteSet(open2 \cap Worker) /\ IsFiniteSet(open2 \cap Server)
  <2>1. IsFiniteSet(open2)
    BY <1>3, <1>4, FS_RemoveElement
  <2> QED
    BY <1>4, <2>1, FS_Intersection
<1>8. nw \in Nat /\ ns \in Nat
  BY <1>7, FS_CardinalityType
<1>9. l2 = [workers |-> Cardinality(open2 \cap Worker), servers |-> Cardinality(open2 \cap Server)]
  <2>1. CASE t \in Server
    <3>1. open2 \cap Server = (open \cap Server) \ {t} /\ open2 \cap Worker = open \cap Worker
      BY <1>3, <2>1, TransportAssumption
    <3>2. Cardinality(open2 \cap Server) = ns - 1 /\ Cardinality(open2 \cap Worker) = nw
      BY <1>3, <1>7, <2>1, <3>1, FS_RemoveElement
    <3>3. l2 = [l EXCEPT !.servers = @ - 1]
      BY <2>1 DEF t
    <3> QED
      BY <1>5, <3>2, <3>3
  <2>2. CASE t \notin Server
    <3>1. open2 \cap Worker = (open \cap Worker) \ {t} /\ open2 \cap Server = open \cap Server
          /\ t \in Worker
      BY <1>3, <1>6, <2>2 DEF Thread
    <3>2. Cardinality(open2 \cap Worker) = nw - 1 /\ Cardinality(open2 \cap Server) = ns
      BY <1>3, <1>7, <3>1, FS_RemoveElement
    <3>3. l2 = [l EXCEPT !.workers = @ - 1]
      BY <2>2 DEF t
    <3> QED
      BY <1>5, <3>2, <3>3
  <2> QED
    BY <2>1, <2>2
<1>10. ASSUME r2 = "ended"
       PROVE  open2 = {}
  <2>1. Cardinality(open2 \cap Worker) = 0 /\ Cardinality(open2 \cap Server) = 0
    BY <1>9, <1>10
  <2>2. open2 \cap Worker = {} /\ open2 \cap Server = {}
    BY <1>7, <2>1, FS_EmptySet
  <2> QED
    BY <1>3, <1>4, <2>2 DEF Thread
<1>11. CountOK(l2, open2)
  BY <1>9 DEF CountOK
<1>12. StopOK(p, << >>, in, st)
  <2>1. << >> \in Seq(Message) /\ Len(<< >>) = 0
    OBVIOUS
  <2> QED
    BY <2>1 DEF StopOK
<1> QED
  BY <1>10, <1>11, <1>12 DEF ProcOK, open2

-----------------------------------------------------------------------------
(***************************************************************************)
(* Types.                                                                  *)
(***************************************************************************)
LEMMA SetSequence ==
  ASSUME NEW S, IsFiniteSet(S)
  PROVE  SetToSeq(S) \in [1..Cardinality(S) -> S] /\ Cardinality(S) \in Nat
<1>1. Cardinality(S) \in Nat /\ ExistsBijection(1..Cardinality(S), S)
  BY FS_CardinalityType
<1>2. \E f \in [1..Cardinality(S) -> S] : IsInjective(f)
  BY <1>1 DEF ExistsBijection, Bijection, Injection
<1> QED
  BY <1>1, <1>2 DEF SetToSeq

LEMMA ServersFinite == \A w : ServersOf(w) \subseteq Server /\ IsFiniteSet(ServersOf(w))
<1>1. IsFiniteSet(Server)
  BY TransportAssumption, FS_Subset DEF Thread
<1>2. \A w : ServersOf(w) \subseteq Server
  BY DEF ServersOf
<1> QED
  BY <1>1, <1>2, FS_Subset

LEMMA MessageIs ==
  ASSUME NEW type \in {"kConnect", "kUpdate", "kRUpdate", "kStop", "kSyncReminder"},
         NEW src \in Node, NEW dst \in Node, NEW n \in Node \X Nat
  PROVE  /\ Msg(type, src, dst, n) \in Message
         /\ Msg(type, src, dst, n).type = type /\ Msg(type, src, dst, n).src = src
         /\ Msg(type, src, dst, n).dst = dst
BY DEF Msg, Message

\* What a thread sends goes behind what is on its own link.
LEMMA SendLink ==
  ASSUME TypeOK, NEW t \in Thread, NEW m \in Message, DealerSend(t, m)
  PROVE  /\ inbox' \in [Proc -> [Node -> Seq(Message)]]
         /\ inbox'[procOf[t]][t] = Append(inbox[procOf[t]][t], m)
         /\ \A c \in Node : c # t => inbox'[procOf[t]][c] = inbox[procOf[t]][c]
         /\ \A p \in Proc : p # procOf[t] => inbox'[p] = inbox[p]
<1> DEFINE p == procOf[t]
           s == Append(inbox[p][t], m)
           row == [inbox[p] EXCEPT ![t] = s]
<1>1. p \in Proc /\ t \in Node
  BY ThreadsAre DEF Node
<1>2. inbox[p] \in [Node -> Seq(Message)] /\ inbox \in [Proc -> [Node -> Seq(Message)]]
  BY <1>1 DEF TypeOK
<1>3. s \in Seq(Message)
  BY <1>1, <1>2, AppendProperties
<1>4. inbox' = [inbox EXCEPT ![p] = row]
  BY DEF DealerSend
<1> HIDE DEF s, p
<1>5. row \in [Node -> Seq(Message)] /\ row[t] = s /\ \A c \in Node : c # t => row[c] = inbox[p][c]
  BY <1>1, <1>2, <1>3
<1> HIDE DEF row
<1>6. /\ inbox' \in [Proc -> [Node -> Seq(Message)]] /\ inbox'[p] = row
      /\ \A q \in Proc : q # p => inbox'[q] = inbox[q]
  BY <1>1, <1>2, <1>4, <1>5
<1> QED
  BY <1>5, <1>6 DEF p, s

\* The router sends to a thread of the process.
LEMMA RouterType ==
  ASSUME TypeOK, NEW p \in Proc, NEW m \in Message, m.dst \in Thread, RouterSend(p, m)
  PROVE  /\ tbox' \in [Thread -> Seq(Message)]
         /\ bufmsg' \in [Proc -> [Thread -> Seq(Message)]]
         /\ nBufmsg' \in [Proc -> Nat]
         /\ running' \in [Proc -> Running]
         /\ \A t \in id2addr[p] : bufmsg'[p][t] = bufmsg[p][t]
         /\ running'[p] \in {running[p], "fatal"}
         /\ \A q \in Proc : q # p => bufmsg'[q] = bufmsg[q] /\ running'[q] = running[q]
<1>0. /\ tbox \in [Thread -> Seq(Message)] /\ bufmsg \in [Proc -> [Thread -> Seq(Message)]]
      /\ nBufmsg \in [Proc -> Nat] /\ running \in [Proc -> Running] /\ id2addr[p] \subseteq Thread
  BY DEF TypeOK
<1> DEFINE d == m.dst
<1>1. CASE d \in id2addr[p]
  <2>1. UNCHANGED <<running, bufmsg, nBufmsg>> /\ tbox' = [tbox EXCEPT ![d] = Append(@, m)]
    BY <1>1 DEF RouterSend
  <2>2. Append(tbox[d], m) \in Seq(Message)
    BY <1>0, AppendProperties
  <2> HIDE DEF d
  <2>3. tbox' \in [Thread -> Seq(Message)]
    BY <1>0, <2>1, <2>2
  <2> QED
    BY <1>0, <2>1, <2>3
<1>2. CASE d \notin id2addr[p]
  <2> DEFINE n == RouterCount(p, d)
             s == Append(bufmsg[p][d], m)
             row == [bufmsg[p] EXCEPT ![d] = s]
             x == IF n <= BufSize THEN running[p] ELSE "fatal"
  <2>1. /\ bufmsg' = [bufmsg EXCEPT ![p] = row] /\ nBufmsg' = [nBufmsg EXCEPT ![p] = n]
        /\ running' = [running EXCEPT ![p] = x] /\ UNCHANGED tbox
    BY <1>2 DEF RouterSend
  <2>2. n \in Nat
    BY <1>0 DEF RouterCount
  <2>3. s \in Seq(Message) /\ d \in Thread
    BY <1>0, AppendProperties
  <2>4. x \in Running /\ x \in {running[p], "fatal"}
    BY <1>0 DEF Running
  <2> HIDE DEF d, s, x, n
  <2>5. row \in [Thread -> Seq(Message)] /\ \A t \in Thread : t # d => row[t] = bufmsg[p][t]
    BY <1>0, <2>3
  <2> HIDE DEF row
  <2>6. /\ bufmsg' \in [Proc -> [Thread -> Seq(Message)]] /\ bufmsg'[p] = row
        /\ \A q \in Proc : q # p => bufmsg'[q] = bufmsg[q]
    BY <1>0, <2>1, <2>5
  <2>7. /\ running' \in [Proc -> Running] /\ running'[p] = x
        /\ \A q \in Proc : q # p => running'[q] = running[q]
    BY <1>0, <2>1, <2>4
  <2>8. nBufmsg' \in [Proc -> Nat] /\ tbox' \in [Thread -> Seq(Message)]
    BY <1>0, <2>1, <2>2
  <2> QED
    BY <1>0, <1>2, <2>4, <2>5, <2>6, <2>7, <2>8
<1> QED
  BY <1>1, <1>2

\* The stub takes the head of a link.
LEMMA ReceiveType ==
  ASSUME TypeOK, NEW p \in Proc, NEW c \in Node, RouterReceive(p, c)
  PROVE  /\ TypeOK'
         /\ inbox[p][c] # << >> /\ msg_queue[p] = << >> /\ running[p] = "yes"
         /\ msg_queue'[p] = << Head(inbox[p][c]) >>
         /\ inbox'[p][c] = Tail(inbox[p][c])
         /\ \A d \in Node : d # c => inbox'[p][d] = inbox[p][d]
         /\ Head(inbox[p][c]).src \in Thread => Head(inbox[p][c]).src \in id2addr'[p]
         /\ \A t \in Thread : IF t \in id2addr[p] THEN t \in id2addr'[p] /\ bufmsg'[p][t] = bufmsg[p][t]
                                ELSE t \in id2addr'[p] => bufmsg'[p][t] = << >>
         /\ \A q \in Proc : q # p => /\ msg_queue'[q] = msg_queue[q] /\ inbox'[q] = inbox[q]
                                     /\ id2addr'[q] = id2addr[q] /\ bufmsg'[q] = bufmsg[q]
         /\ UNCHANGED <<running, left, state>>
<1>0. /\ tbox \in [Thread -> Seq(Message)] /\ bufmsg \in [Proc -> [Thread -> Seq(Message)]]
      /\ inbox \in [Proc -> [Node -> Seq(Message)]] /\ msg_queue \in [Proc -> Seq(Message)]
      /\ id2addr \in [Proc -> SUBSET Thread]
  BY DEF TypeOK
<1> DEFINE s == inbox[p][c]
           h == Head(s)
           a == Tail(s)
           q2 == << h >>
           row == [inbox[p] EXCEPT ![c] = a]
<1>1. /\ running[p] = "yes" /\ msg_queue[p] = << >> /\ s # << >>
      /\ inbox' = [inbox EXCEPT ![p] = row] /\ msg_queue' = [msg_queue EXCEPT ![p] = q2]
      /\ UNCHANGED <<running, nBufmsg, left, reminders, sync_server_id, state, asked, missing, gone>>
  BY DEF RouterReceive
<1>2. s \in Seq(Message) /\ a \in Seq(Message) /\ h \in Message
  BY <1>0, <1>1, HeadTailProperties
<1>3. q2 \in Seq(Message)
  BY <1>2
<1>4. IF h.src \in Thread \ id2addr[p]
      THEN id2addr' = [id2addr EXCEPT ![p] = @ \cup {h.src}] /\ Flush(p, h.src)
      ELSE UNCHANGED <<id2addr, tbox, bufmsg>>
  BY DEF RouterReceive
<1> HIDE DEF a, h, q2, s
<1>5. row \in [Node -> Seq(Message)] /\ row[c] = a /\ \A d \in Node : d # c => row[d] = inbox[p][d]
  BY <1>0, <1>2
<1> HIDE DEF row
<1>6. /\ inbox' \in [Proc -> [Node -> Seq(Message)]] /\ inbox'[p] = row
      /\ \A q \in Proc : q # p => inbox'[q] = inbox[q]
  BY <1>0, <1>1, <1>5
<1>7. /\ msg_queue' \in [Proc -> Seq(Message)] /\ msg_queue'[p] = q2
      /\ \A q \in Proc : q # p => msg_queue'[q] = msg_queue[q]
  BY <1>0, <1>1, <1>3
<1>8. /\ id2addr' \in [Proc -> SUBSET Thread] /\ tbox' \in [Thread -> Seq(Message)]
      /\ bufmsg' \in [Proc -> [Thread -> Seq(Message)]]
      /\ h.src \in Thread => h.src \in id2addr'[p]
      /\ \A t \in Thread : IF t \in id2addr[p] THEN t \in id2addr'[p] /\ bufmsg'[p][t] = bufmsg[p][t]
                             ELSE t \in id2addr'[p] => bufmsg'[p][t] = << >>
      /\ \A q \in Proc : q # p => id2addr'[q] = id2addr[q] /\ bufmsg'[q] = bufmsg[q]
  <2>1. CASE h.src \in Thread \ id2addr[p]
    <3> DEFINE u == h.src
               k2 == id2addr[p] \cup {u}
               rest == [bufmsg[p] EXCEPT ![u] = << >>]
               out == tbox[u] \o bufmsg[p][u]
    <3>1. /\ u \in Thread /\ u \notin id2addr[p] /\ id2addr' = [id2addr EXCEPT ![p] = k2]
          /\ bufmsg' = [bufmsg EXCEPT ![p] = rest] /\ tbox' = [tbox EXCEPT ![u] = out]
      BY <1>4, <2>1 DEF Flush
    <3>2. out \in Seq(Message) /\ << >> \in Seq(Message) /\ k2 \subseteq Thread
      BY <1>0, <3>1, ConcatProperties
    <3>3. /\ rest \in [Thread -> Seq(Message)] /\ rest[u] = << >>
          /\ \A t \in Thread : t # u => rest[t] = bufmsg[p][t]
      BY <1>0, <3>1, <3>2
    <3>4. \A t : t \in k2 <=> t \in id2addr[p] \/ t = u
      OBVIOUS
    <3> HIDE DEF u, k2, rest, out
    <3>5. /\ id2addr' \in [Proc -> SUBSET Thread] /\ id2addr'[p] = k2
          /\ \A q \in Proc : q # p => id2addr'[q] = id2addr[q]
      BY <1>0, <3>1, <3>2
    <3>6. /\ bufmsg' \in [Proc -> [Thread -> Seq(Message)]] /\ bufmsg'[p] = rest
          /\ \A q \in Proc : q # p => bufmsg'[q] = bufmsg[q]
      BY <1>0, <3>1, <3>3
    <3>7. tbox' \in [Thread -> Seq(Message)]
      BY <1>0, <3>1, <3>2
    <3>8. u \in id2addr'[p]
      BY <3>4, <3>5
    <3>9. ASSUME NEW t \in Thread
          PROVE  IF t \in id2addr[p] THEN t \in id2addr'[p] /\ bufmsg'[p][t] = bufmsg[p][t]
                 ELSE t \in id2addr'[p] => bufmsg'[p][t] = << >>
      BY <3>1, <3>3, <3>4, <3>5, <3>6
    <3> QED
      BY <3>5, <3>6, <3>7, <3>8, <3>9 DEF u
  <2>2. CASE h.src \notin Thread \ id2addr[p]
    BY <1>0, <1>4, <2>2
  <2> QED
    BY <2>1, <2>2
<1>9. TypeOK'
  BY <1>1, <1>6, <1>7, <1>8 DEF TypeOK
<1> QED
  BY <1>1, <1>5, <1>6, <1>7, <1>8, <1>9 DEF a, h, q2, s

-----------------------------------------------------------------------------
(***************************************************************************)
(* Steps.                                                                  *)
(***************************************************************************)
\* A thread that has not said kStop sends a message.
LEMMA SendStep ==
  ASSUME TypeOK, ProcsOK, NEW t \in Thread, NEW m \in Message, DealerSend(t, m), m.src = t,
         state[t] # "done", state'[t] # "new",
         IF m.type = "kStop" THEN state'[t] = "done" /\ m.dst = procOf[t] ELSE state'[t] = "run",
         \A u \in Thread : u # t => state'[u] = state[u],
         UNCHANGED <<running, msg_queue, id2addr, bufmsg, left>>
  PROVE  ProcsOK'
<1> SUFFICES ASSUME NEW p \in Proc
             PROVE  ProcOK(p, running[p], msg_queue[p], id2addr[p], bufmsg[p], left[p],
                           inbox'[p], state')
  BY DEF ProcsOK
<1>1. ProcOK(p, running[p], msg_queue[p], id2addr[p], bufmsg[p], left[p], inbox[p], state)
  BY DEF ProcsOK
<1>2. /\ inbox'[procOf[t]][t] = Append(inbox[procOf[t]][t], m)
      /\ \A c \in Node : c # t => inbox'[procOf[t]][c] = inbox[procOf[t]][c]
      /\ \A q \in Proc : q # procOf[t] => inbox'[q] = inbox[q]
  BY SendLink
<1>3. CASE p = procOf[t]
  <2>1. t \in ThreadsOf(p)
    BY <1>3, ThreadsAre
  <2>2. /\ inbox'[p][t] = Append(inbox[p][t], m)
        /\ \A c \in Node : c # t => inbox'[p][c] = inbox[p][c]
        /\ IF m.type = "kStop" THEN state'[t] = "done" /\ m.dst = p ELSE state'[t] = "run"
    BY <1>2, <1>3
  <2> QED
    BY <1>1, <2>1, <2>2, ProcSend
<1>4. CASE p # procOf[t]
  <2>1. inbox'[p] = inbox[p] /\ \A u \in ThreadsOf(p) : state'[u] = state[u]
    BY <1>2, <1>4, ThreadsAre
  <2>2. \A c \in Proc : NoStop(inbox[p][c])
    BY <1>1 DEF ProcOK, LinksOK
  <2> QED
    BY <1>1, <2>1, <2>2, ProcFrame
<1> QED
  BY <1>3, <1>4

LEMMA ConnectStep ==
  ASSUME TypeOK, ProcsOK, NEW t \in Thread, ConnectStub(t)
  PROVE  TypeOK' /\ ProcsOK'
<1> DEFINE m == Msg("kConnect", t, procOf[t], <<t, 0>>)
<1>1. m \in Message /\ m.type = "kConnect" /\ m.src = t
  BY MessageIs, ThreadsAre DEF Node
<1>2. DealerSend(t, m) /\ state[t] = "new" /\ state' = [state EXCEPT ![t] = "run"]
      /\ UNCHANGED <<stubVars, tbox, asked, missing, gone>>
  BY DEF ConnectStub
<1> HIDE DEF m
<1>3. state \in [Thread -> {"new", "run", "done"}]
  BY DEF TypeOK
<1>4. /\ state' \in [Thread -> {"new", "run", "done"}]
      /\ state'[t] = "run" /\ \A u \in Thread : u # t => state'[u] = state[u]
  BY <1>2, <1>3
<1>5. inbox' \in [Proc -> [Node -> Seq(Message)]]
  BY <1>1, <1>2, SendLink
<1>6. TypeOK'
  BY <1>2, <1>4, <1>5 DEF TypeOK, stubVars
<1>7. UNCHANGED <<running, msg_queue, id2addr, bufmsg, left>>
  BY <1>2 DEF stubVars
<1>8. ProcsOK'
  BY <1>1, <1>2, <1>4, <1>7, SendStep
<1> QED
  BY <1>6, <1>8

LEMMA RequestStep ==
  ASSUME TypeOK, ProcsOK, NEW w \in Worker, WorkerRequest(w)
  PROVE  TypeOK' /\ ProcsOK'
<1> DEFINE m == Msg("kUpdate", w, procOf[w], <<w, asked[w]>>)
<1>1. w \in Thread
  BY DEF Thread
<1>2. m \in Message /\ m.type = "kUpdate" /\ m.src = w
  <2>1. asked[w] \in Nat
    BY DEF TypeOK
  <2> QED
    BY <1>1, <2>1, MessageIs, ThreadsAre DEF Node
<1>3. /\ DealerSend(w, m) /\ state[w] = "run" /\ state' = state
      /\ asked' = [asked EXCEPT ![w] = @ + 1]
      /\ missing' = [missing EXCEPT ![w] = Cardinality(ServersOf(w))]
      /\ UNCHANGED <<stubVars, tbox, gone>>
  BY DEF WorkerRequest, Alive
<1> HIDE DEF m
<1>4. Cardinality(ServersOf(w)) \in Int
  BY ServersFinite, FS_CardinalityType
<1>5. asked' \in [Worker -> Nat] /\ missing' \in [Worker -> Int]
  BY <1>3, <1>4 DEF TypeOK
<1>6. inbox' \in [Proc -> [Node -> Seq(Message)]]
  BY <1>1, <1>2, <1>3, SendLink
<1>7. TypeOK'
  BY <1>3, <1>5, <1>6 DEF TypeOK, stubVars
<1>8. UNCHANGED <<running, msg_queue, id2addr, bufmsg, left>>
  BY <1>3 DEF stubVars
<1>9. ProcsOK'
  BY <1>1, <1>2, <1>3, <1>8, SendStep
<1> QED
  BY <1>7, <1>9

\* The last message of a worker or of a server.
LEMMA StopStep ==
  ASSUME TypeOK, ProcsOK, NEW t \in Thread, NEW n \in Nat, state[t] = "run",
         state' = [state EXCEPT ![t] = "done"],
         DealerSend(t, Msg("kStop", t, procOf[t], <<t, n>>)),
         UNCHANGED <<stubVars, tbox, asked, missing, gone>>
  PROVE  TypeOK' /\ ProcsOK'
<1> DEFINE m == Msg("kStop", t, procOf[t], <<t, n>>)
<1>1. m \in Message /\ m.type = "kStop" /\ m.src = t /\ m.dst = procOf[t]
  BY MessageIs, ThreadsAre DEF Node
<1>2. DealerSend(t, m)
  OBVIOUS
<1> HIDE DEF m
<1>3. state \in [Thread -> {"new", "run", "done"}]
  BY DEF TypeOK
<1>4. /\ state' \in [Thread -> {"new", "run", "done"}]
      /\ state'[t] = "done" /\ \A u \in Thread : u # t => state'[u] = state[u]
  BY <1>3
<1>5. inbox' \in [Proc -> [Node -> Seq(Message)]]
  BY <1>1, <1>2, SendLink
<1>6. TypeOK'
  BY <1>4, <1>5 DEF TypeOK, stubVars
<1>7. UNCHANGED <<running, msg_queue, id2addr, bufmsg, left>>
  BY DEF stubVars
<1>8. ProcsOK'
  BY <1>1, <1>2, <1>4, <1>7, SendStep
<1> QED
  BY <1>6, <1>8

LEMMA ReplyStep ==
  ASSUME TypeOK, ProcsOK, NEW s \in Server, ServerReply(s)
  PROVE  TypeOK' /\ ProcsOK'
<1> DEFINE h == Head(tbox[s])
           m == [h EXCEPT !.type = "kRUpdate", !.src = s, !.dst = h.src]
<1>1. s \in Thread /\ tbox \in [Thread -> Seq(Message)] /\ tbox[s] \in Seq(Message)
  BY DEF Thread, TypeOK
<1>2. /\ state[s] = "run" /\ tbox[s] # << >> /\ tbox' = [tbox EXCEPT ![s] = Tail(@)]
      /\ IF h.type = "kUpdate" THEN DealerSend(s, m) ELSE UNCHANGED inbox
      /\ UNCHANGED <<stubVars, state, asked, missing, gone>>
  BY DEF ServerReply, Alive
<1>3. h \in Message /\ Tail(tbox[s]) \in Seq(Message)
  BY <1>1, <1>2, HeadTailProperties
<1>4. tbox' \in [Thread -> Seq(Message)]
  BY <1>1, <1>2, <1>3
<1>5. UNCHANGED <<running, msg_queue, id2addr, bufmsg, left>>
  BY <1>2 DEF stubVars
<1>6. CASE h.type = "kUpdate"
  <2>1. m \in Message /\ m.src = s /\ m.type = "kRUpdate"
    BY <1>1, <1>3 DEF Message, Node
  <2> HIDE DEF m
  <2>2. inbox' \in [Proc -> [Node -> Seq(Message)]]
    BY <1>1, <1>2, <1>6, <2>1, SendLink
  <2>3. TypeOK'
    BY <1>2, <1>4, <2>2 DEF TypeOK, stubVars
  <2>4. ProcsOK'
    BY <1>1, <1>2, <1>5, <1>6, <2>1, SendStep
  <2> QED
    BY <2>3, <2>4
<1>7. CASE h.type # "kUpdate"
  <2>1. inbox' = inbox
    BY <1>2, <1>7
  <2>2. TypeOK'
    BY <1>2, <1>4, <2>1 DEF TypeOK, stubVars
  <2>3. ProcsOK'
    BY <1>2, <1>5, <2>1 DEF ProcsOK
  <2> QED
    BY <2>2, <2>3
<1> QED
  BY <1>6, <1>7

LEMMA StartStep ==
  ASSUME TypeOK, ProcsOK, NEW p \in Proc, Start(p)
  PROVE  TypeOK' /\ ProcsOK'
<1>1. /\ running' = [running EXCEPT ![p] = "yes"]
      /\ UNCHANGED <<msg_queue, id2addr, bufmsg, nBufmsg, left, reminders, sync_server_id, inbox, tbox, state, asked, missing, gone>>
  BY DEF Start
<1>2. /\ running' \in [Proc -> Running]
      /\ \A q \in Proc : running'[q] = "ended" => running[q] = "ended"
  BY <1>1 DEF TypeOK, Running
<1>3. TypeOK'
  BY <1>1, <1>2 DEF TypeOK
<1>4. ASSUME NEW q \in Proc
      PROVE  ProcOK(q, running'[q], msg_queue[q], id2addr[q], bufmsg[q], left[q], inbox[q], state)
  <2>1. ProcOK(q, running[q], msg_queue[q], id2addr[q], bufmsg[q], left[q], inbox[q], state)
    BY DEF ProcsOK
  <2>2. \A c \in Proc : NoStop(inbox[q][c])
    BY <2>1 DEF ProcOK, LinksOK
  <2> QED
    BY <1>2, <2>1, <2>2, ProcFrame
<1>5. ProcsOK'
  BY <1>1, <1>4 DEF ProcsOK
<1> QED
  BY <1>3, <1>5

LEMMA ReceiveStep ==
  ASSUME TypeOK, ProcsOK, NEW p \in Proc, NEW c \in Node, RouterReceive(p, c)
  PROVE  TypeOK' /\ ProcsOK'
<1>1. /\ TypeOK'
      /\ inbox[p][c] # << >> /\ msg_queue[p] = << >> /\ running[p] = "yes"
      /\ msg_queue'[p] = << Head(inbox[p][c]) >>
      /\ inbox'[p][c] = Tail(inbox[p][c])
      /\ \A d \in Node : d # c => inbox'[p][d] = inbox[p][d]
      /\ Head(inbox[p][c]).src \in Thread => Head(inbox[p][c]).src \in id2addr'[p]
      /\ \A t \in Thread : IF t \in id2addr[p] THEN t \in id2addr'[p] /\ bufmsg'[p][t] = bufmsg[p][t]
                             ELSE t \in id2addr'[p] => bufmsg'[p][t] = << >>
      /\ \A q \in Proc : q # p => /\ msg_queue'[q] = msg_queue[q] /\ inbox'[q] = inbox[q]
                                  /\ id2addr'[q] = id2addr[q] /\ bufmsg'[q] = bufmsg[q]
      /\ UNCHANGED <<running, left, state>>
  BY ReceiveType
<1>2. ProcOK(p, running[p], << >>, id2addr[p], bufmsg[p], left[p], inbox[p], state)
  BY <1>1 DEF ProcsOK
<1>3. \A t \in ThreadsOf(p) : IF t \in id2addr[p] THEN t \in id2addr'[p] /\ bufmsg'[p][t] = bufmsg[p][t]
                               ELSE t \in id2addr'[p] => bufmsg'[p][t] = << >>
  BY <1>1, ThreadsAre
<1>4. ProcOK(p, running[p], << Head(inbox[p][c]) >>, id2addr'[p], bufmsg'[p], left[p], inbox'[p], state)
  <2> DEFINE in == inbox[p]
             in2 == inbox'[p]
             k == id2addr[p]
             k2 == id2addr'[p]
             b == bufmsg[p]
             b2 == bufmsg'[p]
             r == running[p]
             l == left[p]
  <2>0. /\ in[c] # << >> /\ in2[c] = Tail(in[c]) /\ r # "ended" /\ in[c] \in Seq(Message)
        /\ Head(in[c]).src \in Thread => Head(in[c]).src \in k2
    BY <1>1 DEF TypeOK
  <2>a. \A d \in Node : d # c => in2[d] = in[d]
    BY <1>1
  <2>b. ProcOK(p, r, << >>, k, b, l, in, state)
    BY <1>2
  <2>c. \A t \in ThreadsOf(p) : IF t \in k THEN t \in k2 /\ b2[t] = b[t] ELSE t \in k2 => b2[t] = << >>
    BY <1>3
  <2> HIDE DEF in, in2, k, k2, b, b2, r, l
  <2>d. ProcOK(p, r, << Head(in[c]) >>, k2, b2, l, in2, state)
    <3>1. CASE c \in Proc
      BY <2>0, <2>a, <2>b, <2>c, <3>1, ProcTakeStub
    <3>2. CASE c \in Thread
      <4>1. c \in ThreadsOf(p)
        BY <2>0, <2>b, <3>2 DEF ProcOK, LinksOK
      <4>2. SourceOK(c, in[c], state[c])
        BY <2>b, <4>1 DEF ProcOK, LinksOK
      <4>3. Head(in[c]).src = c
        BY <2>0, <3>2, <4>2, SourceTake
      <4>4. c \in k2
        BY <2>0, <3>2, <4>3
      <4> QED
        BY <2>0, <2>a, <2>b, <2>c, <4>1, <4>4, ProcTakeThread
    <3> QED
      BY <3>1, <3>2 DEF Node
  <2> QED
    BY <2>d DEF in, in2, k2, b2, r, l
<1>5. ProcsOK'
  <2> SUFFICES ASSUME NEW q \in Proc
               PROVE  ProcOK(q, running'[q], msg_queue'[q], id2addr'[q], bufmsg'[q], left'[q],
                             inbox'[q], state')
    BY DEF ProcsOK
  <2>1. CASE q = p
    BY <1>1, <1>4, <2>1
  <2>2. CASE q # p
    BY <1>1, <2>2 DEF ProcsOK
  <2> QED
    BY <2>1, <2>2
<1> QED
  BY <1>1, <1>5

\* The stub goes on; other processes are as before, but for messages of stubs.
LEMMA StubStep ==
  ASSUME TypeOK, ProcsOK, NEW p \in Proc, running'[p] # "ended",
         NoStop(msg_queue[p]), NoStop(msg_queue'[p]), msg_queue'[p] \in Seq(Message),
         \A t \in id2addr[p] : bufmsg'[p][t] = bufmsg[p][t],
         \A q \in Proc : q # p => /\ running'[q] = running[q] /\ msg_queue'[q] = msg_queue[q]
                                 /\ bufmsg'[q] = bufmsg[q],
         \A q \in Proc : (\A t \in Thread : inbox'[q][t] = inbox[q][t]) /\ \A c \in Proc : NoStop(inbox'[q][c]),
         inbox'[p] = inbox[p],
         UNCHANGED <<id2addr, left, state>>
  PROVE  ProcsOK'
<1> SUFFICES ASSUME NEW q \in Proc
             PROVE  ProcOK(q, running'[q], msg_queue'[q], id2addr[q], bufmsg'[q], left[q], inbox'[q], state)
  BY DEF ProcsOK
<1>1. ProcOK(q, running[q], msg_queue[q], id2addr[q], bufmsg[q], left[q], inbox[q], state)
  BY DEF ProcsOK
<1>2. CASE q = p
  <2>1. \A t \in ThreadsOf(p) : t \in id2addr[p] => bufmsg'[p][t] = bufmsg[p][t]
    OBVIOUS
  <2>2. ProcOK(p, running'[p], msg_queue'[p], id2addr[p], bufmsg'[p], left[p], inbox[p], state)
    BY <1>1, <1>2, <2>1, ProcStub
  <2> QED
    BY <1>2, <2>2
<1>3. CASE q # p
  <2>1. ProcOK(q, running[q], msg_queue[q], id2addr[q], bufmsg[q], left[q], inbox'[q], state)
    BY <1>1, ProcFrame
  <2> QED
    BY <1>3, <2>1
<1> QED
  BY <1>2, <1>3

LEMMA NoStops ==
  ASSUME ProcsOK
  PROVE  \A p, c \in Proc : NoStop(inbox[p][c])
BY DEF ProcsOK, ProcOK, LinksOK

\* The server a stub reminds is one of its process, and so is the next one.
LEMMA ReminderTo ==
  ASSUME TypeOK, ProcsOK, NEW p \in Proc, left[p].servers # 0
  PROVE  LET k == sync_server_id[p] IN
         /\ SetToSeq(ThreadsOf(p) \cap Server)[1 + k] \in ThreadsOf(p) \cap Server
         /\ (k + 1) % left[p].servers \in Nat /\ TurnOK(p, (k + 1) % left[p].servers)
<1> DEFINE S == ThreadsOf(p) \cap Server
           open == Unstopped(p, msg_queue[p], inbox[p], state) \cap Server
<1>1. PICK k, n, l, servers : /\ k = sync_server_id[p] /\ n = Cardinality(S) /\ l = left[p].servers
                              /\ servers = SetToSeq(S)
  OBVIOUS
<1>2. k \in Nat /\ (k = 0 \/ k < n)
  BY <1>1 DEF TypeOK, TurnOK
<1>3. l = Cardinality(open)
  <2>1. PICK x, o : x = left[p] /\ o = Unstopped(p, msg_queue[p], inbox[p], state)
    OBVIOUS
  <2>2. CountOK(x, o)
    BY <2>1 DEF ProcsOK, ProcOK
  <2>3. x.servers = Cardinality(o \cap Server)
    BY <2>2 DEF CountOK
  <2> QED
    BY <1>1, <2>1, <2>3
<1>4. IsFiniteSet(S)
  BY ThreadsAre, FS_Intersection
<1>5. open \subseteq S
  BY DEF Unstopped
<1>6. Cardinality(open) \in Nat /\ Cardinality(open) <= n /\ n \in Nat
  BY <1>1, <1>4, <1>5, FS_Subset, FS_CardinalityType
<1>7. l \in Nat /\ l > 0 /\ l <= n /\ n \in Nat
  BY <1>1, <1>3, <1>6
<1>8. servers \in [1..n -> S]
  BY <1>1, <1>4, SetSequence
<1>9. 1 + k \in 1..n
  BY <1>2, <1>7
<1>10. servers[1 + k] \in S
  BY <1>8, <1>9
<1>11. (k + 1) % l \in Nat /\ (k + 1) % l < l
  BY <1>2, <1>7
<1>12. (k + 1) % l < n
  BY <1>7, <1>11
<1>13. TurnOK(p, (k + 1) % l)
  BY <1>1, <1>12 DEF TurnOK
<1> QED
  BY <1>1, <1>10, <1>11, <1>13

LEMMA PollStep ==
  ASSUME TypeOK, ProcsOK, NEW p \in Proc, PollTimeout(p)
  PROVE  TypeOK' /\ ProcsOK'
<1>1. CASE UNCHANGED vars
  BY <1>1 DEF vars, stubVars, TypeOK, ProcsOK
<1>2. CASE ~UNCHANGED vars /\ left[p].servers = 0
  <2>1. /\ msg_queue[p] = << >>
        /\ reminders' = [reminders EXCEPT ![p] = @ + 1]
        /\ running' = [running EXCEPT ![p] = "crashed"]
        /\ UNCHANGED <<sync_server_id, tbox, bufmsg, nBufmsg, msg_queue, id2addr, left, inbox,
                       state, asked, missing, gone>>
    BY <1>2 DEF PollTimeout
  <2>2. reminders' \in [Proc -> Nat] /\ running' \in [Proc -> Running]
    BY <2>1 DEF TypeOK, Running
  <2>3. TypeOK'
    BY <2>1, <2>2 DEF TypeOK
  <2>4. /\ running'[p] = "crashed" /\ \A q \in Proc : q # p => running'[q] = running[q]
    BY <2>1 DEF TypeOK
  <2>5. /\ running'[p] # "ended" /\ NoStop(msg_queue[p]) /\ NoStop(msg_queue'[p])
        /\ msg_queue'[p] \in Seq(Message)
    <3>1. NoStop(<< >>) /\ << >> \in Seq(Message)
      BY DEF NoStop
    <3> QED
      BY <2>1, <2>4, <3>1
  <2>6. /\ \A q, c \in Proc : NoStop(inbox'[q][c])
        /\ inbox' = inbox
    BY <2>1, NoStops
  <2>7. ProcsOK'
    BY <2>1, <2>4, <2>5, <2>6, StubStep
  <2> QED
    BY <2>3, <2>7
<1>3. CASE ~UNCHANGED vars /\ left[p].servers # 0
  <2> DEFINE S == ThreadsOf(p) \cap Server
             s == SetToSeq(S)[1 + sync_server_id[p]]
             m == Msg("kSyncReminder", p, s, <<p, reminders[p]>>)
             k2 == (sync_server_id[p] + 1) % left[p].servers
  <2>1. /\ running[p] = "yes" /\ msg_queue[p] = << >>
        /\ reminders' = [reminders EXCEPT ![p] = @ + 1]
        /\ RouterSend(p, m) /\ sync_server_id' = [sync_server_id EXCEPT ![p] = k2]
        /\ UNCHANGED <<msg_queue, id2addr, left, inbox, state, asked, missing, gone>>
    BY <1>3 DEF PollTimeout
  <2>2. reminders[p] \in Nat /\ reminders' \in [Proc -> Nat]
    BY <2>1 DEF TypeOK
  <2>3. s \in S /\ k2 \in Nat /\ TurnOK(p, k2)
    BY <1>3, ReminderTo
  <2> HIDE DEF k2
  <2> HIDE DEF s
  <2>4. m \in Message /\ m.dst = s /\ s \in Thread
    <3>1. s \in Thread
      BY <2>3, ThreadsAre
    <3> QED
      BY <2>2, <3>1, MessageIs DEF Node
  <2> HIDE DEF m
  <2>5. m.dst \in Thread
    BY <2>4
  <2>6. /\ tbox' \in [Thread -> Seq(Message)]
        /\ bufmsg' \in [Proc -> [Thread -> Seq(Message)]]
        /\ nBufmsg' \in [Proc -> Nat]
        /\ running' \in [Proc -> Running]
        /\ \A t \in id2addr[p] : bufmsg'[p][t] = bufmsg[p][t]
        /\ running'[p] \in {running[p], "fatal"}
        /\ \A q \in Proc : q # p => bufmsg'[q] = bufmsg[q] /\ running'[q] = running[q]
    BY <2>1, <2>4, <2>5, RouterType
  <2>7. TypeOK'
    <3>1. /\ sync_server_id' \in [Proc -> Nat] /\ sync_server_id'[p] = k2
          /\ \A q \in Proc : q # p => sync_server_id'[q] = sync_server_id[q]
      BY <2>1, <2>3 DEF TypeOK
    <3>2. \A q \in Proc : TurnOK(q, sync_server_id'[q])
      BY <2>3, <3>1 DEF TypeOK
    <3> QED
      BY <2>1, <2>2, <2>6, <3>1, <3>2 DEF TypeOK
  <2>8. /\ running'[p] # "ended" /\ NoStop(msg_queue[p]) /\ NoStop(msg_queue'[p])
        /\ msg_queue'[p] \in Seq(Message)
    <3>1. NoStop(<< >>) /\ << >> \in Seq(Message)
      BY DEF NoStop
    <3> QED
      BY <2>1, <2>6, <3>1
  <2>9. /\ \A q, c \in Proc : NoStop(inbox'[q][c])
        /\ inbox' = inbox
    BY <2>1, NoStops
  <2>10. ProcsOK'
    BY <2>1, <2>6, <2>8, <2>9, StubStep
  <2> QED
    BY <2>7, <2>10
<1> QED
  BY <1>1, <1>2, <1>3

\* The head of the queue and what is behind it.
LEMMA QueueHead ==
  ASSUME TypeOK, ProcsOK, NEW p \in Proc, msg_queue[p] # << >>
  PROVE  LET h == Head(msg_queue[p]) IN
         /\ h \in Message /\ Tail(msg_queue[p]) \in Seq(Message)
         /\ h.type # "kStop" => NoStop(msg_queue[p]) /\ NoStop(Tail(msg_queue[p]))
         /\ h.type = "kStop" => Tail(msg_queue[p]) = << >> /\ h.dst = p
<1>1. StopOK(p, msg_queue[p], inbox[p], state)
  BY DEF ProcsOK, ProcOK
<1> QED
  BY <1>1, StopAlone

LEMMA StubStopStep ==
  ASSUME TypeOK, ProcsOK, NEW p \in Proc, running[p] = "yes", msg_queue[p] # << >>,
         Head(msg_queue[p]).type = "kStop", StubStop(p), UNCHANGED <<state, asked, gone>>
  PROVE  TypeOK' /\ ProcsOK'
<1> DEFINE h == Head(msg_queue[p])
           l == left[p]
           l2 == CountStop(p, h.src)
           r2 == IF l2.workers = 0 /\ l2.servers = 0 THEN "ended" ELSE running[p]
<1>1. /\ left' = [left EXCEPT ![p] = l2] /\ running' = [running EXCEPT ![p] = r2]
      /\ msg_queue' = [msg_queue EXCEPT ![p] = Tail(@)]
      /\ UNCHANGED <<id2addr, bufmsg, nBufmsg, reminders, sync_server_id, inbox, tbox, missing>>
  BY DEF StubStop
<1>2. Tail(msg_queue[p]) = << >> /\ << >> \in Seq(Message)
  BY QueueHead
<1>3. l2 = IF h.src \in Server THEN [l EXCEPT !.servers = @ - 1] ELSE [l EXCEPT !.workers = @ - 1]
  BY DEF CountStop
<1>4. l2 \in [workers : Int, servers : Int]
  BY <1>3 DEF TypeOK
<1>5. r2 \in Running
  BY DEF Running
<1>6. ProcOK(p, running[p], msg_queue[p], id2addr[p], bufmsg[p], l, inbox[p], state)
  BY DEF ProcsOK
<1>7. ProcOK(p, r2, << >>, id2addr[p], bufmsg[p], l2, inbox[p], state)
  <2>1. r2 = IF l2.workers = 0 /\ l2.servers = 0 THEN "ended" ELSE running[p]
    OBVIOUS
  <2> HIDE DEF l2, r2, l
  <2> QED
    BY <1>3, <1>6, <2>1, ProcStop, ZenonT(60)
<1> HIDE DEF l2, r2, l
<1>8. /\ left' \in [Proc -> [workers : Int, servers : Int]] /\ left'[p] = l2
      /\ \A q \in Proc : q # p => left'[q] = left[q]
  BY <1>1, <1>4 DEF TypeOK
<1>9. /\ running' \in [Proc -> Running] /\ running'[p] = r2
      /\ \A q \in Proc : q # p => running'[q] = running[q]
  BY <1>1, <1>5 DEF TypeOK
<1>10. /\ msg_queue' \in [Proc -> Seq(Message)] /\ msg_queue'[p] = << >>
       /\ \A q \in Proc : q # p => msg_queue'[q] = msg_queue[q]
  BY <1>1, <1>2 DEF TypeOK
<1>11. TypeOK'
  BY <1>1, <1>8, <1>9, <1>10 DEF TypeOK
<1>12. ProcsOK'
  <2> SUFFICES ASSUME NEW q \in Proc
               PROVE  ProcOK(q, running'[q], msg_queue'[q], id2addr[q], bufmsg[q], left'[q], inbox[q], state)
    BY <1>1 DEF ProcsOK
  <2>1. CASE q = p
    BY <1>7, <1>8, <1>9, <1>10, <2>1
  <2>2. CASE q # p
    BY <1>8, <1>9, <1>10, <2>2 DEF ProcsOK
  <2> QED
    BY <2>1, <2>2
<1> QED
  BY <1>11, <1>12

LEMMA LocalStep ==
  ASSUME TypeOK, ProcsOK, NEW p \in Proc, running[p] = "yes", msg_queue[p] # << >>,
         Head(msg_queue[p]).type # "kStop", HandleLocalMsg(p), UNCHANGED <<state, asked, gone>>
  PROVE  TypeOK' /\ ProcsOK'
<1> DEFINE m == Head(msg_queue[p])
           a == Tail(msg_queue[p])
           S == ServersOf(m.n[1])
           n == Cardinality(S)
           new == IF m.type = "kUpdate"
                  THEN [i \in 1..n |-> Msg("kUpdate", p, SetToSeq(S)[i], m.n)]
                  ELSE << >>
           q2 == a \o new
<1>1. /\ msg_queue' = [msg_queue EXCEPT ![p] = q2]
      /\ missing' = IF m.type = "kRUpdate" THEN [missing EXCEPT ![m.n[1]] = @ - 1] ELSE missing
      /\ UNCHANGED <<running, id2addr, bufmsg, nBufmsg, left, reminders, sync_server_id, inbox, tbox>>
  BY DEF HandleLocalMsg
<1>2. m \in Message /\ a \in Seq(Message) /\ NoStop(msg_queue[p]) /\ NoStop(a)
  BY QueueHead
<1>3. SetToSeq(S) \in [1..n -> S] /\ n \in Nat /\ S \subseteq Server
  BY ServersFinite, SetSequence
<1> HIDE DEF S
<1>4. new \in Seq(Message) /\ NoStop(new)
  <2>1. CASE m.type = "kUpdate"
    <3> DEFINE msg(i) == Msg("kUpdate", p, SetToSeq(S)[i], m.n)
    <3>1. ASSUME NEW i \in 1..n
          PROVE  msg(i) \in Message /\ msg(i).type = "kUpdate"
      <4>1. SetToSeq(S)[i] \in Node /\ p \in Node /\ m.n \in Node \X Nat
        BY <1>2, <1>3 DEF Node, Thread, Message
      <4> QED
        BY <4>1, MessageIs
    <3>2. new = [i \in 1..n |-> msg(i)]
      BY <2>1
    <3> HIDE DEF msg, new
    <3>3. new \in [1..n -> Message] /\ \A i \in 1..n : new[i].type = "kUpdate"
      BY <3>1, <3>2
    <3>4. new \in Seq(Message) /\ Len(new) = n
      BY <1>3, <3>3
    <3> QED
      BY <3>3, <3>4 DEF NoStop
  <2>2. CASE m.type # "kUpdate"
    <3>1. new = << >>
      BY <2>2
    <3>2. << >> \in Seq(Message) /\ Len(<< >>) = 0
      OBVIOUS
    <3>3. NoStop(<< >>)
      BY <3>2 DEF NoStop
    <3> HIDE DEF new
    <3> QED
      BY <3>1, <3>2, <3>3
  <2> QED
    BY <2>1, <2>2
<1> HIDE DEF new, a
<1>5. q2 \in Seq(Message) /\ NoStop(q2)
  <2> DEFINE la == Len(a)
             ln == Len(new)
  <2>1. /\ q2 \in Seq(Message) /\ la \in Nat /\ ln \in Nat /\ Len(q2) = la + ln
        /\ \A i \in 1..(la + ln) : q2[i] = IF i <= la THEN a[i] ELSE new[i - la]
    BY <1>2, <1>4, ConcatProperties, LenProperties
  <2>2. (\A i \in 1..la : a[i].type # "kStop") /\ \A i \in 1..ln : new[i].type # "kStop"
    BY <1>2, <1>4 DEF NoStop
  <2> HIDE DEF la, ln, q2
  <2>3. \A i \in 1..(la + ln) : IF i <= la THEN i \in 1..la ELSE i - la \in 1..ln
    BY <2>1
  <2>4. \A i \in 1..(la + ln) : q2[i].type # "kStop"
    BY <2>1, <2>2, <2>3
  <2> QED
    BY <2>1, <2>4 DEF NoStop
<1> HIDE DEF q2
<1>6. /\ msg_queue' \in [Proc -> Seq(Message)] /\ msg_queue'[p] = q2
      /\ \A q \in Proc : q # p => msg_queue'[q] = msg_queue[q]
  BY <1>1, <1>5 DEF TypeOK
<1>7. missing' \in [Worker -> Int]
  <2> DEFINE x == m.n[1]
  <2>1. missing' = [missing EXCEPT ![x] = @ - 1] \/ missing' = missing
    BY <1>1
  <2>2. missing \in [Worker -> Int]
    BY DEF TypeOK
  <2> HIDE DEF x
  <2>3. ASSUME missing' = [missing EXCEPT ![x] = @ - 1]
        PROVE  missing' \in [Worker -> Int]
    <3>1. missing' = [w \in Worker |-> IF w = x THEN missing[w] - 1 ELSE missing[w]]
      BY <2>2, <2>3
    <3>2. \A w \in Worker : missing[w] - 1 \in Int /\ missing[w] \in Int
      BY <2>2
    <3> QED
      BY <3>1, <3>2
  <2> QED
    BY <2>1, <2>2, <2>3
<1>8. TypeOK'
  BY <1>1, <1>6, <1>7 DEF TypeOK
<1>9. \A q, c \in Proc : NoStop(inbox'[q][c])
  BY <1>1, NoStops
<1>10. ProcsOK'
  BY <1>1, <1>2, <1>5, <1>6, <1>9, StubStep
<1> QED
  BY <1>8, <1>10

LEMMA InterProcsStep ==
  ASSUME TypeOK, ProcsOK, NEW p \in Proc, running[p] = "yes", msg_queue[p] # << >>,
         DstProcs(Head(msg_queue[p]).dst) # p,
         InterProcsSend(p, DstProcs(Head(msg_queue[p]).dst)), UNCHANGED <<state, asked, gone>>
  PROVE  TypeOK' /\ ProcsOK'
<1> DEFINE m == Head(msg_queue[p])
           a == Tail(msg_queue[p])
           q == DstProcs(m.dst)
           s == Append(inbox[q][p], m)
           row == [inbox[q] EXCEPT ![p] = s]
<1>1. /\ inbox' = [inbox EXCEPT ![q] = row] /\ msg_queue' = [msg_queue EXCEPT ![p] = a]
      /\ UNCHANGED <<running, id2addr, bufmsg, nBufmsg, left, reminders, sync_server_id, tbox, missing>>
  BY DEF InterProcsSend
<1>2. m \in Message /\ a \in Seq(Message) /\ (m.type # "kStop" => NoStop(msg_queue[p]) /\ NoStop(a))
      /\ (m.type = "kStop" => m.dst = p)
  BY QueueHead
<1>3. m.type # "kStop"
  BY <1>2 DEF DstProcs
<1>4. q \in Proc /\ q # p /\ p \in Node
  BY <1>2, ThreadsAre DEF DstProcs, Message, Node
<1>5. inbox \in [Proc -> [Node -> Seq(Message)]] /\ inbox[q][p] \in Seq(Message)
  BY <1>4 DEF TypeOK
<1>6. s \in Seq(Message) /\ NoStop(s)
  <2> DEFINE o == inbox[q][p]
             l == Len(o)
  <2>1. /\ s \in Seq(Message) /\ l \in Nat /\ Len(s) = l + 1 /\ s[l + 1] = m
        /\ \A i \in 1..l : s[i] = o[i]
    BY <1>2, <1>5, AppendProperties, LenProperties
  <2>2. \A i \in 1..l : o[i].type # "kStop"
    BY <1>4, NoStops DEF NoStop
  <2> HIDE DEF l, o, s, m
  <2>3. \A i \in 1..(l + 1) : i \in 1..l \/ i = l + 1
    BY <2>1
  <2>4. \A i \in 1..(l + 1) : s[i].type # "kStop"
    BY <1>3, <2>1, <2>2, <2>3
  <2> QED
    BY <2>1, <2>4 DEF NoStop
<1> HIDE DEF s, q, m, a
<1>7. /\ row \in [Node -> Seq(Message)] /\ row[p] = s
      /\ \A c \in Node : c # p => row[c] = inbox[q][c]
  BY <1>4, <1>5, <1>6
<1> HIDE DEF row
<1>8. /\ inbox' \in [Proc -> [Node -> Seq(Message)]] /\ inbox'[q] = row
      /\ \A x \in Proc : x # q => inbox'[x] = inbox[x]
  BY <1>1, <1>4, <1>5, <1>7
<1>9. /\ msg_queue' \in [Proc -> Seq(Message)] /\ msg_queue'[p] = a
      /\ \A x \in Proc : x # p => msg_queue'[x] = msg_queue[x]
  BY <1>1, <1>2 DEF TypeOK
<1>10. TypeOK'
  BY <1>1, <1>8, <1>9 DEF TypeOK
<1>11. ASSUME NEW x \in Proc
       PROVE  (\A t \in Thread : inbox'[x][t] = inbox[x][t]) /\ \A c \in Proc : NoStop(inbox'[x][c])
  <2>1. \A c \in Proc : NoStop(inbox[x][c])
    BY NoStops
  <2>2. CASE x # q
    BY <1>8, <2>1, <2>2
  <2>3. CASE x = q
    <3>1. \A t \in Thread : inbox'[x][t] = inbox[x][t]
      BY <1>7, <1>8, <2>3, ThreadsAre DEF Node
    <3>2. \A c \in Proc : c # p => inbox'[x][c] = inbox[x][c]
      BY <1>7, <1>8, <2>3 DEF Node
    <3>3. inbox'[x][p] = s
      BY <1>7, <1>8, <2>3
    <3> QED
      BY <1>6, <2>1, <3>1, <3>2, <3>3
  <2> QED
    BY <2>2, <2>3
<1>12. inbox'[p] = inbox[p] /\ running'[p] # "ended"
  BY <1>1, <1>4, <1>8
<1>13. NoStop(msg_queue[p]) /\ NoStop(msg_queue'[p]) /\ msg_queue'[p] \in Seq(Message)
  BY <1>2, <1>3, <1>9
<1>14. ProcsOK'
  BY <1>1, <1>9, <1>11, <1>12, <1>13, StubStep
<1> QED
  BY <1>10, <1>14

LEMMA RouterStep ==
  ASSUME TypeOK, ProcsOK, NEW p \in Proc, running[p] = "yes", msg_queue[p] # << >>,
         Head(msg_queue[p]).dst \in ThreadsOf(p), RouterSend(p, Head(msg_queue[p])),
         msg_queue' = [msg_queue EXCEPT ![p] = Tail(@)],
         UNCHANGED <<id2addr, left, reminders, sync_server_id, inbox, missing, state, asked, gone>>
  PROVE  TypeOK' /\ ProcsOK'
<1> DEFINE m == Head(msg_queue[p])
           a == Tail(msg_queue[p])
<1>1. m \in Message /\ a \in Seq(Message) /\ (m.type # "kStop" => NoStop(msg_queue[p]) /\ NoStop(a))
      /\ (m.type = "kStop" => m.dst = p)
  BY QueueHead
<1>2. m.dst \in Thread /\ m.type # "kStop"
  BY <1>1, ThreadsAre
<1>3. RouterSend(p, m) /\ msg_queue' = [msg_queue EXCEPT ![p] = a]
  OBVIOUS
<1> HIDE DEF m, a
<1>4. /\ tbox' \in [Thread -> Seq(Message)]
      /\ bufmsg' \in [Proc -> [Thread -> Seq(Message)]]
      /\ nBufmsg' \in [Proc -> Nat]
      /\ running' \in [Proc -> Running]
      /\ \A t \in id2addr[p] : bufmsg'[p][t] = bufmsg[p][t]
      /\ running'[p] \in {running[p], "fatal"}
      /\ \A q \in Proc : q # p => bufmsg'[q] = bufmsg[q] /\ running'[q] = running[q]
  BY <1>1, <1>2, <1>3, RouterType
<1>5. /\ msg_queue' \in [Proc -> Seq(Message)] /\ msg_queue'[p] = a
      /\ \A q \in Proc : q # p => msg_queue'[q] = msg_queue[q]
  BY <1>1, <1>3 DEF TypeOK
<1>6. TypeOK'
  BY <1>4, <1>5 DEF TypeOK
<1>7. \A q, c \in Proc : NoStop(inbox'[q][c])
  BY NoStops
<1>8. running'[p] # "ended" /\ NoStop(msg_queue[p]) /\ NoStop(msg_queue'[p]) /\ msg_queue'[p] \in Seq(Message)
  BY <1>1, <1>2, <1>4, <1>5
<1>9. ProcsOK'
  BY <1>4, <1>5, <1>7, <1>8, StubStep
<1> QED
  BY <1>6, <1>9

LEMMA DispatchStep ==
  ASSUME TypeOK, ProcsOK, NEW p \in Proc, Dispatch(p)
  PROVE  TypeOK' /\ ProcsOK'
<1> DEFINE m == Head(msg_queue[p])
<1>1. running[p] = "yes" /\ msg_queue[p] # << >> /\ UNCHANGED <<state, asked, gone>>
  BY DEF Dispatch
<1>2. \/ m.dst = p /\ m.type = "kStop" /\ StubStop(p)
      \/ m.dst = p /\ m.type # "kStop" /\ HandleLocalMsg(p)
      \/ DstProcs(m.dst) # p /\ InterProcsSend(p, DstProcs(m.dst))
      \/ /\ m.dst \in ThreadsOf(p)
         /\ RouterSend(p, m)
         /\ msg_queue' = [msg_queue EXCEPT ![p] = Tail(@)]
         /\ UNCHANGED <<id2addr, left, reminders, sync_server_id, inbox, missing>>
  BY DEF Dispatch
<1>3. CASE m.dst = p /\ m.type = "kStop" /\ StubStop(p)
  BY <1>1, <1>3, StubStopStep
<1>4. CASE m.dst = p /\ m.type # "kStop" /\ HandleLocalMsg(p)
  BY <1>1, <1>4, LocalStep
<1>5. CASE DstProcs(m.dst) # p /\ InterProcsSend(p, DstProcs(m.dst))
  BY <1>1, <1>5, InterProcsStep
<1>6. CASE /\ m.dst \in ThreadsOf(p)
           /\ RouterSend(p, m)
           /\ msg_queue' = [msg_queue EXCEPT ![p] = Tail(@)]
           /\ UNCHANGED <<id2addr, left, reminders, sync_server_id, inbox, missing>>
  BY <1>1, <1>6, RouterStep
<1> QED
  BY <1>2, <1>3, <1>4, <1>5, <1>6

LEMMA InvInit == Init => TypeOK /\ ProcsOK
<1> SUFFICES ASSUME Init PROVE TypeOK /\ ProcsOK
  OBVIOUS
<1>0. << >> \in Seq(Message) /\ Len(<< >>) = 0
  OBVIOUS
<1>1. \A p \in Proc : /\ Cardinality(ThreadsOf(p) \cap Worker) \in Nat
                       /\ Cardinality(ThreadsOf(p) \cap Server) \in Nat
  BY ThreadsAre, FS_Intersection, FS_CardinalityType
<1>2. TypeOK
  <2>1. /\ running \in [Proc -> Running] /\ msg_queue \in [Proc -> Seq(Message)]
        /\ id2addr \in [Proc -> SUBSET Thread] /\ bufmsg \in [Proc -> [Thread -> Seq(Message)]]
        /\ nBufmsg \in [Proc -> Nat] /\ reminders \in [Proc -> Nat]
        /\ sync_server_id \in [Proc -> Nat] /\ gone \subseteq Worker
        /\ \A p \in Proc : TurnOK(p, sync_server_id[p])
    BY <1>0 DEF Init, Running, TurnOK
  <2>2. left \in [Proc -> [workers : Int, servers : Int]]
    <3> DEFINE l(p) == [workers |-> Cardinality(ThreadsOf(p) \cap Worker),
                        servers |-> Cardinality(ThreadsOf(p) \cap Server)]
    <3>1. left = [p \in Proc |-> l(p)]
      BY DEF Init
    <3>2. \A p \in Proc : l(p) \in [workers : Int, servers : Int]
      BY <1>1
    <3> HIDE DEF l
    <3> QED
      BY <3>1, <3>2
  <2>3. /\ inbox \in [Proc -> [Node -> Seq(Message)]] /\ tbox \in [Thread -> Seq(Message)]
        /\ state \in [Thread -> {"new", "run", "done"}]
        /\ asked \in [Worker -> Nat] /\ missing \in [Worker -> Int]
    BY <1>0 DEF Init, Node
  <2> QED
    BY <2>1, <2>2, <2>3 DEF TypeOK
<1>3. ASSUME NEW p \in Proc
      PROVE  ProcOK(p, running[p], msg_queue[p], id2addr[p], bufmsg[p], left[p], inbox[p], state)
  <2> DEFINE q == msg_queue[p]
             in == inbox[p]
             open == Unstopped(p, q, in, state)
  <2>1. /\ running[p] = "no" /\ q = << >> /\ id2addr[p] = {}
        /\ left[p] = [workers |-> Cardinality(ThreadsOf(p) \cap Worker),
                      servers |-> Cardinality(ThreadsOf(p) \cap Server)]
        /\ \A c \in Node : in[c] = << >>
        /\ \A t \in Thread : state[t] = "new"
    BY DEF Init, Node
  <2> HIDE DEF q, in
  <2>2. \A t \in ThreadsOf(p) : state[t] = "new" /\ in[t] = << >>
    BY <2>1, ThreadsAre DEF Node
  <2>3. open = ThreadsOf(p)
    BY <2>2 DEF Unstopped
  <2>4. \A t : SourceOK(t, << >>, "new")
    BY <1>0 DEF SourceOK
  <2>5. NoStop(<< >>)
    BY <1>0 DEF NoStop
  <2>6. LinksOK(p, in, state)
    BY <2>1, <2>2, <2>4, <2>5 DEF LinksOK, Node
  <2>7. StopOK(p, q, in, state)
    BY <1>0, <2>1 DEF StopOK
  <2>8. KnownOK(p, id2addr[p], bufmsg[p], in, state)
    BY <2>1, <2>2 DEF KnownOK
  <2>9. CountOK(left[p], open)
    BY <2>1, <2>3 DEF CountOK
  <2> QED
    BY <2>1, <2>6, <2>7, <2>8, <2>9 DEF ProcOK, q, in
<1> QED
  BY <1>2, <1>3 DEF ProcsOK

LEMMA InvNext == TypeOK /\ ProcsOK /\ [Next]_vars => (TypeOK /\ ProcsOK)'
<1> SUFFICES ASSUME TypeOK, ProcsOK, [Next]_vars
             PROVE  TypeOK' /\ ProcsOK'
  OBVIOUS
<1>1. ASSUME NEW p \in Proc, Stub(p) \/ PollTimeout(p)
      PROVE  TypeOK' /\ ProcsOK'
  <2>1. ASSUME NEW c \in Node, RouterReceive(p, c)
        PROVE  TypeOK' /\ ProcsOK'
    BY <2>1, ReceiveStep DEF Node
  <2> QED
    BY <1>1, <2>1, StartStep, DispatchStep, PollStep DEF Stub
<1>2. ASSUME NEW w \in Worker, WorkerThread(w)
      PROVE  TypeOK' /\ ProcsOK'
  <2>1. w \in Thread
    BY DEF Thread
  <2>2. CASE WorkerStop(w)
    BY <2>1, <2>2, StopStep, TransportAssumption DEF WorkerStop, Alive
  <2>3. CASE WorkerLeave(w)
    BY <2>3 DEF WorkerLeave, TypeOK, ProcsOK, stubVars
  <2> QED
    BY <1>2, <2>1, <2>2, <2>3, ConnectStep, RequestStep DEF WorkerThread
<1>3. ASSUME NEW s \in Server, ServerThread(s)
      PROVE  TypeOK' /\ ProcsOK'
  <2>1. s \in Thread
    BY DEF Thread
  <2>2. CASE ServerStop(s)
    BY <2>1, <2>2, StopStep DEF ServerStop, Alive
  <2> QED
    BY <1>3, <2>1, <2>2, ConnectStep, ReplyStep DEF ServerThread
<1>4. CASE UNCHANGED vars
  BY <1>4 DEF vars, stubVars, TypeOK, ProcsOK
<1> QED
  BY <1>1, <1>2, <1>3, <1>4 DEF Next

\* Every variable keeps its type; what the links and the queue of a stub hold of
\* stop messages agrees with its counters.
THEOREM TransportInv == Spec => [](TypeOK /\ ProcsOK)
<1>1. Spec => Init /\ [][Next]_vars
  BY PTL DEF Spec
<1> QED
  BY <1>1, InvInit, InvNext, PTL

\* For any processes, threads and requests: when a stub ends its loop, nothing
\* that a thread of its process has sent is on a link to it or in its queue,
\* and nothing is kept for a thread (Trainer::Run, Router).
THEOREM TransportNothingUnsent == Spec => []NothingUnsent
<1>1. TypeOK /\ ProcsOK => NothingUnsent
  <2> SUFFICES ASSUME ProcsOK, NEW p \in Proc, running[p] = "ended"
               PROVE  /\ msg_queue[p] = << >>
                      /\ \A t \in ThreadsOf(p) : inbox[p][t] = << >> /\ bufmsg[p][t] = << >>
    BY DEF NothingUnsent
  <2>1. /\ msg_queue[p] = << >> /\ Unstopped(p, msg_queue[p], inbox[p], state) = {}
        /\ KnownOK(p, id2addr[p], bufmsg[p], inbox[p], state)
    BY DEF ProcsOK, ProcOK
  <2>2. \A t \in ThreadsOf(p) : inbox[p][t] = << >> /\ state[t] = "done"
    BY <2>1 DEF Unstopped
  <2> QED
    BY <2>1, <2>2 DEF KnownOK
<1> QED
  BY <1>1, TransportInv, PTL
-----------------------------------------------------------------------------
(***************************************************************************)
(* Induction up to a bound, and functions defined by recursion.            *)
(***************************************************************************)
Less == {p \in Nat \X Nat : p[1] < p[2]}

LEMMA LessWellFounded == IsWellFoundedOn(Less, Nat)
BY NatLessThanWellFounded DEF OpToRel, Less

LEMMA Induction ==
  ASSUME NEW S, 0 \in S, \A n \in Nat : n \in S => n + 1 \in S
  PROVE  Nat \subseteq S
<1> DEFINE T == Nat \ S
<1> SUFFICES ASSUME T # {} PROVE FALSE
  OBVIOUS
<1>1. PICK x \in T : \A y \in T : ~(<<y, x>> \in Less)
  BY LessWellFounded, WFMin
<1>2. x # 0 /\ x - 1 \in Nat /\ x - 1 < x
  OBVIOUS
<1>3. <<x - 1, x>> \in Less
  BY <1>2 DEF Less
<1>4. x - 1 \in S
  BY <1>1, <1>2, <1>3
<1> QED BY <1>2, <1>4

\* The same from 0 up to a bound.
LEMMA InductionTo ==
  ASSUME NEW N \in Nat, NEW S, 0 \in S, \A n \in 0..(N - 1) : n \in S => n + 1 \in S
  PROVE  \A n \in 0..N : n \in S
<1> DEFINE T == {n \in Nat : n <= N => n \in S}
<1>1. 0 \in T
  OBVIOUS
<1>2. \A n \in Nat : n \in T => n + 1 \in T
  OBVIOUS
<1> HIDE DEF T
<1>3. Nat \subseteq T
  BY <1>1, <1>2, Induction
<1> QED
  BY <1>3 DEF T

\* f is the recursive function over 0..N that begins with b and goes on by F.
Steps(N, V, F) == F \in [1..N -> [V -> V]]
Runs(f, N, V, b, F) == f \in [0..N -> V] /\ f[0] = b /\ \A n \in 1..N : f[n] = F[n][f[n - 1]]

\* Such a function exists.
LEMMA Recursion ==
  ASSUME NEW N \in Nat, NEW V, NEW b \in V, NEW F, Steps(N, V, F)
  PROVE  \E f : Runs(f, N, V, b, F)
<1>0. F \in [1..N -> [V -> V]]
  BY DEF Steps
<1> DEFINE Is(f, m) == f[0] = b /\ \A n \in 1..m : f[n] = F[n][f[n - 1]]
           S == {m \in 0..N : \E f \in [0..m -> V] : Is(f, m)}
<1>1. 0 \in S
  <2> DEFINE f == [n \in 0..0 |-> b]
  <2>1. f \in [0..0 -> V] /\ Is(f, 0)
    OBVIOUS
  <2>2. 0 \in 0..N
    OBVIOUS
  <2> HIDE DEF f
  <2> QED BY <2>1, <2>2
<1>2. ASSUME NEW m \in 0..(N - 1), m \in S
      PROVE  m + 1 \in S
  <2>1. PICK f \in [0..m -> V] : Is(f, m)
    BY <1>2
  <2> DEFINE g == [n \in 0..(m + 1) |-> IF n = m + 1 THEN F[m + 1][f[m]] ELSE f[n]]
  <2>2. m + 1 \in 1..N /\ m \in 0..m /\ f[m] \in V /\ m + 1 \in 0..N
    OBVIOUS
  <2>3. g \in [0..(m + 1) -> V] /\ g[0] = b
    BY <1>0, <2>1, <2>2
  <2>4. ASSUME NEW n \in 1..(m + 1)
        PROVE  g[n] = F[n][g[n - 1]]
    <3>1. CASE n = m + 1
      <4>1. n - 1 = m /\ g[m] = f[m]
        BY <3>1
      <4> QED BY <3>1, <4>1
    <3>2. CASE n # m + 1
      <4>1. n \in 1..m /\ g[n] = f[n] /\ n - 1 \in 0..m /\ g[n - 1] = f[n - 1]
        BY <3>2
      <4> QED BY <2>1, <4>1
    <3> QED BY <3>1, <3>2
  <2>5. Is(g, m + 1)
    BY <2>3, <2>4
  <2> HIDE DEF g
  <2> QED BY <2>2, <2>3, <2>5
<1> HIDE DEF S
<1>3. \A n \in 0..N : n \in S
  BY <1>1, <1>2, InductionTo
<1>4. PICK f \in [0..N -> V] : Is(f, N)
  BY <1>3 DEF S
<1> QED BY <1>4 DEF Runs

-----------------------------------------------------------------------------
(***************************************************************************)
(* Between: the messages from a to b in a queue.                           *)
(***************************************************************************)
\* m if it goes from a to b.
One(m, a, b) == IF m.src = a /\ m.dst = b THEN << m >> ELSE << >>

Found(s, a, b) ==
  CHOOSE found : found = [n \in 0..Len(s) |->
    IF n = 0 THEN << >>
    ELSE IF s[n].src = a /\ s[n].dst = b THEN Append(found[n - 1], s[n]) ELSE found[n - 1]]

LEMMA EmptyMessages == << >> \in Seq(Message) /\ Len(<< >>) = 0
BY EmptySeq

LEMMA OneIs ==
  ASSUME NEW m \in Message, NEW a, NEW b
  PROVE  One(m, a, b) \in Seq(Message) /\ (~(m.src = a /\ m.dst = b) => One(m, a, b) = << >>)
<1>1. << m >> \in Seq(Message)
  OBVIOUS
<1> QED
  BY <1>1, EmptyMessages DEF One

\* What Between finds in the first n messages.
LEMMA FoundIs ==
  ASSUME NEW s \in Seq(Message), NEW a, NEW b
  PROVE  /\ Len(s) \in Nat /\ Between(s, a, b) = Found(s, a, b)[Len(s)]
         /\ Found(s, a, b) \in [0..Len(s) -> Seq(Message)] /\ Found(s, a, b)[0] = << >>
         /\ \A n \in 1..Len(s) : Found(s, a, b)[n] = Found(s, a, b)[n - 1] \o One(s[n], a, b)
<1> DEFINE N == Len(s)
           V == Seq(Message)
           G(n, v) == IF s[n].src = a /\ s[n].dst = b THEN Append(v, s[n]) ELSE v
           F == [n \in 1..N |-> [v \in V |-> G(n, v)]]
           Is(f) == f = [n \in 0..N |-> IF n = 0 THEN << >> ELSE G(n, f[n - 1])]
<1>1. N \in Nat /\ << >> \in V /\ \A n \in 1..N : s[n] \in Message
  BY EmptyMessages, LenProperties, ElementOfSeq
<1>2. ASSUME NEW n \in 1..N, NEW v \in V PROVE G(n, v) \in V /\ G(n, v) = v \o One(s[n], a, b)
  <2>1. PICK m \in Message : m = s[n]
    BY <1>1
  <2>2. Append(v, m) \in V /\ Append(v, m) = v \o << m >> /\ v \o << >> = v
    BY AppendProperties, AppendIsConcat, ConcatEmptySeq
  <2> QED
    BY <2>1, <2>2 DEF One
<1>3. Steps(N, V, F)
  BY <1>2 DEF Steps
<1>4. \A n \in 1..N : \A v \in V : F[n][v] = G(n, v)
  OBVIOUS
<1>5. Found(s, a, b) = CHOOSE f : Is(f)
  BY DEF Found
<1>6. Between(s, a, b) = Found(s, a, b)[N]
  BY DEF Between, Found
<1> HIDE DEF F, N, G, V
<1>7. PICK g : Runs(g, N, V, << >>, F)
  BY <1>1, <1>3, Recursion
<1>8. g \in [0..N -> V] /\ g[0] = << >> /\ \A n \in 1..N : g[n] = F[n][g[n - 1]]
  BY <1>7 DEF Runs
<1>9. ASSUME NEW n \in 1..N PROVE g[n] = G(n, g[n - 1])
  <2>1. n - 1 \in 0..N
    BY <1>1
  <2>2. g[n - 1] \in V
    BY <1>8, <2>1
  <2> QED
    BY <1>4, <1>8, <2>2
<1>10. Is(g)
  <2>1. ASSUME NEW n \in 0..N PROVE g[n] = IF n = 0 THEN << >> ELSE G(n, g[n - 1])
    <3>1. n = 0 \/ n \in 1..N
      BY <1>1
    <3> QED
      BY <1>8, <1>9, <3>1
  <2> QED
    BY <1>8, <2>1
<1>11. PICK o : o = Found(s, a, b)
  OBVIOUS
<1>12. Is(o)
  <2> HIDE DEF Is
  <2> QED
    BY <1>5, <1>10, <1>11
<1>13. DOMAIN o = 0..N /\ o[0] = << >> /\ \A n \in 1..N : o[n] = G(n, o[n - 1])
  <2>1. DOMAIN o = 0..N /\ \A n \in 0..N : o[n] = IF n = 0 THEN << >> ELSE G(n, o[n - 1])
    BY <1>12
  <2>2. 0 \in 0..N /\ \A n \in 1..N : n \in 0..N /\ n # 0
    BY <1>1
  <2> QED
    BY <2>1, <2>2
<1>14. \A n \in 0..N : o[n] \in V
  <2> DEFINE S == {n \in 0..N : o[n] \in V}
  <2>1. 0 \in S
    BY <1>1, <1>13
  <2>2. ASSUME NEW n \in 0..(N - 1), n \in S PROVE n + 1 \in S
    <3>1. n + 1 \in 1..N /\ n + 1 \in 0..N /\ (n + 1) - 1 = n
      BY <1>1
    <3>2. o[n + 1] = G(n + 1, o[n]) /\ o[n] \in V
      BY <1>13, <2>2, <3>1
    <3>3. o[n + 1] \in V
      BY <1>2, <3>1, <3>2
    <3> QED
      BY <3>1, <3>3
  <2> HIDE DEF S
  <2>3. \A n \in 0..N : n \in S
    BY <1>1, <2>1, <2>2, InductionTo
  <2> QED
    BY <2>3 DEF S
<1>15. ASSUME NEW n \in 1..N PROVE o[n] = o[n - 1] \o One(s[n], a, b)
  <2>1. n - 1 \in 0..N
    BY <1>1
  <2> QED
    BY <1>2, <1>13, <1>14, <2>1
<1>16. o \in [0..N -> V]
  <2>1. o = [n \in 0..N |-> o[n]]
    BY <1>12
  <2> QED
    BY <1>14, <2>1
<1> QED
  BY <1>1, <1>6, <1>11, <1>13, <1>15, <1>16 DEF N, V

\* o finds r message by message.
Counts(o, r, s, n, a, b) ==
  /\ n \in Nat /\ o \in [0..n -> Seq(Message)] /\ o[0] = << >> /\ r = o[n]
  /\ \A i \in 1..n : o[i] = o[i - 1] \o One(s[i], a, b)

LEMMA Counted ==
  ASSUME NEW s \in Seq(Message), NEW a, NEW b, NEW n, n = Len(s)
  PROVE  \E o : Counts(o, Between(s, a, b), s, n, a, b)
<1>1. PICK o : o = Found(s, a, b)
  OBVIOUS
<1>2. /\ n \in Nat /\ Between(s, a, b) = o[n] /\ o \in [0..n -> Seq(Message)] /\ o[0] = << >>
      /\ \A i \in 1..n : o[i] = o[i - 1] \o One(s[i], a, b)
  BY <1>1, FoundIs
<1>3. Counts(o, Between(s, a, b), s, n, a, b)
  BY <1>2 DEF Counts
<1> QED
  BY <1>3

LEMMA BetweenType == ASSUME NEW s \in Seq(Message), NEW a, NEW b PROVE Between(s, a, b) \in Seq(Message)
<1>1. Len(s) \in Nat /\ Between(s, a, b) = Found(s, a, b)[Len(s)] /\ Found(s, a, b) \in [0..Len(s) -> Seq(Message)]
  BY FoundIs
<1>2. Len(s) \in 0..Len(s)
  BY <1>1
<1> QED
  BY <1>1, <1>2

LEMMA BetweenNone == ASSUME NEW a, NEW b PROVE Between(<< >>, a, b) = << >>
<1>1. PICK s \in Seq(Message) : s = << >>
  BY EmptyMessages
<1>2. Len(s) = 0
  BY <1>1, EmptyMessages
<1>3. PICK o : Counts(o, Between(s, a, b), s, 0, a, b)
  BY <1>2, Counted
<1>4. Between(s, a, b) = << >>
  BY <1>3 DEF Counts
<1> QED
  BY <1>1, <1>4

LEMMA BetweenConcat ==
  ASSUME NEW s \in Seq(Message), NEW t \in Seq(Message), NEW a, NEW b
  PROVE  Between(s \o t, a, b) = Between(s, a, b) \o Between(t, a, b)
<1>1. PICK u, l, k : u = s \o t /\ l = Len(s) /\ k = Len(t)
  OBVIOUS
<1>2. /\ u \in Seq(Message) /\ l \in Nat /\ k \in Nat /\ Len(u) = l + k
      /\ \A i \in 1..(l + k) : u[i] = IF i <= l THEN s[i] ELSE t[i - l]
  <2>1. /\ u \in Seq(Message) /\ Len(u) = Len(s) + Len(t)
        /\ \A i \in 1..(Len(s) + Len(t)) : u[i] = IF i <= Len(s) THEN s[i] ELSE t[i - Len(s)]
    BY <1>1, ConcatProperties
  <2> QED
    BY <1>1, <2>1, LenProperties
<1>3. PICK U, S, T : /\ Counts(U, Between(u, a, b), u, l + k, a, b) /\ Counts(S, Between(s, a, b), s, l, a, b)
                     /\ Counts(T, Between(t, a, b), t, k, a, b)
  <2>1. PICK U : Counts(U, Between(u, a, b), u, l + k, a, b)
    BY <1>2, Counted
  <2>2. PICK S : Counts(S, Between(s, a, b), s, l, a, b)
    BY <1>1, Counted
  <2>3. PICK T : Counts(T, Between(t, a, b), t, k, a, b)
    BY <1>1, Counted
  <2> QED
    BY <2>1, <2>2, <2>3
<1>4. /\ Between(u, a, b) = U[l + k] /\ U[0] = << >>
      /\ \A n \in 1..(l + k) : U[n] = U[n - 1] \o One(u[n], a, b)
  BY <1>3 DEF Counts
<1>5. /\ Between(s, a, b) = S[l] /\ S[0] = << >> /\ S \in [0..l -> Seq(Message)]
      /\ \A n \in 1..l : S[n] = S[n - 1] \o One(s[n], a, b)
  BY <1>3 DEF Counts
<1>6. /\ Between(t, a, b) = T[k] /\ T[0] = << >> /\ T \in [0..k -> Seq(Message)]
      /\ \A n \in 1..k : T[n] = T[n - 1] \o One(t[n], a, b)
  BY <1>3 DEF Counts
<1>7. \A n \in 0..l : U[n] = S[n]
  <2> DEFINE W == {n \in 0..l : U[n] = S[n]}
  <2>1. 0 \in W
    BY <1>2, <1>4, <1>5
  <2>2. ASSUME NEW n \in 0..(l - 1), n \in W PROVE n + 1 \in W
    <3>1. /\ n + 1 \in 1..l /\ n + 1 \in 0..l /\ n + 1 \in 1..(l + k) /\ (n + 1) - 1 = n /\ n + 1 <= l
      BY <1>2
    <3>2. U[n] = S[n] /\ u[n + 1] = s[n + 1]
      BY <1>2, <2>2, <3>1
    <3>3. U[n + 1] = S[n + 1]
      BY <1>4, <1>5, <3>1, <3>2
    <3> QED
      BY <3>1, <3>3
  <2> HIDE DEF W
  <2>3. \A n \in 0..l : n \in W
    BY <1>2, <2>1, <2>2, InductionTo
  <2> QED
    BY <2>3 DEF W
<1>8. S[l] \in Seq(Message) /\ U[l] = S[l]
  <2>1. l \in 0..l
    BY <1>2
  <2> QED
    BY <1>5, <1>7, <2>1
<1>9. \A n \in 0..k : U[l + n] = S[l] \o T[n]
  <2> DEFINE W == {n \in 0..k : U[l + n] = S[l] \o T[n]}
  <2>1. 0 \in W
    <3>1. 0 \in 0..k /\ l + 0 = l
      BY <1>2
    <3>2. S[l] \o << >> = S[l]
      BY <1>8, ConcatEmptySeq
    <3> QED
      BY <1>6, <1>8, <3>1, <3>2
  <2>2. ASSUME NEW n \in 0..(k - 1), n \in W PROVE n + 1 \in W
    <3>1. PICK j : j = l + (n + 1)
      OBVIOUS
    <3>2. /\ n + 1 \in 1..k /\ n + 1 \in 0..k /\ n \in 0..k /\ (n + 1) - 1 = n
          /\ j \in 1..(l + k) /\ j - 1 = l + n /\ ~(j <= l) /\ j - l = n + 1
      BY <1>2, <3>1
    <3>3. U[l + n] = S[l] \o T[n] /\ T[n] \in Seq(Message)
      BY <1>6, <2>2, <3>2
    <3>4. u[j] = t[n + 1] /\ t[n + 1] \in Message
      <4>1. n + 1 \in 1..Len(t)
        BY <1>1, <3>2
      <4>2. t[n + 1] \in Message
        BY <4>1, ElementOfSeq
      <4> QED
        BY <1>2, <3>2, <4>2
    <3>5. PICK x \in Seq(Message) : x = One(t[n + 1], a, b)
      BY <3>4, OneIs
    <3>6. U[j] = (S[l] \o T[n]) \o x
      BY <1>4, <3>2, <3>3, <3>4, <3>5
    <3>7. (S[l] \o T[n]) \o x = S[l] \o (T[n] \o x)
      <4>1. PICK y, z \in Seq(Message) : y = S[l] /\ z = T[n]
        BY <1>8, <3>3
      <4>2. (y \o z) \o x = y \o (z \o x)
        BY ConcatAssociative, SMTT(30)
      <4> QED
        BY <4>1, <4>2
    <3>8. T[n + 1] = T[n] \o x
      BY <1>6, <3>2, <3>5
    <3>9. U[l + (n + 1)] = S[l] \o T[n + 1]
      BY <3>1, <3>6, <3>7, <3>8
    <3> QED
      BY <3>2, <3>9
  <2> HIDE DEF W
  <2>3. \A n \in 0..k : n \in W
    BY <1>2, <2>1, <2>2, InductionTo
  <2> QED
    BY <2>3 DEF W
<1>10. U[l + k] = S[l] \o T[k]
  <2>1. k \in 0..k
    BY <1>2
  <2> QED
    BY <1>9, <2>1
<1> QED
  BY <1>1, <1>4, <1>5, <1>6, <1>10

LEMMA BetweenOne == ASSUME NEW m \in Message, NEW a, NEW b PROVE Between(<< m >>, a, b) = One(m, a, b)
<1>1. PICK s : s = << m >>
  OBVIOUS
<1>2. s \in Seq(Message) /\ Len(s) = 1 /\ s[1] = m
  BY <1>1
<1>3. PICK S : Counts(S, Between(s, a, b), s, 1, a, b)
  BY <1>2, Counted
<1>4. Between(s, a, b) = S[1] /\ S[0] = << >> /\ \A n \in 1..1 : S[n] = S[n - 1] \o One(s[n], a, b)
  BY <1>3 DEF Counts
<1>5. PICK o \in Nat : o = 1
  OBVIOUS
<1>6. o \in 1..1 /\ o - 1 = 0
  BY <1>5
<1>7. S[o] = << >> \o One(m, a, b)
  BY <1>2, <1>4, <1>5, <1>6
<1> QED
  BY <1>1, <1>4, <1>5, <1>7, OneIs, ConcatEmptySeq

LEMMA BetweenAppend ==
  ASSUME NEW s \in Seq(Message), NEW m \in Message, NEW a, NEW b
  PROVE  Between(Append(s, m), a, b) = Between(s, a, b) \o One(m, a, b)
<1>1. PICK t : t = << m >>
  OBVIOUS
<1>2. t \in Seq(Message) /\ Append(s, m) = s \o t
  BY <1>1, AppendIsConcat
<1>3. Between(s \o t, a, b) = Between(s, a, b) \o Between(t, a, b)
  BY <1>2, BetweenConcat
<1>4. Between(t, a, b) = One(m, a, b)
  BY <1>1, BetweenOne
<1> QED
  BY <1>2, <1>3, <1>4

LEMMA BetweenHead ==
  ASSUME NEW s \in Seq(Message), s # << >>, NEW a, NEW b
  PROVE  Between(s, a, b) = One(Head(s), a, b) \o Between(Tail(s), a, b)
<1>1. PICK h, t, x : h = Head(s) /\ t = Tail(s) /\ x = << h >>
  OBVIOUS
<1>2. h \in Message /\ t \in Seq(Message)
  BY <1>1, HeadTailProperties
<1>3. x \in Seq(Message)
  BY <1>1, <1>2
<1>4. s = x \o t
  <2>1. PICK n : n = Len(s)
    OBVIOUS
  <2>2. n \in Nat /\ Len(t) = n - 1 /\ h = s[1] /\ (\A i \in 1..(n - 1) : t[i] = s[i + 1]) /\ n > 0
    BY <1>1, <2>1, HeadTailProperties, LenProperties, EmptySeq
  <2>3. PICK u : u = x \o t
    OBVIOUS
  <2>4. Len(x) = 1 /\ x[1] = h
    BY <1>1
  <2>5. /\ u \in Seq(Message) /\ Len(u) = Len(x) + Len(t)
        /\ \A i \in 1..(Len(x) + Len(t)) : u[i] = IF i <= Len(x) THEN x[i] ELSE t[i - Len(x)]
    BY <1>2, <1>3, <2>3, ConcatProperties
  <2>6. 1 + (n - 1) = n
    BY <2>2
  <2>7. Len(u) = n /\ \A i \in 1..n : u[i] = IF i <= 1 THEN x[i] ELSE t[i - 1]
    BY <2>2, <2>4, <2>5, <2>6
  <2>8. ASSUME NEW i \in 1..n PROVE u[i] = s[i]
    <3>1. CASE i <= 1
      <4>1. i = 1
        BY <2>2, <3>1
      <4> QED
        BY <2>2, <2>4, <2>7, <3>1, <4>1
    <3>2. CASE ~(i <= 1)
      <4>1. i - 1 \in 1..(n - 1) /\ (i - 1) + 1 = i
        BY <2>2, <3>2
      <4> QED
        BY <2>2, <2>7, <3>2, <4>1
    <3> QED
      BY <3>1, <3>2
  <2>9. s = u
    BY <2>1, <2>5, <2>7, <2>8, SeqEqual
  <2> QED
    BY <2>3, <2>9
<1>5. Between(x \o t, a, b) = Between(x, a, b) \o Between(t, a, b)
  BY <1>2, <1>3, BetweenConcat
<1>6. Between(x, a, b) = One(h, a, b)
  BY <1>1, <1>2, BetweenOne
<1> QED
  BY <1>1, <1>4, <1>5, <1>6

-----------------------------------------------------------------------------
(***************************************************************************)
(* Paths: concatenations of the parts where messages can be.               *)
(***************************************************************************)
a ++ b == a \o b

\* The sequences of messages with concatenation are a monoid.
LEMMA Free ==
  /\ << >> \in Seq(Message)
  /\ \A x, y \in Seq(Message) : x ++ y \in Seq(Message)
  /\ \A x, y, z \in Seq(Message) : (x ++ y) ++ z = x ++ (y ++ z)
  /\ \A x \in Seq(Message) : << >> ++ x = x /\ x ++ << >> = x
<1>1. << >> \in Seq(Message)
  BY EmptyMessages
<1>2. ASSUME NEW x \in Seq(Message), NEW y \in Seq(Message) PROVE x \o y \in Seq(Message)
  BY ConcatProperties
<1>3. ASSUME NEW x \in Seq(Message), NEW y \in Seq(Message), NEW z \in Seq(Message)
      PROVE  (x \o y) \o z = x \o (y \o z)
  BY ConcatAssociative
<1>4. ASSUME NEW x \in Seq(Message) PROVE << >> \o x = x /\ x \o << >> = x
  BY ConcatEmptySeq
<1> QED
  BY <1>1, <1>2, <1>3, <1>4 DEF ++

\* The messages of a path: at the receiver, in the queue of its stub, between
\* the stubs, at the sender.
Path(x, q, y, d) == ((x ++ q) ++ y) ++ d

LEMMA PathType ==
  ASSUME NEW x \in Seq(Message), NEW q \in Seq(Message), NEW y \in Seq(Message), NEW d \in Seq(Message)
  PROVE  Path(x, q, y, d) \in Seq(Message)
BY Free DEF Path

\* A message x is moved along a path ...
LEMMA PathMoves ==
  ASSUME NEW x \in Seq(Message), NEW r \in Seq(Message), NEW q \in Seq(Message), NEW y \in Seq(Message),
         NEW z \in Seq(Message), NEW d \in Seq(Message)
  PROVE  /\ Path(r, << >>, << >>, x ++ d) = Path(r, x, << >>, d)
         /\ Path(r, q, y ++ << >>, x ++ d) = Path(r, q, y ++ x, d)
         /\ Path(r, << >>, (x ++ y) ++ z, d) = Path(r, x, y ++ z, d)
         /\ Path(r, x ++ q, y, d) = Path(r ++ x, q, y, d)
<1>1. /\ r ++ x \in Seq(Message) /\ r ++ q \in Seq(Message) /\ y ++ x \in Seq(Message) /\ x ++ y \in Seq(Message)
      /\ y ++ z \in Seq(Message) /\ r ++ << >> = r /\ y ++ << >> = y /\ r ++ << >> = r
      /\ (r ++ x) ++ << >> = r ++ x
  BY Free
<1>2. (r ++ q) ++ y \in Seq(Message)
  BY <1>1, Free
<1>3. Path(r, << >>, << >>, x ++ d) = Path(r, x, << >>, d)
  <2>1. r ++ (x ++ d) = (r ++ x) ++ d
    BY Free
  <2> QED
    BY <1>1, <2>1 DEF Path
<1>4. Path(r, q, y ++ << >>, x ++ d) = Path(r, q, y ++ x, d)
  <2>1. ((r ++ q) ++ y) ++ (x ++ d) = (((r ++ q) ++ y) ++ x) ++ d
    BY <1>2, Free
  <2>2. ((r ++ q) ++ y) ++ x = (r ++ q) ++ (y ++ x)
    BY <1>1, Free
  <2> QED
    BY <1>1, <2>1, <2>2 DEF Path
<1>5. Path(r, << >>, (x ++ y) ++ z, d) = Path(r, x, y ++ z, d)
  <2>1. (x ++ y) ++ z = x ++ (y ++ z)
    BY Free
  <2>2. r ++ (x ++ (y ++ z)) = (r ++ x) ++ (y ++ z)
    BY <1>1, Free
  <2> QED
    BY <1>1, <2>1, <2>2 DEF Path
<1>6. Path(r, x ++ q, y, d) = Path(r ++ x, q, y, d)
  <2>1. r ++ (x ++ q) = (r ++ x) ++ q
    BY Free
  <2> QED
    BY <2>1 DEF Path
<1> QED
  BY <1>3, <1>4, <1>5, <1>6

\* ... or enters it at the end or leaves it at the front.
LEMMA PathEnds ==
  ASSUME NEW x \in Seq(Message), NEW r \in Seq(Message), NEW q \in Seq(Message), NEW y \in Seq(Message),
         NEW d \in Seq(Message)
  PROVE  /\ Path(r, q, y, d ++ x) = Path(r, q, y, d) ++ x
         /\ Path(r, q, y ++ x, << >>) = Path(r, q, y, << >>) ++ x
         /\ Path(r, q ++ x, << >>, << >>) = Path(r, q, << >>, << >>) ++ x
         /\ Path(r ++ x, << >>, << >>, << >>) = Path(r, << >>, << >>, << >>) ++ x
         /\ Path(x ++ r, q, y, d) = x ++ Path(r, q, y, d)
<1>1. /\ r ++ q \in Seq(Message) /\ y ++ x \in Seq(Message) /\ q ++ x \in Seq(Message) /\ x ++ q \in Seq(Message)
      /\ r ++ x \in Seq(Message) /\ r ++ << >> = r /\ << >> ++ q = q
  BY Free
<1>2. /\ (r ++ q) ++ y \in Seq(Message) /\ (r ++ q) ++ x \in Seq(Message) /\ (r ++ q) ++ << >> = r ++ q
      /\ (r ++ x) ++ << >> = r ++ x /\ << >> ++ (x ++ q) = x ++ q /\ q ++ y \in Seq(Message)
  BY <1>1, Free
<1>3. /\ ((r ++ q) ++ y) ++ << >> = (r ++ q) ++ y /\ ((r ++ q) ++ x) ++ << >> = (r ++ q) ++ x
      /\ (r ++ q) ++ (y ++ x) \in Seq(Message)
  BY <1>1, <1>2, Free
<1>4. Path(r, q, y, d ++ x) = Path(r, q, y, d) ++ x
  BY <1>2, Free DEF Path
<1>5. Path(r, q, y ++ x, << >>) = Path(r, q, y, << >>) ++ x
  <2>1. (r ++ q) ++ (y ++ x) = ((r ++ q) ++ y) ++ x
    BY <1>1, Free
  <2>2. ((r ++ q) ++ (y ++ x)) ++ << >> = (r ++ q) ++ (y ++ x)
    BY <1>3, Free
  <2> QED
    BY <1>3, <2>1, <2>2 DEF Path
<1>6. Path(r, q ++ x, << >>, << >>) = Path(r, q, << >>, << >>) ++ x
  <2>1. r ++ (q ++ x) = (r ++ q) ++ x
    BY Free
  <2> QED
    BY <1>2, <1>3, <2>1 DEF Path
<1>7. Path(r ++ x, << >>, << >>, << >>) = Path(r, << >>, << >>, << >>) ++ x
  BY <1>1, <1>2 DEF Path
<1>8. Path(x ++ r, q, y, d) = x ++ Path(r, q, y, d)
  <2>1. (x ++ r) ++ q = x ++ (r ++ q)
    BY Free
  <2>2. (x ++ (r ++ q)) ++ y = x ++ ((r ++ q) ++ y)
    BY <1>1, Free
  <2>3. (x ++ ((r ++ q) ++ y)) ++ d = x ++ (((r ++ q) ++ y) ++ d)
    BY <1>2, Free
  <2> QED
    BY <2>1, <2>2, <2>3 DEF Path
<1> QED
  BY <1>4, <1>5, <1>6, <1>7, <1>8

LEMMA PathFront ==
  ASSUME NEW x \in Seq(Message), NEW q \in Seq(Message), NEW y \in Seq(Message), NEW d \in Seq(Message)
  PROVE  Path(<< >>, x ++ q, y, d) = x ++ Path(<< >>, q, y, d)
<1>1. /\ << >> ++ q = q /\ x ++ q \in Seq(Message) /\ q ++ y \in Seq(Message)
  BY Free
<1>2. << >> ++ (x ++ q) = x ++ q
  BY <1>1, Free
<1>3. (x ++ q) ++ y = x ++ (q ++ y)
  BY Free
<1>4. (x ++ (q ++ y)) ++ d = x ++ ((q ++ y) ++ d)
  BY <1>1, Free
<1> QED
  BY <1>1, <1>2, <1>3, <1>4 DEF Path

\* What was sent comes behind what is there.
LEMMA PrefixConcat ==
  ASSUME NEW s \in Seq(Message), NEW x \in Seq(Message)
  PROVE  IsPrefix(s, s \o x)
<1>1. PICK u, l : u = s \o x /\ l = Len(s)
  OBVIOUS
<1>2. /\ u \in Seq(Message) /\ Len(u) = Len(s) + Len(x)
      /\ \A i \in 1..(Len(s) + Len(x)) : u[i] = IF i <= Len(s) THEN s[i] ELSE x[i - Len(s)]
  BY <1>1, ConcatProperties
<1>3. Len(s) \in Nat /\ Len(x) \in Nat
  BY LenProperties
<1>4. /\ l \in Nat /\ l <= Len(u) /\ Len(u) \in Nat
      /\ \A i \in 1..l : u[i] = s[i]
  BY <1>1, <1>2, <1>3
<1>5. SubSeq(s, 1, l) = [i \in 1..l |-> s[i]]
  BY <1>1, <1>4
<1>6. SubSeq(u, 1, l) = [i \in 1..l |-> u[i]]
  BY <1>4
<1>7. SubSeq(s, 1, l) = SubSeq(u, 1, l)
  BY <1>4, <1>5, <1>6
<1> QED
  BY <1>1, <1>4, <1>7 DEF IsPrefix

\* The parts of the path from a to b in a state of the links and queues.
AtReceiver(tb, bf, a, b) ==
  IF b \in Thread THEN Between(tb[b], a, b) ++ Between(bf[DstProcs(b)][b], a, b) ELSE << >>

AtStubs(mq, in, a, b) ==
  IF DstProcs(a) # DstProcs(b)
  THEN Between(in[DstProcs(b)][DstProcs(a)], a, b) ++ Between(mq[DstProcs(a)], a, b)
  ELSE << >>

AtSender(in, a, b) == IF a \in Thread THEN Between(in[DstProcs(a)][a], a, b) ELSE << >>

Route(tb, bf, mq, in, a, b) ==
  Path(AtReceiver(tb, bf, a, b), Between(mq[DstProcs(b)], a, b), AtStubs(mq, in, a, b), AtSender(in, a, b))

LEMMA RouteIs ==
  \A a, b \in Node : /\ InTransit(a, b) = Route(tbox, bufmsg, msg_queue, inbox, a, b)
                     /\ InTransit(a, b)' = Route(tbox', bufmsg', msg_queue', inbox', a, b)
BY DEF InTransit, Route, Path, AtReceiver, AtStubs, AtSender, ++

\* Links and queues carry messages.
Carry(tb, bf, mq, in) ==
  /\ tb \in [Thread -> Seq(Message)] /\ bf \in [Proc -> [Thread -> Seq(Message)]]
  /\ mq \in [Proc -> Seq(Message)] /\ in \in [Proc -> [Node -> Seq(Message)]]

LEMMA DstProcsIs ==
  /\ \A a \in Node : DstProcs(a) \in Proc /\ DstProcs(a) \in Node
  /\ \A p \in Proc : DstProcs(p) = p /\ p \in Node /\ p \notin Thread
  /\ \A t \in Thread : DstProcs(t) = procOf[t] /\ t \in Node /\ t \notin Proc /\ procOf[t] \in Proc
BY ThreadsAre DEF DstProcs, Node

LEMMA CarryIs ==
  ASSUME NEW tb, NEW bf, NEW mq, NEW in, Carry(tb, bf, mq, in), NEW a \in Node, NEW b \in Node
  PROVE  /\ b \in Thread => Between(tb[b], a, b) \in Seq(Message) /\ Between(bf[DstProcs(b)][b], a, b) \in Seq(Message)
         /\ Between(mq[DstProcs(b)], a, b) \in Seq(Message) /\ Between(mq[DstProcs(a)], a, b) \in Seq(Message)
         /\ Between(in[DstProcs(b)][DstProcs(a)], a, b) \in Seq(Message)
         /\ Between(in[DstProcs(a)][a], a, b) \in Seq(Message)
<1>1. DstProcs(a) \in Proc /\ DstProcs(b) \in Proc /\ DstProcs(a) \in Node
  BY DstProcsIs
<1>2. /\ b \in Thread => tb[b] \in Seq(Message) /\ bf[DstProcs(b)][b] \in Seq(Message)
      /\ mq[DstProcs(b)] \in Seq(Message) /\ mq[DstProcs(a)] \in Seq(Message)
      /\ in[DstProcs(b)][DstProcs(a)] \in Seq(Message) /\ in[DstProcs(a)][a] \in Seq(Message)
  BY <1>1 DEF Carry
<1> QED
  BY <1>2, BetweenType

LEMMA PartsType ==
  ASSUME NEW tb, NEW bf, NEW mq, NEW in, Carry(tb, bf, mq, in), NEW a \in Node, NEW b \in Node
  PROVE  /\ AtReceiver(tb, bf, a, b) \in Seq(Message) /\ Between(mq[DstProcs(b)], a, b) \in Seq(Message)
         /\ AtStubs(mq, in, a, b) \in Seq(Message) /\ AtSender(in, a, b) \in Seq(Message)
         /\ Route(tb, bf, mq, in, a, b) \in Seq(Message)
<1>1. AtReceiver(tb, bf, a, b) \in Seq(Message)
  BY CarryIs, Free DEF AtReceiver
<1>2. AtStubs(mq, in, a, b) \in Seq(Message)
  BY CarryIs, Free DEF AtStubs
<1>3. AtSender(in, a, b) \in Seq(Message)
  BY CarryIs, Free DEF AtSender
<1>4. Between(mq[DstProcs(b)], a, b) \in Seq(Message)
  BY CarryIs
<1> QED
  BY <1>1, <1>2, <1>3, <1>4, PathType DEF Route

\* A message that does not go from a to b is not seen there.
LEMMA SkipAppend ==
  ASSUME NEW s \in Seq(Message), NEW m \in Message, NEW a, NEW b
  PROVE  One(m, a, b) = << >> => Between(Append(s, m), a, b) = Between(s, a, b)
<1>1. PICK o, x : o = Between(s, a, b) /\ x = One(m, a, b)
  OBVIOUS
<1>2. o \in Seq(Message)
  BY <1>1, BetweenType
<1>3. Between(Append(s, m), a, b) = Between(s, a, b) \o One(m, a, b)
  BY BetweenAppend
<1>4. o \o << >> = o
  BY <1>2, ConcatEmptySeq
<1> QED
  BY <1>1, <1>3, <1>4

LEMMA SkipTail ==
  ASSUME NEW s \in Seq(Message), s # << >>, NEW a, NEW b
  PROVE  One(Head(s), a, b) = << >> => Between(Tail(s), a, b) = Between(s, a, b)
<1>1. PICK t, u, x : t = Tail(s) /\ u = Between(t, a, b) /\ x = One(Head(s), a, b)
  OBVIOUS
<1>2. t \in Seq(Message)
  BY <1>1, HeadTailProperties
<1>3. u \in Seq(Message)
  BY <1>1, <1>2, BetweenType
<1>4. << >> \o u = u
  BY <1>3, ConcatEmptySeq
<1>5. Between(s, a, b) = One(Head(s), a, b) \o Between(Tail(s), a, b)
  BY BetweenHead
<1> QED
  BY <1>1, <1>4, <1>5

\* A message that does is at the end or at the front.
LEMMA IsBetween ==
  ASSUME NEW s \in Seq(Message), NEW m \in Message, NEW a, NEW b, m.src = a, m.dst = b
  PROVE  /\ Between(Append(s, m), a, b) = Between(s, a, b) ++ << m >> /\ Between(<< m >>, a, b) = << m >>
         /\ << m >> \in Seq(Message)
         /\ s # << >> /\ m = Head(s) => Between(s, a, b) = << m >> ++ Between(Tail(s), a, b)
<1>1. One(m, a, b) = << m >> /\ One(m, a, b) \in Seq(Message)
  BY OneIs DEF One
<1>2. Between(Append(s, m), a, b) = Between(s, a, b) \o One(m, a, b)
  BY BetweenAppend
<1>3. Between(<< m >>, a, b) = One(m, a, b)
  BY BetweenOne
<1>4. ASSUME s # << >>, m = Head(s) PROVE Between(s, a, b) = One(m, a, b) \o Between(Tail(s), a, b)
  BY <1>4, BetweenHead
<1>5. PICK x : x = One(m, a, b)
  OBVIOUS
<1>6. PICK u, v, w : u = Between(s, a, b) /\ v = Between(Tail(s), a, b) /\ w = Between(Append(s, m), a, b)
  OBVIOUS
<1>7. w = u ++ x /\ (s # << >> /\ m = Head(s) => u = x ++ v)
  BY <1>2, <1>4, <1>5, <1>6 DEF ++
<1> QED
  BY <1>1, <1>3, <1>5, <1>6, <1>7

-----------------------------------------------------------------------------
(***************************************************************************)
(* The path from a to b under every move of a message.                     *)
(***************************************************************************)
\* A message goes between a thread and a stub.
Paired == {m \in Message : (m.src \in Thread /\ m.dst \in Proc) \/ (m.src \in Proc /\ m.dst \in Thread)}

\* What can be on its way to the dealer of thread t, ...
ToThread(t) == {m \in Paired : m.dst = t}

\* ... kept for it by the router of p, ...
Kept(p, t) == IF procOf[t] = p THEN ToThread(t) ELSE {}

\* ... in the queue of the stub of p, ...
Queued(p) == {m \in Paired : p \in {DstProcs(m.src), DstProcs(m.dst)}}

\* ... and on the link to its router from c.
Sent(p, c) ==
  IF c \in Thread THEN {m \in Paired : procOf[c] = p /\ m.src = c}
  ELSE {m \in Paired : c # p /\ DstProcs(m.src) = c /\ DstProcs(m.dst) = p}

\* A thread sends to its stub.
LEMMA RouteSend ==
  ASSUME NEW tb, NEW bf, NEW mq, NEW in, NEW in2, Carry(tb, bf, mq, in), NEW t \in Thread,
         NEW m \in Message, m.src = t, in2[procOf[t]][t] = Append(in[procOf[t]][t], m),
         \A p \in Proc, c \in Node : ~(p = procOf[t] /\ c = t) => in2[p][c] = in[p][c],
         NEW a \in Node, NEW b \in Node
  PROVE  Route(tb, bf, mq, in2, a, b) = Route(tb, bf, mq, in, a, b) ++ One(m, a, b)
<1>1. PICK r, q, y, d, x : /\ r = AtReceiver(tb, bf, a, b) /\ q = Between(mq[DstProcs(b)], a, b)
                           /\ y = AtStubs(mq, in, a, b) /\ d = AtSender(in, a, b) /\ x = One(m, a, b)
  OBVIOUS
<1>2. r \in Seq(Message) /\ q \in Seq(Message) /\ y \in Seq(Message) /\ d \in Seq(Message) /\ x \in Seq(Message)
  BY <1>1, PartsType, OneIs
<1>3. DstProcs(a) \in Proc /\ DstProcs(b) \in Proc /\ DstProcs(a) \in Node /\ DstProcs(a) # t
      /\ procOf[t] \in Proc /\ DstProcs(t) = procOf[t] /\ t \in Node
  BY DstProcsIs
<1>4. AtStubs(mq, in2, a, b) = y
  <2>1. in2[DstProcs(b)][DstProcs(a)] = in[DstProcs(b)][DstProcs(a)]
    BY <1>3
  <2> QED
    BY <1>1, <2>1 DEF AtStubs
<1>5. AtSender(in2, a, b) = d ++ x
  <2>1. CASE a = t
    <3>1. PICK s \in Seq(Message) : s = in[procOf[t]][t]
      BY <1>3 DEF Carry
    <3>2. Between(Append(s, m), a, b) = Between(s, a, b) \o One(m, a, b)
      BY BetweenAppend
    <3>3. d = Between(s, a, b) /\ AtSender(in2, a, b) = Between(Append(s, m), a, b)
      BY <1>1, <1>3, <2>1, <3>1 DEF AtSender
    <3> QED
      BY <1>1, <3>2, <3>3 DEF ++
  <2>2. CASE a # t
    <3>1. x = << >>
      BY <1>1, <2>2, OneIs
    <3>2. d ++ x = d
      BY <1>2, <3>1, Free
    <3> QED
      BY <1>1, <1>3, <2>2, <3>2 DEF AtSender
  <2> QED
    BY <2>1, <2>2
<1>6. Path(r, q, y, d ++ x) = Path(r, q, y, d) ++ x
  BY <1>2, PathEnds
<1> QED
  BY <1>1, <1>4, <1>5, <1>6 DEF Route

\* A server takes a message from its dealer.
LEMMA RouteTake ==
  ASSUME NEW tb, NEW bf, NEW mq, NEW in, NEW tb2, Carry(tb, bf, mq, in), Carry(tb2, bf, mq, in), NEW t \in Thread,
         tb[t] # << >>, tb2[t] = Tail(tb[t]), \A u \in Thread : u # t => tb2[u] = tb[u],
         NEW m \in Message, m = Head(tb[t]), m.dst = t, NEW a \in Node, NEW b \in Node
  PROVE  Route(tb, bf, mq, in, a, b) = One(m, a, b) ++ Route(tb2, bf, mq, in, a, b)
<1>1. PICK r, q, y, d, x : /\ r = AtReceiver(tb2, bf, a, b) /\ q = Between(mq[DstProcs(b)], a, b)
                           /\ y = AtStubs(mq, in, a, b) /\ d = AtSender(in, a, b) /\ x = One(m, a, b)
  OBVIOUS
<1>2. r \in Seq(Message) /\ q \in Seq(Message) /\ y \in Seq(Message) /\ d \in Seq(Message) /\ x \in Seq(Message)
  BY <1>1, PartsType, OneIs
<1>3. AtReceiver(tb, bf, a, b) = x ++ r
  <2>1. CASE b = t
    <3>1. PICK s : s = tb[t]
      OBVIOUS
    <3>2. s \in Seq(Message) /\ Tail(s) = tb2[t] /\ s # << >> /\ m = Head(s)
      BY <3>1 DEF Carry
    <3>3. Between(s, a, b) = One(m, a, b) \o Between(Tail(s), a, b)
      BY <3>2, BetweenHead
    <3>4. PICK u, v : u = Between(tb2[t], a, b) /\ v = Between(bf[DstProcs(t)][t], a, b)
      OBVIOUS
    <3>5. u \in Seq(Message) /\ v \in Seq(Message)
      BY <2>1, <3>4, CarryIs
    <3>6. Between(s, a, b) = x ++ u
      BY <1>1, <3>2, <3>3, <3>4 DEF ++
    <3>7. r = u ++ v /\ AtReceiver(tb, bf, a, b) = (x ++ u) ++ v
      BY <1>1, <2>1, <3>1, <3>4, <3>6 DEF AtReceiver
    <3> QED
      BY <1>2, <3>5, <3>7, Free
  <2>2. CASE b # t
    <3>1. x = << >>
      BY <1>1, <2>2, OneIs
    <3>2. x ++ r = r
      BY <1>2, <3>1, Free
    <3> QED
      BY <1>1, <2>2, <3>2 DEF AtReceiver
  <2> QED
    BY <2>1, <2>2
<1>4. Path(x ++ r, q, y, d) = x ++ Path(r, q, y, d)
  BY <1>2, PathEnds
<1> QED
  BY <1>1, <1>3, <1>4 DEF Route

\* A router takes message m from link c, into an empty queue.
LEMMA RouteReceive ==
  ASSUME NEW tb, NEW bf, NEW mq, NEW in, NEW tb2, NEW bf2, NEW mq2, NEW in2,
         Carry(tb, bf, mq, in), Carry(tb2, bf2, mq2, in2), NEW p \in Proc, NEW c \in Node,
         in[p][c] # << >>, NEW m \in Sent(p, c), m = Head(in[p][c]), in2[p][c] = Tail(in[p][c]),
         \A o \in Proc, e \in Node : ~(o = p /\ e = c) => in2[o][e] = in[o][e],
         mq[p] = << >>, mq2[p] = << m >>, \A o \in Proc : o # p => mq2[o] = mq[o],
         NEW a \in Node, NEW b \in Node, AtReceiver(tb2, bf2, a, b) = AtReceiver(tb, bf, a, b)
  PROVE  Route(tb2, bf2, mq2, in2, a, b) = Route(tb, bf, mq, in, a, b)
<1>1. PICK k, l : k = DstProcs(a) /\ l = DstProcs(b)
  OBVIOUS
<1>2. k \in Proc /\ l \in Proc /\ k \in Node /\ (a \in Thread => k # a /\ k = procOf[a])
  BY <1>1, DstProcsIs
<1>3. PICK s, t : s = in[p][c] /\ t = Tail(s)
  OBVIOUS
<1>4. s \in Seq(Message) /\ t \in Seq(Message) /\ m \in Message /\ s # << >> /\ m = Head(s)
  BY <1>3, HeadTailProperties DEF Carry, Sent, Paired
<1>5. CASE One(m, a, b) = << >>
  <2>1. Between(t, a, b) = Between(s, a, b)
    <3>1. Between(Tail(s), a, b) = Between(s, a, b)
      BY <1>4, <1>5, SkipTail
    <3> QED
      BY <1>3, <3>1
  <2>2. Between(mq2[p], a, b) = Between(mq[p], a, b)
    BY <1>4, <1>5, BetweenOne, BetweenNone
  <2>3. \A o \in Proc, e \in Node : Between(in2[o][e], a, b) = Between(in[o][e], a, b)
    BY <1>3, <2>1
  <2>4. \A o \in Proc : Between(mq2[o], a, b) = Between(mq[o], a, b)
    BY <2>2
  <2> QED
    BY <1>1, <1>2, <2>3, <2>4 DEF Route, AtStubs, AtSender
<1>6. CASE m.src = a /\ m.dst = b
  <2>0. PICK x, u, r : x = << m >> /\ u = Between(t, a, b) /\ r = AtReceiver(tb, bf, a, b)
    OBVIOUS
  <2>1. /\ Between(s, a, b) = x ++ u /\ Between(mq2[p], a, b) = x /\ Between(mq[p], a, b) = << >>
        /\ x \in Seq(Message) /\ u \in Seq(Message) /\ r \in Seq(Message)
    <3>1. Between(s, a, b) = << m >> ++ Between(Tail(s), a, b) /\ Between(<< m >>, a, b) = << m >> /\ << m >> \in Seq(Message)
      BY <1>4, <1>6, IsBetween
    <3>2. Between(t, a, b) \in Seq(Message) /\ AtReceiver(tb, bf, a, b) \in Seq(Message)
      BY <1>4, BetweenType, PartsType
    <3> QED
      BY <1>3, <2>0, <3>1, <3>2, BetweenNone
  <2>2. CASE c \in Thread
    <3>1. procOf[c] = p /\ a = c /\ a \in Thread /\ k = p
      BY <1>2, <1>6, <2>2 DEF Sent
    <3>2. AtSender(in, a, b) = x ++ u /\ AtSender(in2, a, b) = u
      BY <1>1, <1>3, <2>0, <2>1, <3>1 DEF AtSender
    <3>3. CASE l = p
      <4>1. AtStubs(mq, in, a, b) = << >> /\ AtStubs(mq2, in2, a, b) = << >>
        BY <1>1, <3>1, <3>3 DEF AtStubs
      <4>2. Path(r, << >>, << >>, x ++ u) = Path(r, x, << >>, u)
        BY <2>1, PathMoves
      <4> QED
        BY <1>1, <2>0, <2>1, <3>2, <3>3, <4>1, <4>2 DEF Route
    <3>4. CASE l # p
      <4>1. PICK q, y : q = Between(mq[l], a, b) /\ y = Between(in[l][p], a, b)
        OBVIOUS
      <4>2. q \in Seq(Message) /\ y \in Seq(Message)
        <5>1. Between(mq[DstProcs(b)], a, b) \in Seq(Message) /\ Between(in[DstProcs(b)][DstProcs(a)], a, b) \in Seq(Message)
          BY CarryIs
        <5> QED
          BY <1>1, <3>1, <4>1, <5>1
      <4>3. AtStubs(mq, in, a, b) = y ++ << >> /\ AtStubs(mq2, in2, a, b) = y ++ x
        <5>1. in2[l][p] = in[l][p]
          BY <1>2, <3>1, <3>4
        <5> QED
          BY <1>1, <2>1, <3>1, <3>4, <4>1, <5>1 DEF AtStubs
      <4>4. mq2[l] = mq[l]
        BY <1>2, <3>4
      <4>5. Path(r, q, y ++ << >>, x ++ u) = Path(r, q, y ++ x, u)
        BY <2>1, <4>2, PathMoves
      <4> QED
        BY <1>1, <2>0, <3>2, <4>1, <4>3, <4>4, <4>5 DEF Route
    <3> QED
      BY <3>3, <3>4
  <2>3. CASE c \notin Thread
    <3>1. c # p /\ k = c /\ l = p
      BY <1>1, <1>6, <2>3 DEF Sent
    <3>2. PICK z, d : z = Between(mq[k], a, b) /\ d = AtSender(in, a, b)
      OBVIOUS
    <3>3. z \in Seq(Message) /\ d \in Seq(Message)
      BY <1>1, <3>2, CarryIs, PartsType
    <3>4. AtSender(in2, a, b) = d
      <4>1. a \in Thread => in2[k][a] = in[k][a]
        BY <1>2, <3>1
      <4> QED
        BY <1>1, <3>2, <4>1 DEF AtSender
    <3>5. AtStubs(mq, in, a, b) = (x ++ u) ++ z /\ AtStubs(mq2, in2, a, b) = u ++ z
      <4>1. mq2[k] = mq[k]
        BY <1>2, <3>1
      <4> QED
        BY <1>1, <1>3, <2>0, <2>1, <3>1, <3>2, <4>1 DEF AtStubs
    <3>6. Path(r, << >>, (x ++ u) ++ z, d) = Path(r, x, u ++ z, d)
      BY <2>1, <3>3, PathMoves
    <3> QED
      BY <1>1, <2>0, <2>1, <3>1, <3>2, <3>4, <3>5, <3>6 DEF Route
  <2> QED
    BY <2>2, <2>3
<1> QED
  BY <1>5, <1>6 DEF One

\* A stub forwards message m to the stub of another process.
Forwards(p, q, m, mq, in, mq2, in2) ==
  /\ q \in Proc /\ p # q /\ DstProcs(m.dst) = q
  /\ mq[p] # << >> /\ m = Head(mq[p]) /\ mq2[p] = Tail(mq[p]) /\ \A o \in Proc : o # p => mq2[o] = mq[o]
  /\ in2[q][p] = Append(in[q][p], m) /\ \A o \in Proc, e \in Node : ~(o = q /\ e = p) => in2[o][e] = in[o][e]

LEMMA RouteForward ==
  ASSUME NEW tb, NEW bf, NEW mq, NEW in, NEW mq2, NEW in2,
         Carry(tb, bf, mq, in), Carry(tb, bf, mq2, in2), NEW p \in Proc, NEW q, NEW m \in Queued(p),
         Forwards(p, q, m, mq, in, mq2, in2), NEW a \in Node, NEW b \in Node
  PROVE  Route(tb, bf, mq2, in2, a, b) = Route(tb, bf, mq, in, a, b)
<1>0. /\ q \in Proc /\ p # q /\ DstProcs(m.dst) = q
      /\ mq[p] # << >> /\ m = Head(mq[p]) /\ mq2[p] = Tail(mq[p]) /\ \A o \in Proc : o # p => mq2[o] = mq[o]
      /\ in2[q][p] = Append(in[q][p], m) /\ \A o \in Proc, e \in Node : ~(o = q /\ e = p) => in2[o][e] = in[o][e]
  BY DEF Forwards
<1>1. PICK k, l : k = DstProcs(a) /\ l = DstProcs(b)
  OBVIOUS
<1>2. k \in Proc /\ l \in Proc /\ k \in Node /\ p \in Node /\ p \notin Thread
  BY <1>1, DstProcsIs
<1>3. PICK s, t, i : s = mq[p] /\ t = Tail(s) /\ i = in[q][p]
  OBVIOUS
<1>4. s \in Seq(Message) /\ t \in Seq(Message) /\ i \in Seq(Message) /\ m \in Message /\ s # << >> /\ m = Head(s)
  BY <1>0, <1>2, <1>3, HeadTailProperties DEF Carry, Queued, Paired
<1>5. CASE One(m, a, b) = << >>
  <2>1. Between(Tail(s), a, b) = Between(s, a, b)
    BY <1>4, <1>5, SkipTail
  <2>2. Between(Append(i, m), a, b) = Between(i, a, b)
    BY <1>4, <1>5, SkipAppend
  <2>3. \A o \in Proc, e \in Node : Between(in2[o][e], a, b) = Between(in[o][e], a, b)
    BY <1>0, <1>3, <2>2
  <2>4. \A o \in Proc : Between(mq2[o], a, b) = Between(mq[o], a, b)
    BY <1>0, <1>3, <2>1
  <2> QED
    BY <1>1, <1>2, <2>3, <2>4, DstProcsIs DEF Route, AtStubs, AtSender
<1>6. CASE m.src = a /\ m.dst = b
  <2>1. l = q /\ k = p
    BY <1>0, <1>1, <1>6 DEF Queued
  <2>2. PICK x, y, z, r, d, u : /\ x = << m >> /\ y = Between(i, a, b) /\ z = Between(t, a, b) /\ r = AtReceiver(tb, bf, a, b)
                                /\ d = AtSender(in, a, b) /\ u = Between(mq[l], a, b)
    OBVIOUS
  <2>3. x \in Seq(Message) /\ y \in Seq(Message) /\ z \in Seq(Message)
    BY <1>4, <1>6, <2>2, IsBetween, BetweenType
  <2>4. r \in Seq(Message) /\ d \in Seq(Message) /\ u \in Seq(Message)
    BY <1>1, <2>2, PartsType
  <2>5. Between(s, a, b) = x ++ z
    <3>1. Between(s, a, b) = << m >> ++ Between(Tail(s), a, b)
      BY <1>4, <1>6, IsBetween
    <3> QED
      BY <1>3, <2>2, <3>1
  <2>6. Between(Append(i, m), a, b) = y ++ x
    <3>1. Between(Append(i, m), a, b) = Between(i, a, b) ++ << m >>
      BY <1>4, <1>6, IsBetween
    <3> QED
      BY <2>2, <3>1
  <2>7. AtStubs(mq, in, a, b) = y ++ (x ++ z) /\ AtStubs(mq2, in2, a, b) = (y ++ x) ++ z
    BY <1>0, <1>1, <1>3, <2>1, <2>2, <2>5, <2>6 DEF AtStubs
  <2>8. AtSender(in2, a, b) = d
    <3>1. a \in Thread => in2[k][a] = in[k][a]
      BY <1>0, <1>2, <2>1
    <3> QED
      BY <1>1, <2>2, <3>1 DEF AtSender
  <2>9. mq2[l] = mq[l]
    BY <1>0, <1>2, <2>1
  <2>10. Path(r, u, y ++ (x ++ z), d) = Path(r, u, (y ++ x) ++ z, d)
    <3>1. y ++ (x ++ z) = (y ++ x) ++ z
      BY <2>3, Free
    <3> QED
      BY <3>1
  <2> QED
    BY <1>1, <2>2, <2>7, <2>8, <2>9, <2>10 DEF Route
<1> QED
  BY <1>5, <1>6 DEF One

\* A stub hands message m to its router.
LEMMA RouteDeliver ==
  ASSUME NEW tb, NEW bf, NEW mq, NEW in, NEW tb2, NEW bf2, NEW mq2,
         Carry(tb, bf, mq, in), Carry(tb2, bf2, mq2, in), NEW p \in Proc,
         mq[p] # << >>, NEW m \in Message, m = Head(mq[p]), DstProcs(m.dst) = p,
         mq2[p] = Tail(mq[p]), \A o \in Proc : o # p => mq2[o] = mq[o],
         NEW a \in Node, NEW b \in Node, AtReceiver(tb2, bf2, a, b) = AtReceiver(tb, bf, a, b) ++ One(m, a, b)
  PROVE  Route(tb2, bf2, mq2, in, a, b) = Route(tb, bf, mq, in, a, b)
<1>1. PICK k, l, r : k = DstProcs(a) /\ l = DstProcs(b) /\ r = AtReceiver(tb, bf, a, b)
  OBVIOUS
<1>2. k \in Proc /\ l \in Proc /\ r \in Seq(Message)
  BY <1>1, DstProcsIs, PartsType
<1>3. PICK s, t : s = mq[p] /\ t = Tail(s)
  OBVIOUS
<1>4. s \in Seq(Message) /\ t \in Seq(Message) /\ s # << >> /\ m = Head(s)
  BY <1>3, HeadTailProperties DEF Carry
<1>5. CASE One(m, a, b) = << >>
  <2>1. Between(Tail(s), a, b) = Between(s, a, b)
    BY <1>4, <1>5, SkipTail
  <2>2. \A o \in Proc : Between(mq2[o], a, b) = Between(mq[o], a, b)
    BY <1>3, <2>1
  <2>3. One(m, a, b) = << >> /\ r ++ << >> = r
    BY <1>2, <1>5, Free
  <2>4. AtReceiver(tb2, bf2, a, b) = AtReceiver(tb, bf, a, b)
    BY <1>1, <2>3
  <2> QED
    BY <1>1, <1>2, <2>2, <2>4 DEF Route, AtStubs
<1>6. CASE m.src = a /\ m.dst = b
  <2>1. l = p
    BY <1>1, <1>6
  <2>2. PICK x, q, y, d : x = << m >> /\ q = Between(t, a, b) /\ y = AtStubs(mq, in, a, b) /\ d = AtSender(in, a, b)
    OBVIOUS
  <2>3. x \in Seq(Message) /\ q \in Seq(Message) /\ y \in Seq(Message) /\ d \in Seq(Message)
    BY <1>4, <1>6, <2>2, IsBetween, BetweenType, PartsType
  <2>4. Between(s, a, b) = x ++ q
    <3>1. Between(s, a, b) = << m >> ++ Between(Tail(s), a, b)
      BY <1>4, <1>6, IsBetween
    <3> QED
      BY <1>3, <2>2, <3>1
  <2>5. One(m, a, b) = x
    BY <1>6, <2>2 DEF One
  <2>6. AtStubs(mq2, in, a, b) = y
    <3>1. k # l => mq2[k] = mq[k]
      BY <1>2, <2>1
    <3> QED
      BY <1>1, <2>2, <3>1 DEF AtStubs
  <2>7. Path(r, x ++ q, y, d) = Path(r ++ x, q, y, d)
    BY <1>2, <2>3, PathMoves
  <2>8. mq[DstProcs(b)] = s /\ mq2[DstProcs(b)] = t
    BY <1>1, <1>3, <2>1
  <2> QED
    BY <1>1, <2>2, <2>4, <2>5, <2>6, <2>7, <2>8 DEF Route
<1> QED
  BY <1>5, <1>6 DEF One

\* The router of p is given a reminder of its own stub.
LEMMA RouteRemind ==
  ASSUME NEW tb, NEW bf, NEW mq, NEW in, NEW tb2, NEW bf2,
         Carry(tb, bf, mq, in), Carry(tb2, bf2, mq, in), NEW p \in Proc, mq[p] = << >>,
         NEW m \in Message, m.src = p, m.dst \in ThreadsOf(p),
         NEW a \in Node, NEW b \in Node, AtReceiver(tb2, bf2, a, b) = AtReceiver(tb, bf, a, b) ++ One(m, a, b)
  PROVE  Route(tb2, bf2, mq, in, a, b) = Route(tb, bf, mq, in, a, b) ++ One(m, a, b)
<1>1. PICK r, q, y, d, x : /\ r = AtReceiver(tb, bf, a, b) /\ q = Between(mq[DstProcs(b)], a, b)
                           /\ y = AtStubs(mq, in, a, b) /\ d = AtSender(in, a, b) /\ x = One(m, a, b)
  OBVIOUS
<1>2. r \in Seq(Message) /\ q \in Seq(Message) /\ y \in Seq(Message) /\ d \in Seq(Message) /\ x \in Seq(Message)
      /\ Path(r, q, y, d) \in Seq(Message)
  BY <1>1, PartsType, OneIs, PathType
<1>3. CASE x = << >>
  <2>1. r ++ << >> = r /\ Path(r, q, y, d) ++ << >> = Path(r, q, y, d)
    BY <1>2, Free
  <2> QED
    BY <1>1, <1>3, <2>1 DEF Route
<1>4. CASE m.src = a /\ m.dst = b
  <2>1. a = p /\ a \notin Thread /\ b \in Thread /\ procOf[b] = p /\ DstProcs(a) = p /\ DstProcs(b) = p
    BY <1>4, DstProcsIs, ThreadsAre
  <2>2. q = << >> /\ y = << >> /\ d = << >>
    BY <1>1, <2>1, BetweenNone DEF AtStubs, AtSender
  <2>3. Path(r ++ x, << >>, << >>, << >>) = Path(r, << >>, << >>, << >>) ++ x
    BY <1>2, PathEnds
  <2> QED
    BY <1>1, <2>2, <2>3 DEF Route
<1> QED
  BY <1>1, <1>3, <1>4 DEF One

LEMMA BetweenSkips ==
  ASSUME NEW s \in Seq(Message), NEW a, NEW b, \A i \in 1..Len(s) : One(s[i], a, b) = << >>
  PROVE  Between(s, a, b) = << >>
<1>1. PICK l : l = Len(s)
  OBVIOUS
<1>2. PICK S : Counts(S, Between(s, a, b), s, l, a, b)
  BY <1>1, Counted
<1>3. /\ l \in Nat /\ Between(s, a, b) = S[l] /\ S[0] = << >>
      /\ \A n \in 1..l : S[n] = S[n - 1] \o One(s[n], a, b)
  BY <1>2 DEF Counts
<1>4. << >> \o << >> = << >>
  BY EmptyMessages, ConcatEmptySeq
<1> DEFINE W == {n \in 0..l : S[n] = << >>}
<1>5. 0 \in W
  BY <1>3
<1>6. ASSUME NEW n \in 0..(l - 1), n \in W PROVE n + 1 \in W
  <2>1. n + 1 \in 1..l /\ n + 1 \in 0..l /\ (n + 1) - 1 = n
    BY <1>3
  <2>2. S[n] = << >> /\ One(s[n + 1], a, b) = << >>
    BY <1>1, <1>6, <2>1
  <2>3. S[n + 1] = S[n] \o One(s[n + 1], a, b)
    BY <1>3, <2>1
  <2>4. S[n + 1] = << >>
    BY <1>4, <2>2, <2>3
  <2> QED
    BY <2>1, <2>4
<1> HIDE DEF W
<1>7. \A n \in 0..l : n \in W
  BY <1>3, <1>5, <1>6, InductionTo
<1>8. l \in 0..l
  BY <1>3
<1> QED
  BY <1>3, <1>7, <1>8 DEF W

\* The messages a stub sends for a request.
FromStub(p, s) == s \in Seq(Message) /\ \A i \in 1..Len(s) : s[i].src = p /\ s[i].dst \in Thread

\* A stub handles message m and queues new ones: m has left the path to it ...
Handles(p, m, new, mq, mq2) ==
  /\ mq[p] # << >> /\ m \in Message /\ m = Head(mq[p]) /\ m.dst = p /\ FromStub(p, new)
  /\ mq2[p] = Tail(mq[p]) \o new /\ \A o \in Proc : o # p => mq2[o] = mq[o]

LEMMA RouteHandled ==
  ASSUME NEW tb, NEW bf, NEW mq, NEW in, NEW mq2,
         Carry(tb, bf, mq, in), Carry(tb, bf, mq2, in), NEW p \in Proc, NEW m, NEW new,
         Handles(p, m, new, mq, mq2),
         NEW a \in Node
  PROVE  Route(tb, bf, mq, in, a, p) = One(m, a, p) ++ Route(tb, bf, mq2, in, a, p)
<1>0. /\ mq[p] # << >> /\ m \in Message /\ m = Head(mq[p]) /\ m.dst = p /\ FromStub(p, new)
      /\ mq2[p] = Tail(mq[p]) \o new /\ \A o \in Proc : o # p => mq2[o] = mq[o]
  BY DEF Handles
<1>1. PICK s, t : s = mq[p] /\ t = Tail(s)
  OBVIOUS
<1>2. s \in Seq(Message) /\ t \in Seq(Message) /\ s # << >> /\ m = Head(s) /\ new \in Seq(Message)
  BY <1>0, <1>1, HeadTailProperties DEF Carry, FromStub
<1>3. PICK q, x, k, d, y : q = Between(t, a, p) /\ x = One(m, a, p) /\ k = DstProcs(a) /\ d = AtSender(in, a, p)
                           /\ y = AtStubs(mq, in, a, p)
  OBVIOUS
<1>4. p \in Node /\ p \notin Thread /\ DstProcs(p) = p /\ k \in Proc
  BY <1>3, DstProcsIs
<1>5. q \in Seq(Message) /\ x \in Seq(Message) /\ d \in Seq(Message) /\ y \in Seq(Message)
  BY <1>0, <1>2, <1>3, <1>4, BetweenType, OneIs, PartsType
<1>6. Between(new, a, p) = << >>
  <2>1. \A i \in 1..Len(new) : new[i].dst # p
    BY <1>0, <1>4 DEF FromStub
  <2>2. \A i \in 1..Len(new) : One(new[i], a, p) = << >>
    BY <2>1 DEF One
  <2> QED
    BY <1>2, <2>2, BetweenSkips
<1>7. Between(mq2[p], a, p) = q
  <2>1. Between(t \o new, a, p) = Between(t, a, p) \o Between(new, a, p)
    BY <1>2, BetweenConcat
  <2>2. q \o << >> = q
    BY <1>5, ConcatEmptySeq
  <2> QED
    BY <1>0, <1>1, <1>3, <1>6, <2>1, <2>2
<1>8. Between(mq[p], a, p) = x ++ q
  <2>1. Between(s, a, p) = One(Head(s), a, p) \o Between(Tail(s), a, p)
    BY <1>2, BetweenHead
  <2> QED
    BY <1>1, <1>2, <1>3, <2>1 DEF ++
<1>9. AtStubs(mq2, in, a, p) = y
  <2>1. k # p => mq2[k] = mq[k]
    BY <1>0, <1>4
  <2> QED
    BY <1>3, <1>4, <2>1 DEF AtStubs
<1>10. AtReceiver(tb, bf, a, p) = << >>
  BY <1>4 DEF AtReceiver
<1>11. Path(<< >>, x ++ q, y, d) = x ++ Path(<< >>, q, y, d)
  BY <1>5, PathFront
<1> QED
  BY <1>3, <1>4, <1>7, <1>8, <1>9, <1>10, <1>11 DEF Route

\* ... and the new ones come last on the paths from it.
LEMMA RouteQueued ==
  ASSUME NEW tb, NEW bf, NEW mq, NEW in, NEW mq2,
         Carry(tb, bf, mq, in), Carry(tb, bf, mq2, in), NEW p \in Proc, NEW m, NEW new,
         Handles(p, m, new, mq, mq2),
         NEW a \in Node, NEW b \in Node, b # p
  PROVE  /\ Between(new, a, b) \in Seq(Message)
         /\ a # p => Between(new, a, b) = << >>
         /\ Route(tb, bf, mq2, in, a, b) = Route(tb, bf, mq, in, a, b) ++ Between(new, a, b)
<1>0. /\ mq[p] # << >> /\ m \in Message /\ m = Head(mq[p]) /\ m.dst = p /\ FromStub(p, new)
      /\ mq2[p] = Tail(mq[p]) \o new /\ \A o \in Proc : o # p => mq2[o] = mq[o]
  BY DEF Handles
<1>1. PICK s, t : s = mq[p] /\ t = Tail(s)
  OBVIOUS
<1>2. s \in Seq(Message) /\ t \in Seq(Message) /\ s # << >> /\ m = Head(s) /\ new \in Seq(Message)
  BY <1>0, <1>1, HeadTailProperties DEF Carry, FromStub
<1>3. PICK q, x, k, l, r, d : /\ q = Between(s, a, b) /\ x = Between(new, a, b) /\ k = DstProcs(a) /\ l = DstProcs(b)
                              /\ r = AtReceiver(tb, bf, a, b) /\ d = AtSender(in, a, b)
  OBVIOUS
<1>4. p \in Node /\ p \notin Thread /\ DstProcs(p) = p /\ k \in Proc /\ l \in Proc
  BY <1>3, DstProcsIs
<1>5. q \in Seq(Message) /\ x \in Seq(Message) /\ r \in Seq(Message) /\ d \in Seq(Message)
  BY <1>2, <1>3, BetweenType, PartsType
<1>6. Between(mq2[p], a, b) = q ++ x
  <2>1. Between(t \o new, a, b) = Between(t, a, b) \o Between(new, a, b)
    BY <1>2, BetweenConcat
  <2>2. One(Head(s), a, b) = << >>
    BY <1>0, <1>2 DEF One
  <2>3. Between(Tail(s), a, b) = Between(s, a, b)
    BY <1>2, <2>2, SkipTail
  <2> QED
    BY <1>0, <1>1, <1>3, <2>1, <2>3 DEF ++
<1>7. ASSUME a # p PROVE x = << >>
  <2>1. \A i \in 1..Len(new) : new[i].src # a
    BY <1>0, <1>7 DEF FromStub
  <2>2. \A i \in 1..Len(new) : One(new[i], a, b) = << >>
    BY <2>1 DEF One
  <2> QED
    BY <1>2, <1>3, <2>2, BetweenSkips
<1>8. Route(tb, bf, mq2, in, a, b) = Route(tb, bf, mq, in, a, b) ++ x
  <2>1. CASE a # p
    <3>1. PICK w \in Seq(Message) : w = Route(tb, bf, mq, in, a, b)
      BY PartsType
    <3>2. x = << >> /\ q ++ << >> = q /\ w ++ << >> = w
      BY <1>5, <1>7, <2>1, Free
    <3>3. \A o \in Proc : Between(mq2[o], a, b) = Between(mq[o], a, b)
      BY <1>0, <1>1, <1>3, <1>6, <3>2
    <3>4. Route(tb, bf, mq2, in, a, b) = Route(tb, bf, mq, in, a, b)
      BY <1>3, <1>4, <3>3 DEF Route, AtStubs
    <3> QED
      BY <3>1, <3>2, <3>4
  <2>2. CASE a = p /\ l = p
    <3>1. d = << >> /\ AtStubs(mq, in, a, b) = << >> /\ AtStubs(mq2, in, a, b) = << >>
      BY <1>3, <1>4, <2>2 DEF AtStubs, AtSender
    <3>2. Path(r, q ++ x, << >>, << >>) = Path(r, q, << >>, << >>) ++ x
      BY <1>5, PathEnds
    <3> QED
      BY <1>1, <1>3, <1>6, <2>2, <3>1, <3>2 DEF Route
  <2>3. CASE a = p /\ l # p
    <3>1. PICK y, u : y = Between(in[l][p], a, b) /\ u = Between(mq[l], a, b)
      OBVIOUS
    <3>2. y \in Seq(Message) /\ u \in Seq(Message)
      <4>1. Between(in[DstProcs(b)][DstProcs(a)], a, b) \in Seq(Message) /\ Between(mq[DstProcs(b)], a, b) \in Seq(Message)
        BY CarryIs
      <4> QED
        BY <1>3, <1>4, <2>3, <3>1, <4>1
    <3>3. d = << >> /\ AtStubs(mq, in, a, b) = y ++ q /\ AtStubs(mq2, in, a, b) = y ++ (q ++ x)
      BY <1>1, <1>3, <1>4, <1>6, <2>3, <3>1 DEF AtStubs, AtSender
    <3>4. mq2[l] = mq[l]
      BY <1>0, <1>4, <2>3
    <3>5. y ++ (q ++ x) = (y ++ q) ++ x /\ y ++ q \in Seq(Message)
      BY <1>5, <3>2, Free
    <3>6. Path(r, u, (y ++ q) ++ x, << >>) = Path(r, u, y ++ q, << >>) ++ x
      <4>1. PICK v \in Seq(Message) : v = y ++ q
        BY <3>5
      <4>2. Path(r, u, v ++ x, << >>) = Path(r, u, v, << >>) ++ x
        BY <1>5, <3>2, PathEnds
      <4> QED
        BY <4>1, <4>2
    <3> QED
      BY <1>3, <3>1, <3>3, <3>4, <3>5, <3>6 DEF Route
  <2> QED
    BY <2>1, <2>2, <2>3
<1> QED
  BY <1>3, <1>5, <1>7, <1>8

-----------------------------------------------------------------------------
(***************************************************************************)
(* Steps of the abstract network.                                          *)
(***************************************************************************)
\* A step of the network: n handles at most one message and sends some.
LEMMA NetStep ==
  ASSUME NEW n \in Node,
         \A a \in Node \ {n}, b \in Node \ {n} : InTransit(a, b)' = InTransit(a, b),
         \A b \in Node \ {n} : IsPrefix(InTransit(n, b), InTransit(n, b)'),
         \/ \A a \in Node : InTransit(a, n)' = InTransit(a, n)
         \/ \E a \in Node : /\ InTransit(a, n) # << >> /\ InTransit(a, n)' = Tail(InTransit(a, n))
                            /\ \A c \in Node \ {a} : InTransit(c, n)' = InTransit(c, n)
  PROVE  Net!Next
<1> DEFINE ch == [a \in Thread \cup Proc |-> [b \in Thread \cup Proc |-> InTransit(a, b)]]
<1>1. PICK c, d : c = ch /\ d = ch'
  OBVIOUS
<1>2. \A a, b \in Node : c[a][b] = InTransit(a, b) /\ d[a][b] = InTransit(a, b)'
  BY <1>1 DEF Node
<1>3. \A x, y : Net!IsPrefix(x, y) <=> IsPrefix(x, y)
  BY DEF Net!IsPrefix, IsPrefix
<1>4. \A a \in Node \ {n}, b \in Node \ {n} : d[a][b] = c[a][b]
  BY <1>2
<1>5. \A b \in Node \ {n} : Net!IsPrefix(c[n][b], d[n][b])
  BY <1>2, <1>3
<1>6. \/ \A a \in Node : d[a][n] = c[a][n]
      \/ \E a \in Node : c[a][n] # << >> /\ d[a][n] = Tail(c[a][n]) /\ \A e \in Node \ {a} : d[e][n] = c[e][n]
  <2>1. CASE \A a \in Node : InTransit(a, n)' = InTransit(a, n)
    <3>1. \A a \in Node : d[a][n] = c[a][n]
      BY <1>2, <2>1
    <3> QED
      BY <3>1
  <2>2. ASSUME NEW a \in Node, InTransit(a, n) # << >>, InTransit(a, n)' = Tail(InTransit(a, n)),
               \A e \in Node \ {a} : InTransit(e, n)' = InTransit(e, n)
        PROVE  \E o \in Node : c[o][n] # << >> /\ d[o][n] = Tail(c[o][n]) /\ \A e \in Node \ {o} : d[e][n] = c[e][n]
    <3>1. c[a][n] = InTransit(a, n) /\ d[a][n] = InTransit(a, n)'
      BY <1>2
    <3>2. \A e \in Node \ {a} : d[e][n] = c[e][n]
      BY <1>2, <2>2
    <3>3. c[a][n] # << >> /\ d[a][n] = Tail(c[a][n])
      BY <2>2, <3>1
    <3> QED
      BY <3>2, <3>3
  <2> QED
    BY <2>1, <2>2
<1>7. Net!Step(n)
  BY <1>1, <1>4, <1>5, <1>6 DEF Net!Step, Node
<1> QED
  BY <1>7 DEF Net!Next, Node

\* Nothing has moved that the network would see.
LEMMA NetSame ==
  ASSUME \A a, b \in Node : InTransit(a, b)' = InTransit(a, b)
  PROVE  [Net!Next]_([a \in Thread \cup Proc |-> [b \in Thread \cup Proc |-> InTransit(a, b)]])
BY DEF Node

NetNext == [Net!Next]_([a \in Node |-> [b \in Node |-> InTransit(a, b)]])

LEMMA CarryNow == /\ TypeOK => Carry(tbox, bufmsg, msg_queue, inbox)
                  /\ TypeOK' => Carry(tbox', bufmsg', msg_queue', inbox')
BY DEF TypeOK, Carry

LEMMA InTransitType ==
  /\ TypeOK => \A a, b \in Node : InTransit(a, b) \in Seq(Message)
  /\ TypeOK' => \A a, b \in Node : InTransit(a, b)' \in Seq(Message)
<1>1. ASSUME TypeOK, NEW a \in Node, NEW b \in Node PROVE InTransit(a, b) \in Seq(Message)
  <2>1. Route(tbox, bufmsg, msg_queue, inbox, a, b) \in Seq(Message)
    BY <1>1, CarryNow, PartsType
  <2> QED
    BY <2>1, RouteIs
<1>2. ASSUME TypeOK', NEW a \in Node, NEW b \in Node PROVE InTransit(a, b)' \in Seq(Message)
  <2>1. PICK tb, bf, mq, in : tb = tbox' /\ bf = bufmsg' /\ mq = msg_queue' /\ in = inbox'
    OBVIOUS
  <2>2. Carry(tb, bf, mq, in)
    BY <1>2, <2>1, CarryNow
  <2>3. Route(tb, bf, mq, in, a, b) \in Seq(Message)
    BY <2>2, PartsType
  <2> QED
    BY <2>1, <2>3, RouteIs
<1> QED
  BY <1>1, <1>2

\* n sends a message.
LEMMA NetSend ==
  ASSUME TypeOK, NEW n \in Node, NEW m \in Message, m.src = n, m.dst # n,
         \A a, b \in Node : InTransit(a, b)' = InTransit(a, b) ++ One(m, a, b)
  PROVE  NetNext
<1>1. ASSUME NEW a \in Node, NEW b \in Node, ~(a = n /\ b # n) PROVE InTransit(a, b)' = InTransit(a, b)
  <2>1. PICK x \in Seq(Message) : x = InTransit(a, b)
    BY InTransitType
  <2>2. One(m, a, b) = << >> /\ x ++ << >> = x
    BY <1>1, Free DEF One
  <2> QED
    BY <2>1, <2>2
<1>2. ASSUME NEW b \in Node \ {n} PROVE IsPrefix(InTransit(n, b), InTransit(n, b)')
  <2>1. PICK x, y \in Seq(Message) : x = InTransit(n, b) /\ y = One(m, n, b)
    BY InTransitType, OneIs
  <2>2. InTransit(n, b)' = x \o y
    BY <2>1 DEF ++
  <2> QED
    BY <2>1, <2>2, PrefixConcat
<1>3. Net!Next
  <2>1. \A a \in Node \ {n}, b \in Node \ {n} : InTransit(a, b)' = InTransit(a, b)
    BY <1>1
  <2>2. \A a \in Node : InTransit(a, n)' = InTransit(a, n)
    BY <1>1
  <2> QED
    BY <1>2, <2>1, <2>2, NetStep
<1> QED
  BY <1>3 DEF NetNext

\* What n has sent to b is behind what was there; only n has sent.
Longer(n, a, b, old, new) == \E x \in Seq(Message) : new = old ++ x /\ (a # n => x = << >>)

\* n handles message m and may send some.
LEMMA NetHandle ==
  ASSUME TypeOK, TypeOK', NEW n \in Node, NEW m \in Message, m.dst = n,
         \A a \in Node : InTransit(a, n) = One(m, a, n) ++ InTransit(a, n)',
         \A a \in Node, b \in Node \ {n} : Longer(n, a, b, InTransit(a, b), InTransit(a, b)')
  PROVE  NetNext
<1>1. ASSUME NEW a \in Node \ {n}, NEW b \in Node \ {n} PROVE InTransit(a, b)' = InTransit(a, b)
  <2>1. PICK x \in Seq(Message) : x = InTransit(a, b)
    BY InTransitType
  <2>2. Longer(n, a, b, InTransit(a, b), InTransit(a, b)')
    OBVIOUS
  <2>3. PICK z \in Seq(Message) : InTransit(a, b)' = InTransit(a, b) ++ z /\ (a # n => z = << >>)
    BY <2>2 DEF Longer
  <2> QED
    BY <2>1, <2>3, Free
<1>2. ASSUME NEW b \in Node \ {n} PROVE IsPrefix(InTransit(n, b), InTransit(n, b)')
  <2>0. Longer(n, n, b, InTransit(n, b), InTransit(n, b)')
    OBVIOUS
  <2>1. PICK y \in Seq(Message) : InTransit(n, b)' = InTransit(n, b) ++ y
    BY <2>0 DEF Longer
  <2>2. PICK x \in Seq(Message) : x = InTransit(n, b)
    BY InTransitType
  <2>3. InTransit(n, b)' = x \o y
    BY <2>1, <2>2 DEF ++
  <2> QED
    BY <2>2, <2>3, PrefixConcat
<1>3. PICK s \in Node : s = m.src
  BY DEF Message
<1>4. InTransit(s, n) # << >> /\ InTransit(s, n)' = Tail(InTransit(s, n))
  <2>1. PICK y \in Seq(Message) : y = InTransit(s, n)'
    BY InTransitType
  <2>2. One(m, s, n) = << m >>
    BY <1>3 DEF One
  <2>3. InTransit(s, n) = << m >> \o y
    BY <2>1, <2>2 DEF ++
  <2>4. << m >> \o y # << >> /\ Tail(<< m >> \o y) = y
    OBVIOUS
  <2> QED
    BY <2>1, <2>3, <2>4
<1>5. ASSUME NEW c \in Node \ {s} PROVE InTransit(c, n)' = InTransit(c, n)
  <2>1. PICK y \in Seq(Message) : y = InTransit(c, n)'
    BY InTransitType
  <2>2. One(m, c, n) = << >> /\ << >> ++ y = y
    BY <1>3, Free DEF One
  <2> QED
    BY <2>1, <2>2
<1>6. Net!Next
  BY <1>1, <1>2, <1>4, <1>5, NetStep
<1> QED
  BY <1>6 DEF NetNext

-----------------------------------------------------------------------------
(***************************************************************************)
(* One action after the other.                                             *)
(***************************************************************************)
\* Every message is on its way between its ends.
ThreadsRouted(tb) == \A t \in Thread : tb[t] \in Seq(ToThread(t))
KeptRouted(bf) == \A p \in Proc, t \in Thread : bf[p][t] \in Seq(Kept(p, t))
QueuesRouted(mq) == \A p \in Proc : mq[p] \in Seq(Queued(p))
LinksRouted(in) == \A p \in Proc, c \in Node : in[p][c] \in Seq(Sent(p, c))

RoutesOK == ThreadsRouted(tbox) /\ KeptRouted(bufmsg) /\ QueuesRouted(msg_queue) /\ LinksRouted(inbox)

\* A thread sends to a stub.
LEMMA SendRouted ==
  ASSUME TypeOK, RoutesOK, NEW t \in Thread, NEW m \in Paired, m.src = t, DealerSend(t, m)
  PROVE  /\ LinksRouted(inbox')
         /\ inbox'[procOf[t]][t] = Append(inbox[procOf[t]][t], m)
         /\ \A p \in Proc, c \in Node : ~(p = procOf[t] /\ c = t) => inbox'[p][c] = inbox[p][c]
<1>1. t \in Node /\ procOf[t] \in Proc
  BY DstProcsIs
<1>2. /\ inbox \in [Proc -> [Node -> Seq(Message)]]
      /\ inbox' = [inbox EXCEPT ![procOf[t]][t] = Append(@, m)]
  BY DEF TypeOK, DealerSend
<1>3. PICK q, s : q = procOf[t] /\ s = Append(inbox[q][t], m)
  OBVIOUS
<1>4. inbox' = [inbox EXCEPT ![q] = [inbox[q] EXCEPT ![t] = s]]
  BY <1>2, <1>3
<1>5. inbox'[q][t] = s /\ \A p \in Proc, c \in Node : ~(p = q /\ c = t) => inbox'[p][c] = inbox[p][c]
  BY <1>1, <1>2, <1>3, <1>4
<1>6. m \in Sent(q, t)
  BY <1>3 DEF Sent
<1>7. inbox[q][t] \in Seq(Sent(q, t))
  BY <1>1, <1>3 DEF RoutesOK, LinksRouted
<1>8. s \in Seq(Sent(q, t))
  BY <1>3, <1>6, <1>7, AppendProperties
<1>9. LinksRouted(inbox')
  BY <1>5, <1>8 DEF RoutesOK, LinksRouted
<1> QED
  BY <1>3, <1>5, <1>9

\* The network sees a message sent.
LEMMA SendNet ==
  ASSUME TypeOK, RoutesOK, NEW t \in Thread, NEW m \in Paired, m.src = t, m.dst \in Proc, DealerSend(t, m),
         UNCHANGED <<tbox, bufmsg, msg_queue>>
  PROVE  RoutesOK' /\ NetNext
<1>1. /\ LinksRouted(inbox')
      /\ inbox'[procOf[t]][t] = Append(inbox[procOf[t]][t], m)
      /\ \A p \in Proc, c \in Node : ~(p = procOf[t] /\ c = t) => inbox'[p][c] = inbox[p][c]
  BY SendRouted
<1>2. RoutesOK'
  BY <1>1 DEF RoutesOK
<1>3. m \in Message /\ m.dst # t /\ t \in Node
  BY DstProcsIs DEF Paired
<1>4. PICK in2 : in2 = inbox'
  OBVIOUS
<1>5. ASSUME NEW a \in Node, NEW b \in Node
      PROVE  InTransit(a, b)' = InTransit(a, b) ++ One(m, a, b)
  <2>1. Route(tbox, bufmsg, msg_queue, in2, a, b) = Route(tbox, bufmsg, msg_queue, inbox, a, b) ++ One(m, a, b)
    <3>1. Carry(tbox, bufmsg, msg_queue, inbox)
      BY CarryNow
    <3>2. /\ in2[procOf[t]][t] = Append(inbox[procOf[t]][t], m)
          /\ \A p \in Proc, c \in Node : ~(p = procOf[t] /\ c = t) => in2[p][c] = inbox[p][c]
      BY <1>1, <1>4
    <3> QED
      BY <1>3, <3>1, <3>2, RouteSend
  <2>2. InTransit(a, b)' = Route(tbox, bufmsg, msg_queue, in2, a, b)
    <3>1. InTransit(a, b)' = Route(tbox', bufmsg', msg_queue', inbox', a, b)
      BY RouteIs
    <3> QED
      BY <1>4, <3>1
  <2> QED
    BY <2>1, <2>2, RouteIs
<1>6. NetNext
  BY <1>3, <1>5, NetSend
<1> QED
  BY <1>2, <1>6

LEMMA PairedSend ==
  ASSUME NEW t \in Thread, NEW p \in Proc, NEW y \in {"kConnect", "kUpdate", "kRUpdate", "kStop"},
         NEW o \in Node \X Nat
  PROVE  Msg(y, t, p, o) \in Paired /\ Msg(y, t, p, o).src = t /\ Msg(y, t, p, o).dst = p
<1>1. Msg(y, t, p, o) \in Message /\ Msg(y, t, p, o).src = t /\ Msg(y, t, p, o).dst = p
  BY DEF Msg, Message, Node
<1> QED
  BY <1>1 DEF Paired

LEMMA ConnectNet ==
  ASSUME TypeOK, RoutesOK, NEW t \in Thread, ConnectStub(t)
  PROVE  RoutesOK' /\ NetNext
<1>1. procOf[t] \in Proc /\ <<t, 0>> \in Node \X Nat
  BY DstProcsIs
<1>2. PICK m : m = Msg("kConnect", t, procOf[t], <<t, 0>>)
  OBVIOUS
<1>3. m \in Paired /\ m.src = t /\ m.dst \in Proc
  BY <1>1, <1>2, PairedSend
<1>4. DealerSend(t, m) /\ UNCHANGED <<tbox, bufmsg, msg_queue>>
  BY <1>2 DEF ConnectStub, stubVars
<1> QED
  BY <1>3, <1>4, SendNet

LEMMA RequestNet ==
  ASSUME TypeOK, RoutesOK, NEW w \in Worker, WorkerRequest(w)
  PROVE  RoutesOK' /\ NetNext
<1>1. w \in Thread
  BY DEF Thread
<1>2. procOf[w] \in Proc /\ <<w, asked[w]>> \in Node \X Nat
  BY <1>1, DstProcsIs DEF TypeOK
<1>3. PICK m : m = Msg("kUpdate", w, procOf[w], <<w, asked[w]>>)
  OBVIOUS
<1>4. m \in Paired /\ m.src = w /\ m.dst \in Proc
  BY <1>1, <1>2, <1>3, PairedSend
<1>5. DealerSend(w, m) /\ UNCHANGED <<tbox, bufmsg, msg_queue>>
  BY <1>3 DEF WorkerRequest, stubVars
<1> QED
  BY <1>1, <1>4, <1>5, SendNet

LEMMA StopNet ==
  ASSUME TypeOK, RoutesOK, NEW t \in Thread, NEW o \in Node \X Nat,
         DealerSend(t, Msg("kStop", t, procOf[t], o)), UNCHANGED <<stubVars, tbox>>
  PROVE  RoutesOK' /\ NetNext
<1>1. procOf[t] \in Proc
  BY DstProcsIs
<1>2. PICK m : m = Msg("kStop", t, procOf[t], o)
  OBVIOUS
<1>3. m \in Paired /\ m.src = t /\ m.dst \in Proc
  BY <1>1, <1>2, PairedSend
<1>4. DealerSend(t, m) /\ UNCHANGED <<tbox, bufmsg, msg_queue>>
  BY <1>2 DEF stubVars
<1> QED
  BY <1>3, <1>4, SendNet

\* A server takes a message and may answer it.
LEMMA ReplyNet ==
  ASSUME TypeOK, TypeOK', RoutesOK, NEW s \in Server, ServerReply(s)
  PROVE  RoutesOK' /\ NetNext
<1>1. s \in Thread /\ s \in Node /\ s \notin Proc
  BY DstProcsIs DEF Thread
<1>2. PICK m, tb2, in2 : m = Head(tbox[s]) /\ tb2 = tbox' /\ in2 = inbox'
  OBVIOUS
<1>3. /\ tbox[s] # << >> /\ tb2 = [tbox EXCEPT ![s] = Tail(@)] /\ UNCHANGED <<bufmsg, msg_queue>>
      /\ IF m.type = "kUpdate"
         THEN DealerSend(s, [m EXCEPT !.type = "kRUpdate", !.src = s, !.dst = m.src])
         ELSE in2 = inbox
  BY <1>2 DEF ServerReply, stubVars
<1>4. tbox[s] \in Seq(ToThread(s)) /\ tbox \in [Thread -> Seq(Message)]
  BY <1>1 DEF RoutesOK, ThreadsRouted, TypeOK
<1>5. m \in ToThread(s) /\ Tail(tbox[s]) \in Seq(ToThread(s))
  BY <1>2, <1>3, <1>4, HeadTailProperties
<1>6. m \in Message /\ m \in Paired /\ m.dst = s /\ m.src \in Proc
  BY <1>1, <1>5 DEF ToThread, Paired
<1>7. tb2[s] = Tail(tbox[s]) /\ \A u \in Thread : u # s => tb2[u] = tbox[u]
  BY <1>1, <1>3, <1>4
<1>8. ThreadsRouted(tb2)
  BY <1>5, <1>7 DEF RoutesOK, ThreadsRouted
<1>9. /\ Carry(tbox, bufmsg, msg_queue, inbox) /\ Carry(tb2, bufmsg, msg_queue, inbox)
  BY <1>2 DEF Carry, TypeOK
<1>10. \A a, b \in Node : Route(tbox, bufmsg, msg_queue, inbox, a, b) = One(m, a, b) ++ Route(tb2, bufmsg, msg_queue, inbox, a, b)
  <2>1. PICK tb : tb = tbox
    OBVIOUS
  <2>2. /\ tb[s] # << >> /\ tb2[s] = Tail(tb[s]) /\ m = Head(tb[s]) /\ \A u \in Thread : u # s => tb2[u] = tb[u]
        /\ Carry(tb, bufmsg, msg_queue, inbox)
    BY <1>2, <1>3, <1>7, <1>9, <2>1
  <2>3. ASSUME NEW a \in Node, NEW b \in Node
        PROVE  Route(tb, bufmsg, msg_queue, inbox, a, b) = One(m, a, b) ++ Route(tb2, bufmsg, msg_queue, inbox, a, b)
    BY <1>1, <1>6, <1>9, <2>2, RouteTake
  <2> QED
    BY <2>1, <2>3
<1>11. /\ LinksRouted(in2)
       /\ \A a, b \in Node :
            \E x \in Seq(Message) : /\ Route(tb2, bufmsg, msg_queue, in2, a, b) = Route(tb2, bufmsg, msg_queue, inbox, a, b) ++ x
                                    /\ (a # s \/ b = s) => x = << >>
  <2>1. CASE m.type = "kUpdate"
    <3>1. PICK r : r = [m EXCEPT !.type = "kRUpdate", !.src = s, !.dst = m.src]
      OBVIOUS
    <3>2. r \in Message /\ r.src = s /\ r.dst = m.src
      BY <1>1, <1>6, <3>1 DEF Message, Node
    <3>3. r \in Paired /\ DealerSend(s, r)
      BY <1>1, <1>3, <1>6, <2>1, <3>1, <3>2 DEF Paired
    <3>4. /\ LinksRouted(inbox')
          /\ inbox'[procOf[s]][s] = Append(inbox[procOf[s]][s], r)
          /\ \A p \in Proc, c \in Node : ~(p = procOf[s] /\ c = s) => inbox'[p][c] = inbox[p][c]
      BY <1>1, <3>2, <3>3, SendRouted
    <3>5. /\ in2[procOf[s]][s] = Append(inbox[procOf[s]][s], r)
          /\ \A p \in Proc, c \in Node : ~(p = procOf[s] /\ c = s) => in2[p][c] = inbox[p][c]
      BY <1>2, <3>4
    <3>6. ASSUME NEW a \in Node, NEW b \in Node
          PROVE  \E x \in Seq(Message) : /\ Route(tb2, bufmsg, msg_queue, in2, a, b) = Route(tb2, bufmsg, msg_queue, inbox, a, b) ++ x
                                         /\ (a # s \/ b = s) => x = << >>
      <4>1. Route(tb2, bufmsg, msg_queue, in2, a, b) = Route(tb2, bufmsg, msg_queue, inbox, a, b) ++ One(r, a, b)
        BY <1>1, <1>9, <3>2, <3>5, RouteSend
      <4>2. One(r, a, b) \in Seq(Message)
        BY <3>2, OneIs
      <4>3. (a # s \/ b = s) => One(r, a, b) = << >>
        BY <1>1, <1>6, <3>2 DEF One
      <4> QED
        BY <4>1, <4>2, <4>3
    <3> QED
      BY <1>2, <3>4, <3>6
  <2>2. CASE m.type # "kUpdate"
    <3>1. in2 = inbox
      BY <1>3, <2>2
    <3>2. ASSUME NEW a \in Node, NEW b \in Node
          PROVE  \E x \in Seq(Message) : /\ Route(tb2, bufmsg, msg_queue, in2, a, b) = Route(tb2, bufmsg, msg_queue, inbox, a, b) ++ x
                                         /\ (a # s \/ b = s) => x = << >>
      <4>1. PICK w \in Seq(Message) : w = Route(tb2, bufmsg, msg_queue, inbox, a, b)
        BY <1>9, PartsType
      <4>2. w = w ++ << >> /\ << >> \in Seq(Message)
        BY Free
      <4> QED
        BY <3>1, <4>1, <4>2
    <3> QED
      BY <3>1, <3>2 DEF RoutesOK
  <2> QED
    BY <2>1, <2>2
<1>12. RoutesOK'
  BY <1>2, <1>3, <1>8, <1>11 DEF RoutesOK
<1>13. \A a, b \in Node : InTransit(a, b)' = Route(tb2, bufmsg, msg_queue, in2, a, b)
  BY <1>2, <1>3, RouteIs
<1>14. ASSUME NEW a \in Node PROVE InTransit(a, s) = One(m, a, s) ++ InTransit(a, s)'
  <2>1. PICK w \in Seq(Message) : w = Route(tb2, bufmsg, msg_queue, inbox, a, s)
    BY <1>1, <1>9, PartsType
  <2>2. w ++ << >> = w
    BY Free
  <2>3. Route(tb2, bufmsg, msg_queue, in2, a, s) = w
    BY <1>1, <1>11, <2>1, <2>2
  <2> QED
    BY <1>1, <1>10, <1>13, <2>1, <2>3, RouteIs
<1>15. ASSUME NEW a \in Node, NEW b \in Node \ {s} PROVE Longer(s, a, b, InTransit(a, b), InTransit(a, b)')
  <2>1. PICK w \in Seq(Message) : w = Route(tb2, bufmsg, msg_queue, inbox, a, b)
    BY <1>9, PartsType
  <2>2. One(m, a, b) = << >> /\ << >> ++ w = w
    BY <1>6, Free DEF One
  <2>3. InTransit(a, b) = w
    <3>1. InTransit(a, b) = One(m, a, b) ++ w
      BY <1>10, <2>1, RouteIs
    <3> QED
      BY <2>2, <3>1
  <2>4. PICK x \in Seq(Message) : /\ Route(tb2, bufmsg, msg_queue, in2, a, b) = w ++ x
                                  /\ (a # s \/ b = s) => x = << >>
    BY <1>11, <2>1
  <2>5. InTransit(a, b)' = w ++ x /\ (a # s => x = << >>)
    BY <1>13, <2>4
  <2> QED
    BY <2>3, <2>5 DEF Longer
<1>16. NetNext
  BY <1>1, <1>6, <1>14, <1>15, NetHandle
<1> QED
  BY <1>12, <1>16

\* A thread becomes known: what was kept for it follows what it was sent.
LEMMA FlushRouted ==
  ASSUME TypeOK, RoutesOK, NEW p \in Proc, NEW t \in Thread, Flush(p, t)
  PROVE  /\ ThreadsRouted(tbox') /\ KeptRouted(bufmsg')
         /\ \A a, b \in Node : AtReceiver(tbox', bufmsg', a, b) = AtReceiver(tbox, bufmsg, a, b)
<1>1. PICK tb2, bf2, s, u : tb2 = tbox' /\ bf2 = bufmsg' /\ s = tbox[t] /\ u = bufmsg[p][t]
  OBVIOUS
<1>2. /\ tbox \in [Thread -> Seq(Message)] /\ bufmsg \in [Proc -> [Thread -> Seq(Message)]]
      /\ s \in Seq(Message) /\ u \in Seq(Message)
      /\ tb2 = [tbox EXCEPT ![t] = s \o u] /\ bf2 = [bufmsg EXCEPT ![p] = [bufmsg[p] EXCEPT ![t] = << >>]]
  BY <1>1 DEF TypeOK, Flush
<1>3. /\ tb2[t] = s \o u /\ bf2[p][t] = << >>
      /\ \A o \in Thread : o # t => tb2[o] = tbox[o]
      /\ \A q \in Proc, o \in Thread : ~(q = p /\ o = t) => bf2[q][o] = bufmsg[q][o]
  BY <1>2
<1>4. s \in Seq(ToThread(t)) /\ u \in Seq(Kept(p, t))
  BY <1>1 DEF RoutesOK, ThreadsRouted, KeptRouted
<1>5. procOf[t] # p => u = << >>
  <2>1. ASSUME procOf[t] # p, u # << >> PROVE FALSE
    <3>1. u \in Seq({})
      BY <1>4, <2>1 DEF Kept
    <3>2. Head(u) \in {}
      BY <2>1, <3>1, HeadTailProperties
    <3> QED
      BY <3>2
  <2> QED
    BY <2>1
<1>6. s \o u \in Seq(ToThread(t))
  <2>1. CASE procOf[t] = p
    <3>1. u \in Seq(ToThread(t))
      BY <1>4, <2>1 DEF Kept
    <3> QED
      BY <1>4, <3>1, ConcatProperties
  <2>2. CASE procOf[t] # p
    <3>1. s \o << >> = s
      BY <1>2, ConcatEmptySeq
    <3> QED
      BY <1>4, <1>5, <2>2, <3>1
  <2> QED
    BY <2>1, <2>2
<1>7. ThreadsRouted(tb2)
  BY <1>3, <1>6 DEF RoutesOK, ThreadsRouted
<1>8. KeptRouted(bf2)
  <2>1. << >> \in Seq(Kept(p, t))
    BY EmptySeq
  <2> QED
    BY <1>3, <2>1 DEF RoutesOK, KeptRouted
<1>9. ASSUME NEW a \in Node, NEW b \in Node
      PROVE  AtReceiver(tb2, bf2, a, b) = AtReceiver(tbox, bufmsg, a, b)
  <2>1. CASE b # t
    <3>1. b \in Thread => tb2[b] = tbox[b] /\ bf2[DstProcs(b)][b] = bufmsg[DstProcs(b)][b]
      BY <1>3, <2>1, DstProcsIs
    <3> QED
      BY <3>1 DEF AtReceiver
  <2>2. CASE b = t /\ procOf[t] # p
    <3>1. s \o << >> = s
      BY <1>2, ConcatEmptySeq
    <3>2. tb2[b] = tbox[b] /\ bf2[DstProcs(b)][b] = bufmsg[DstProcs(b)][b]
      BY <1>1, <1>3, <1>5, <2>2, <3>1, DstProcsIs
    <3> QED
      BY <3>2 DEF AtReceiver
  <2>3. CASE b = t /\ procOf[t] = p
    <3>1. PICK x, y : x = Between(s, a, b) /\ y = Between(u, a, b)
      OBVIOUS
    <3>2. x \in Seq(Message) /\ y \in Seq(Message)
      BY <1>2, <3>1, BetweenType
    <3>3. Between(s \o u, a, b) = Between(s, a, b) \o Between(u, a, b)
      <4>1. s \in Seq(Message) /\ u \in Seq(Message)
        BY <1>2
      <4> QED
        BY <4>1, BetweenConcat, SMTT(30)
    <3>4. x ++ y \in Seq(Message) /\ Between(s \o u, a, b) = x ++ y
      BY <3>1, <3>2, <3>3, Free DEF ++
    <3>5. (x ++ y) ++ << >> = x ++ y
      BY <3>4, Free
    <3>6. DstProcs(b) = p
      BY <2>3, DstProcsIs
    <3>7. AtReceiver(tbox, bufmsg, a, b) = x ++ y
      BY <1>1, <2>3, <3>1, <3>6 DEF AtReceiver
    <3>8. AtReceiver(tb2, bf2, a, b) = (x ++ y) ++ << >>
      BY <1>3, <2>3, <3>4, <3>6, BetweenNone DEF AtReceiver
    <3> QED
      BY <3>5, <3>7, <3>8
  <2> QED
    BY <2>1, <2>2, <2>3
<1> QED
  BY <1>1, <1>7, <1>8, <1>9

LEMMA StartNet ==
  ASSUME RoutesOK, NEW p \in Proc, Start(p)
  PROVE  RoutesOK' /\ NetNext
<1>1. UNCHANGED <<tbox, bufmsg, msg_queue, inbox>>
  BY DEF Start
<1>2. \A a, b \in Node : InTransit(a, b)' = InTransit(a, b)
  BY <1>1, RouteIs
<1> QED
  BY <1>1, <1>2, NetSame DEF RoutesOK, NetNext

LEMMA ReceiveNet ==
  ASSUME TypeOK, TypeOK', RoutesOK, NEW p \in Proc, NEW c \in Node, RouterReceive(p, c)
  PROVE  RoutesOK' /\ NetNext
<1>1. PICK m, tb2, bf2, mq2, in2 : m = Head(inbox[p][c]) /\ tb2 = tbox' /\ bf2 = bufmsg' /\ mq2 = msg_queue' /\ in2 = inbox'
  OBVIOUS
<1>2. /\ msg_queue[p] = << >> /\ inbox[p][c] # << >>
      /\ in2 = [inbox EXCEPT ![p][c] = Tail(@)] /\ mq2 = [msg_queue EXCEPT ![p] = << m >>]
      /\ IF m.src \in Thread \ id2addr[p] THEN Flush(p, m.src) ELSE UNCHANGED <<tbox, bufmsg>>
  BY <1>1 DEF RouterReceive
<1>3. /\ inbox \in [Proc -> [Node -> Seq(Message)]] /\ msg_queue \in [Proc -> Seq(Message)]
      /\ inbox[p][c] \in Seq(Sent(p, c))
  BY DEF TypeOK, RoutesOK, LinksRouted
<1>4. m \in Sent(p, c) /\ Tail(inbox[p][c]) \in Seq(Sent(p, c))
  BY <1>1, <1>2, <1>3, HeadTailProperties
<1>5. m \in Paired /\ m \in Queued(p)
  BY <1>4, DstProcsIs DEF Sent, Queued
<1>6. /\ in2[p][c] = Tail(inbox[p][c])
      /\ \A o \in Proc, e \in Node : ~(o = p /\ e = c) => in2[o][e] = inbox[o][e]
  <2>1. PICK t : t = Tail(inbox[p][c])
    OBVIOUS
  <2>2. in2 = [inbox EXCEPT ![p] = [inbox[p] EXCEPT ![c] = t]]
    BY <1>2, <2>1
  <2> QED
    BY <1>3, <2>1, <2>2
<1>7. mq2[p] = << m >> /\ \A o \in Proc : o # p => mq2[o] = msg_queue[o]
  BY <1>2, <1>3
<1>8. /\ ThreadsRouted(tb2) /\ KeptRouted(bf2)
      /\ \A a, b \in Node : AtReceiver(tb2, bf2, a, b) = AtReceiver(tbox, bufmsg, a, b)
  <2>1. CASE m.src \in Thread \ id2addr[p]
    BY <1>1, <1>2, <2>1, FlushRouted
  <2>2. CASE ~(m.src \in Thread \ id2addr[p])
    BY <1>1, <1>2, <2>2 DEF RoutesOK
  <2> QED
    BY <2>1, <2>2
<1>9. << m >> \in Seq(Queued(p))
  BY <1>5
<1>10. QueuesRouted(mq2) /\ LinksRouted(in2)
  BY <1>4, <1>6, <1>7, <1>9 DEF RoutesOK, QueuesRouted, LinksRouted
<1>11. RoutesOK'
  BY <1>1, <1>8, <1>10 DEF RoutesOK
<1>12. Carry(tbox, bufmsg, msg_queue, inbox) /\ Carry(tb2, bf2, mq2, in2)
  BY <1>1, CarryNow
<1>13. ASSUME NEW a \in Node, NEW b \in Node PROVE InTransit(a, b)' = InTransit(a, b)
  <2>1. PICK mq, in : mq = msg_queue /\ in = inbox
    OBVIOUS
  <2>2. /\ mq[p] = << >> /\ in[p][c] # << >> /\ m = Head(in[p][c]) /\ in2[p][c] = Tail(in[p][c])
        /\ \A o \in Proc, e \in Node : ~(o = p /\ e = c) => in2[o][e] = in[o][e]
        /\ \A o \in Proc : o # p => mq2[o] = mq[o]
    BY <1>1, <1>2, <1>6, <1>7, <2>1
  <2>3. Carry(tbox, bufmsg, mq, in) /\ AtReceiver(tb2, bf2, a, b) = AtReceiver(tbox, bufmsg, a, b)
    BY <1>8, <1>12, <2>1
  <2>4. Route(tb2, bf2, mq2, in2, a, b) = Route(tbox, bufmsg, mq, in, a, b)
    BY <1>4, <1>7, <1>12, <2>2, <2>3, RouteReceive
  <2>5. InTransit(a, b)' = Route(tb2, bf2, mq2, in2, a, b)
    BY <1>1, RouteIs
  <2> QED
    BY <2>1, <2>4, <2>5, RouteIs
<1> QED
  BY <1>11, <1>13, NetSame DEF NetNext

\* The router of p is given a message for one of its threads.
LEMMA RouterRouted ==
  ASSUME TypeOK, ProcsOK, RoutesOK, NEW p \in Proc, NEW m \in Paired, m.dst \in ThreadsOf(p), RouterSend(p, m)
  PROVE  /\ ThreadsRouted(tbox') /\ KeptRouted(bufmsg')
         /\ \A a, b \in Node : AtReceiver(tbox', bufmsg', a, b) = AtReceiver(tbox, bufmsg, a, b) ++ One(m, a, b)
<1>1. PICK t, tb2, bf2, s, u : t = m.dst /\ tb2 = tbox' /\ bf2 = bufmsg' /\ s = tbox[t] /\ u = bufmsg[p][t]
  OBVIOUS
<1>2. /\ t \in Thread /\ procOf[t] = p /\ DstProcs(t) = p /\ m \in Message
      /\ tbox \in [Thread -> Seq(Message)] /\ bufmsg \in [Proc -> [Thread -> Seq(Message)]]
  BY <1>1, ThreadsAre, DstProcsIs DEF TypeOK, Paired
<1>3. s \in Seq(Message) /\ u \in Seq(Message)
  BY <1>1, <1>2
<1>4. s \in Seq(ToThread(t)) /\ u \in Seq(Kept(p, t)) /\ m \in ToThread(t) /\ Kept(p, t) = ToThread(t)
  BY <1>1, <1>2 DEF RoutesOK, ThreadsRouted, KeptRouted, ToThread, Kept
<1>5. Append(s, m) \in Seq(ToThread(t)) /\ Append(u, m) \in Seq(Kept(p, t))
  BY <1>4, AppendProperties
<1>6. ASSUME NEW a \in Node, NEW b \in Node, b # t
      PROVE  AtReceiver(tbox, bufmsg, a, b) ++ One(m, a, b) = AtReceiver(tbox, bufmsg, a, b)
  <2>1. Carry(tbox, bufmsg, msg_queue, inbox)
    BY CarryNow
  <2>2. PICK r \in Seq(Message) : r = AtReceiver(tbox, bufmsg, a, b)
    BY <2>1, PartsType
  <2>3. One(m, a, b) = << >> /\ r ++ << >> = r
    BY <1>1, <1>6, Free DEF One
  <2> QED
    BY <2>2, <2>3
<1>7. CASE t \in id2addr[p]
  <2>1. tb2 = [tbox EXCEPT ![t] = Append(s, m)] /\ bf2 = bufmsg
    BY <1>1, <1>7 DEF RouterSend
  <2>2. tb2[t] = Append(s, m) /\ \A o \in Thread : o # t => tb2[o] = tbox[o]
    BY <1>2, <2>1
  <2>3. u = << >>
    BY <1>1, <1>2, <1>7 DEF ProcsOK, ProcOK, KnownOK
  <2>4. ThreadsRouted(tb2) /\ KeptRouted(bf2)
    BY <1>5, <2>1, <2>2 DEF RoutesOK, ThreadsRouted
  <2>5. ASSUME NEW a \in Node, NEW b \in Node
        PROVE  AtReceiver(tb2, bf2, a, b) = AtReceiver(tbox, bufmsg, a, b) ++ One(m, a, b)
    <3>1. CASE b # t
      <4>1. AtReceiver(tb2, bf2, a, b) = AtReceiver(tbox, bufmsg, a, b)
        BY <2>1, <2>2, <3>1 DEF AtReceiver
      <4> QED
        BY <1>6, <3>1, <4>1
    <3>2. CASE b = t
      <4>1. PICK x, o : x = Between(s, a, b) /\ o = One(m, a, b)
        OBVIOUS
      <4>2. x \in Seq(Message) /\ o \in Seq(Message)
        BY <1>2, <1>3, <4>1, BetweenType, OneIs
      <4>3. Between(Append(s, m), a, b) = Between(s, a, b) \o One(m, a, b)
        BY <1>2, <1>3, BetweenAppend
      <4>4. Between(Append(s, m), a, b) = x ++ o
        BY <4>1, <4>3 DEF ++
      <4>5. x ++ o \in Seq(Message)
        BY <4>2, Free
      <4>6. (x ++ o) ++ << >> = x ++ o /\ x ++ << >> = x
        BY <4>2, <4>5, Free
      <4>7. AtReceiver(tbox, bufmsg, a, b) = x ++ << >> /\ AtReceiver(tb2, bf2, a, b) = (x ++ o) ++ << >>
        <5>1. tbox[b] = s /\ tb2[b] = Append(s, m) /\ bf2[DstProcs(b)][b] = << >> /\ bufmsg[DstProcs(b)][b] = << >>
          BY <1>1, <1>2, <2>1, <2>2, <2>3, <3>2
        <5>2. Between(<< >>, a, b) = << >>
          BY BetweenNone
        <5> QED
          BY <1>2, <3>2, <4>1, <4>4, <5>1, <5>2 DEF AtReceiver
      <4> QED
        BY <4>1, <4>6, <4>7
    <3> QED
      BY <3>1, <3>2
  <2> QED
    BY <1>1, <2>4, <2>5
<1>8. CASE t \notin id2addr[p]
  <2>1. tb2 = tbox /\ bf2 = [bufmsg EXCEPT ![p] = [bufmsg[p] EXCEPT ![t] = Append(u, m)]]
    BY <1>1, <1>8 DEF RouterSend
  <2>2. bf2[p][t] = Append(u, m) /\ \A q \in Proc, o \in Thread : ~(q = p /\ o = t) => bf2[q][o] = bufmsg[q][o]
    BY <1>2, <2>1
  <2>3. ThreadsRouted(tb2) /\ KeptRouted(bf2)
    BY <1>5, <2>1, <2>2 DEF RoutesOK, KeptRouted
  <2>4. ASSUME NEW a \in Node, NEW b \in Node
        PROVE  AtReceiver(tb2, bf2, a, b) = AtReceiver(tbox, bufmsg, a, b) ++ One(m, a, b)
    <3>1. CASE b # t
      <4>1. b \in Thread => bf2[DstProcs(b)][b] = bufmsg[DstProcs(b)][b]
        BY <2>2, <3>1, DstProcsIs
      <4>2. AtReceiver(tb2, bf2, a, b) = AtReceiver(tbox, bufmsg, a, b)
        BY <2>1, <4>1 DEF AtReceiver
      <4> QED
        BY <1>6, <3>1, <4>2
    <3>2. CASE b = t
      <4>1. PICK x, y, o : x = Between(s, a, b) /\ y = Between(u, a, b) /\ o = One(m, a, b)
        OBVIOUS
      <4>2. x \in Seq(Message) /\ y \in Seq(Message) /\ o \in Seq(Message)
        BY <1>2, <1>3, <4>1, BetweenType, OneIs
      <4>3. Between(Append(u, m), a, b) = Between(u, a, b) \o One(m, a, b)
        BY <1>2, <1>3, BetweenAppend
      <4>4. Between(Append(u, m), a, b) = y ++ o
        BY <4>1, <4>3 DEF ++
      <4>5. x ++ (y ++ o) = (x ++ y) ++ o
        BY <4>2, Free
      <4>6. AtReceiver(tbox, bufmsg, a, b) = x ++ y /\ AtReceiver(tb2, bf2, a, b) = x ++ (y ++ o)
        BY <1>1, <1>2, <2>1, <2>2, <3>2, <4>1, <4>4 DEF AtReceiver
      <4> QED
        BY <4>1, <4>5, <4>6
    <3> QED
      BY <3>1, <3>2
  <2> QED
    BY <1>1, <2>3, <2>4
<1> QED
  BY <1>7, <1>8

\* The head of a queue.
LEMMA QueueRouted ==
  ASSUME TypeOK, RoutesOK, NEW p \in Proc, msg_queue[p] # << >>
  PROVE  /\ Head(msg_queue[p]) \in Queued(p) /\ Head(msg_queue[p]) \in Paired /\ Head(msg_queue[p]) \in Message
         /\ Tail(msg_queue[p]) \in Seq(Queued(p))
<1>1. msg_queue[p] \in Seq(Queued(p))
  BY DEF RoutesOK, QueuesRouted
<1>2. Head(msg_queue[p]) \in Queued(p) /\ Tail(msg_queue[p]) \in Seq(Queued(p))
  BY <1>1, HeadTailProperties
<1> QED
  BY <1>2 DEF Queued, Paired

LEMMA DeliverNet ==
  ASSUME TypeOK, TypeOK', ProcsOK, RoutesOK, NEW p \in Proc, msg_queue[p] # << >>,
         Head(msg_queue[p]).dst \in ThreadsOf(p), RouterSend(p, Head(msg_queue[p])),
         msg_queue' = [msg_queue EXCEPT ![p] = Tail(@)], UNCHANGED inbox
  PROVE  RoutesOK' /\ NetNext
<1>1. PICK m, tb2, bf2, mq2, mq : m = Head(msg_queue[p]) /\ tb2 = tbox' /\ bf2 = bufmsg' /\ mq2 = msg_queue' /\ mq = msg_queue
  OBVIOUS
<1>2. m \in Paired /\ m \in Message /\ m.dst \in ThreadsOf(p) /\ RouterSend(p, m) /\ mq[p] # << >> /\ m = Head(mq[p])
      /\ Tail(mq[p]) \in Seq(Queued(p))
  BY <1>1, QueueRouted
<1>3. DstProcs(m.dst) = p
  BY <1>2, DstProcsIs, ThreadsAre
<1>4. mq2[p] = Tail(mq[p]) /\ \A o \in Proc : o # p => mq2[o] = mq[o]
  BY <1>1 DEF TypeOK
<1>5. /\ ThreadsRouted(tb2) /\ KeptRouted(bf2)
      /\ \A a, b \in Node : AtReceiver(tb2, bf2, a, b) = AtReceiver(tbox, bufmsg, a, b) ++ One(m, a, b)
  BY <1>1, <1>2, RouterRouted
<1>6. QueuesRouted(mq2)
  BY <1>1, <1>2, <1>4 DEF RoutesOK, QueuesRouted
<1>7. RoutesOK'
  BY <1>1, <1>5, <1>6 DEF RoutesOK
<1>8. Carry(tbox, bufmsg, mq, inbox) /\ Carry(tb2, bf2, mq2, inbox)
  BY <1>1, CarryNow
<1>9. ASSUME NEW a \in Node, NEW b \in Node PROVE InTransit(a, b)' = InTransit(a, b)
  <2>1. AtReceiver(tb2, bf2, a, b) = AtReceiver(tbox, bufmsg, a, b) ++ One(m, a, b)
    BY <1>5
  <2>2. Route(tb2, bf2, mq2, inbox, a, b) = Route(tbox, bufmsg, mq, inbox, a, b)
    BY <1>2, <1>3, <1>4, <1>8, <2>1, RouteDeliver
  <2>3. InTransit(a, b)' = Route(tb2, bf2, mq2, inbox, a, b)
    BY <1>1, RouteIs
  <2> QED
    BY <1>1, <2>2, <2>3, RouteIs
<1> QED
  BY <1>7, <1>9, NetSame DEF NetNext

LEMMA ForwardNet ==
  ASSUME TypeOK, TypeOK', RoutesOK, NEW p \in Proc, msg_queue[p] # << >>,
         DstProcs(Head(msg_queue[p]).dst) # p, InterProcsSend(p, DstProcs(Head(msg_queue[p]).dst))
  PROVE  RoutesOK' /\ NetNext
<1>1. PICK m, mq, in, mq2, in2, q : /\ m = Head(msg_queue[p]) /\ mq = msg_queue /\ in = inbox
                                    /\ mq2 = msg_queue' /\ in2 = inbox' /\ q = DstProcs(m.dst)
  OBVIOUS
<1>2. m \in Queued(p) /\ m \in Message /\ m \in Paired /\ mq[p] # << >> /\ m = Head(mq[p]) /\ Tail(mq[p]) \in Seq(Queued(p))
  BY <1>1, QueueRouted
<1>3. q \in Proc /\ q # p /\ p \in Node /\ p \notin Thread
  <2>1. m.dst \in Node
    BY <1>2 DEF Message
  <2> QED
    BY <1>1, <2>1, DstProcsIs
<1>4. /\ in2 = [in EXCEPT ![q][p] = Append(@, m)] /\ mq2 = [mq EXCEPT ![p] = Tail(@)] /\ UNCHANGED <<bufmsg, tbox>>
  BY <1>1 DEF InterProcsSend
<1>5. mq \in [Proc -> Seq(Message)] /\ in \in [Proc -> [Node -> Seq(Message)]]
  BY <1>1 DEF TypeOK
<1>6. mq2[p] = Tail(mq[p]) /\ \A o \in Proc : o # p => mq2[o] = mq[o]
  BY <1>4, <1>5
<1>7. in2[q][p] = Append(in[q][p], m) /\ \A o \in Proc, e \in Node : ~(o = q /\ e = p) => in2[o][e] = in[o][e]
  <2>1. PICK s : s = Append(in[q][p], m)
    OBVIOUS
  <2>2. in2 = [in EXCEPT ![q] = [in[q] EXCEPT ![p] = s]]
    BY <1>4, <2>1
  <2> QED
    BY <1>3, <1>5, <2>1, <2>2
<1>8. m \in Sent(q, p)
  BY <1>1, <1>2, <1>3 DEF Sent, Queued
<1>9. Append(in[q][p], m) \in Seq(Sent(q, p))
  <2>1. in[q][p] \in Seq(Sent(q, p))
    BY <1>1, <1>3 DEF RoutesOK, LinksRouted
  <2> QED
    BY <1>8, <2>1, AppendProperties
<1>10. QueuesRouted(mq2) /\ LinksRouted(in2)
  BY <1>1, <1>2, <1>6, <1>7, <1>9 DEF RoutesOK, QueuesRouted, LinksRouted
<1>11. RoutesOK'
  BY <1>1, <1>4, <1>10 DEF RoutesOK
<1>12. Carry(tbox, bufmsg, mq, in) /\ Carry(tbox, bufmsg, mq2, in2)
  BY <1>1, <1>4, CarryNow
<1>13. ASSUME NEW a \in Node, NEW b \in Node PROVE InTransit(a, b)' = InTransit(a, b)
  <2>1. Route(tbox, bufmsg, mq2, in2, a, b) = Route(tbox, bufmsg, mq, in, a, b)
    <3>1. Forwards(p, q, m, mq, in, mq2, in2)
      BY <1>1, <1>2, <1>3, <1>6, <1>7 DEF Forwards
    <3> QED
      BY <1>2, <1>12, <3>1, RouteForward
  <2>2. InTransit(a, b)' = Route(tbox, bufmsg, mq2, in2, a, b)
    BY <1>1, <1>4, RouteIs
  <2> QED
    BY <1>1, <2>1, <2>2, RouteIs
<1> QED
  BY <1>11, <1>13, NetSame DEF NetNext

LEMMA PollNet ==
  ASSUME TypeOK, TypeOK', ProcsOK, RoutesOK, NEW p \in Proc, PollTimeout(p)
  PROVE  RoutesOK' /\ NetNext
<1>1. CASE UNCHANGED vars
  <2>1. UNCHANGED <<tbox, bufmsg, msg_queue, inbox>>
    BY <1>1 DEF vars, stubVars
  <2>2. \A a, b \in Node : InTransit(a, b)' = InTransit(a, b)
    BY <2>1, RouteIs
  <2> QED
    BY <2>1, <2>2, NetSame DEF RoutesOK, NetNext
<1>2. CASE ~UNCHANGED vars /\ left[p].servers = 0
  <2>1. UNCHANGED <<tbox, bufmsg, msg_queue, inbox>>
    BY <1>2 DEF PollTimeout
  <2>2. \A a, b \in Node : InTransit(a, b)' = InTransit(a, b)
    BY <2>1, RouteIs
  <2> QED
    BY <2>1, <2>2, NetSame DEF RoutesOK, NetNext
<1>3. CASE ~UNCHANGED vars /\ left[p].servers # 0
  <2> DEFINE s == SetToSeq(ThreadsOf(p) \cap Server)[1 + sync_server_id[p]]
  <2>1. /\ msg_queue[p] = << >>
        /\ RouterSend(p, Msg("kSyncReminder", p, s, <<p, reminders[p]>>))
        /\ UNCHANGED <<msg_queue, inbox>>
    BY <1>3 DEF PollTimeout
  <2>2. reminders[p] \in Nat /\ p \in Node /\ p \notin Thread
    BY DstProcsIs DEF TypeOK
  <2>3. s \in ThreadsOf(p)
    BY <1>3, ReminderTo
  <2> HIDE DEF s
  <2>4. s \in Thread /\ s \in Node
    BY <2>3, ThreadsAre, DstProcsIs
  <2>5. PICK m, tb2, bf2 : m = Msg("kSyncReminder", p, s, <<p, reminders[p]>>) /\ tb2 = tbox' /\ bf2 = bufmsg'
    OBVIOUS
  <2>6. m \in Message /\ m.src = p /\ m.dst = s
    <3>1. <<p, reminders[p]>> \in Node \X Nat
      BY <2>2
    <3> QED
      BY <2>2, <2>4, <2>5, <3>1, MessageIs
  <2>7. m \in Paired /\ m.dst \in ThreadsOf(p) /\ RouterSend(p, m) /\ m.dst # p
    BY <2>1, <2>2, <2>3, <2>4, <2>5, <2>6 DEF Paired
  <2>8. /\ ThreadsRouted(tb2) /\ KeptRouted(bf2)
        /\ \A a, b \in Node : AtReceiver(tb2, bf2, a, b) = AtReceiver(tbox, bufmsg, a, b) ++ One(m, a, b)
    BY <2>5, <2>7, RouterRouted
  <2>9. RoutesOK'
    BY <2>1, <2>5, <2>8 DEF RoutesOK
  <2>10. PICK mq, in : mq = msg_queue /\ in = inbox
    OBVIOUS
  <2>11. Carry(tbox, bufmsg, mq, in) /\ Carry(tb2, bf2, mq, in) /\ mq[p] = << >>
    BY <2>1, <2>5, <2>10, CarryNow
  <2>12. ASSUME NEW a \in Node, NEW b \in Node PROVE InTransit(a, b)' = InTransit(a, b) ++ One(m, a, b)
    <3>1. AtReceiver(tb2, bf2, a, b) = AtReceiver(tbox, bufmsg, a, b) ++ One(m, a, b)
      BY <2>8
    <3>2. Route(tb2, bf2, mq, in, a, b) = Route(tbox, bufmsg, mq, in, a, b) ++ One(m, a, b)
      BY <2>6, <2>7, <2>11, <3>1, RouteRemind
    <3>3. InTransit(a, b)' = Route(tb2, bf2, mq, in, a, b)
      BY <2>1, <2>5, <2>10, RouteIs
    <3> QED
      BY <2>10, <3>2, <3>3, RouteIs
  <2>13. NetNext
    BY <2>2, <2>6, <2>7, <2>12, NetSend
  <2> QED
    BY <2>9, <2>13
<1> QED
  BY <1>1, <1>2, <1>3

\* A stub handles the message at the head of its queue and queues new ones.
LEMMA HandleNet ==
  ASSUME TypeOK, TypeOK', RoutesOK, NEW p \in Proc, msg_queue[p] # << >>, Head(msg_queue[p]).dst = p,
         NEW new \in Seq(Queued(p)), FromStub(p, new),
         msg_queue' = [msg_queue EXCEPT ![p] = Tail(@) \o new], UNCHANGED <<tbox, bufmsg, inbox>>
  PROVE  RoutesOK' /\ NetNext
<1>1. PICK m, mq, mq2 : m = Head(msg_queue[p]) /\ mq = msg_queue /\ mq2 = msg_queue'
  OBVIOUS
<1>2. m \in Message /\ mq[p] # << >> /\ m = Head(mq[p]) /\ m.dst = p /\ Tail(mq[p]) \in Seq(Queued(p)) /\ p \in Node
  BY <1>1, QueueRouted, DstProcsIs
<1>3. mq2[p] = Tail(mq[p]) \o new /\ \A o \in Proc : o # p => mq2[o] = mq[o]
  BY <1>1 DEF TypeOK
<1>4. Tail(mq[p]) \o new \in Seq(Queued(p))
  BY <1>2, ConcatProperties
<1>5. QueuesRouted(mq2)
  BY <1>1, <1>3, <1>4 DEF RoutesOK, QueuesRouted
<1>6. RoutesOK'
  BY <1>1, <1>5 DEF RoutesOK
<1>7. Carry(tbox, bufmsg, mq, inbox) /\ Carry(tbox, bufmsg, mq2, inbox)
  BY <1>1, CarryNow
<1>8. \A a, b \in Node : /\ InTransit(a, b) = Route(tbox, bufmsg, mq, inbox, a, b)
                         /\ InTransit(a, b)' = Route(tbox, bufmsg, mq2, inbox, a, b)
  BY <1>1, RouteIs
<1>9. Handles(p, m, new, mq, mq2)
  BY <1>2, <1>3 DEF Handles
<1>10. ASSUME NEW a \in Node PROVE InTransit(a, p) = One(m, a, p) ++ InTransit(a, p)'
  <2>1. Route(tbox, bufmsg, mq, inbox, a, p) = One(m, a, p) ++ Route(tbox, bufmsg, mq2, inbox, a, p)
    BY <1>7, <1>9, RouteHandled
  <2> QED
    BY <1>2, <1>8, <2>1
<1>11. ASSUME NEW a \in Node, NEW b \in Node \ {p} PROVE Longer(p, a, b, InTransit(a, b), InTransit(a, b)')
  <2>1. /\ Between(new, a, b) \in Seq(Message)
        /\ a # p => Between(new, a, b) = << >>
        /\ Route(tbox, bufmsg, mq2, inbox, a, b) = Route(tbox, bufmsg, mq, inbox, a, b) ++ Between(new, a, b)
    BY <1>7, <1>9, RouteQueued
  <2>2. InTransit(a, b)' = InTransit(a, b) ++ Between(new, a, b)
    BY <1>8, <2>1
  <2> QED
    BY <2>1, <2>2 DEF Longer
<1>12. NetNext
  BY <1>2, <1>10, <1>11, NetHandle
<1> QED
  BY <1>6, <1>12

LEMMA StubStopNet ==
  ASSUME TypeOK, TypeOK', RoutesOK, NEW p \in Proc, msg_queue[p] # << >>, Head(msg_queue[p]).dst = p, StubStop(p)
  PROVE  RoutesOK' /\ NetNext
<1>1. msg_queue' = [msg_queue EXCEPT ![p] = Tail(@)] /\ UNCHANGED <<tbox, bufmsg, inbox>>
  BY DEF StubStop
<1>2. PICK new : new = << >>
  OBVIOUS
<1>3. new \in Seq(Queued(p)) /\ FromStub(p, new)
  <2>1. << >> \in Seq(Message) /\ Len(<< >>) = 0 /\ << >> \in Seq(Queued(p))
    OBVIOUS
  <2> QED
    BY <1>2, <2>1 DEF FromStub
<1>4. PICK t : t = Tail(msg_queue[p])
  OBVIOUS
<1>5. t \in Seq(Queued(p))
  BY <1>4, QueueRouted
<1>6. t \o new = t
  BY <1>2, <1>5, ConcatEmptySeq
<1>7. msg_queue' = [msg_queue EXCEPT ![p] = Tail(@) \o new]
  BY <1>1, <1>4, <1>6
<1> QED
  BY <1>1, <1>3, <1>7, HandleNet

LEMMA LocalNet ==
  ASSUME TypeOK, TypeOK', RoutesOK, NEW p \in Proc, msg_queue[p] # << >>, Head(msg_queue[p]).dst = p, HandleLocalMsg(p)
  PROVE  RoutesOK' /\ NetNext
<1> DEFINE m == Head(msg_queue[p])
           S == ServersOf(m.n[1])
           n == Cardinality(S)
           new == IF m.type = "kUpdate"
                  THEN [i \in 1..n |-> Msg("kUpdate", p, SetToSeq(S)[i], m.n)]
                  ELSE << >>
<1>1. msg_queue' = [msg_queue EXCEPT ![p] = Tail(@) \o new] /\ UNCHANGED <<tbox, bufmsg, inbox>>
  BY DEF HandleLocalMsg
<1>2. m \in Message /\ p \in Node /\ DstProcs(p) = p
  BY QueueRouted, DstProcsIs
<1>3. SetToSeq(S) \in [1..n -> S] /\ n \in Nat /\ S \subseteq Server
  BY ServersFinite, SetSequence
<1> HIDE DEF S
<1>4. new \in Seq(Queued(p)) /\ FromStub(p, new)
  <2>1. CASE m.type = "kUpdate"
    <3> DEFINE msg(i) == Msg("kUpdate", p, SetToSeq(S)[i], m.n)
    <3>1. ASSUME NEW i \in 1..n
          PROVE  msg(i) \in Queued(p) /\ msg(i) \in Message /\ msg(i).src = p /\ msg(i).dst \in Thread
      <4>1. SetToSeq(S)[i] \in Thread /\ SetToSeq(S)[i] \in Node /\ m.n \in Node \X Nat
        BY <1>2, <1>3 DEF Node, Thread, Message
      <4>2. msg(i) \in Message /\ msg(i).src = p /\ msg(i).dst \in Thread
        BY <1>2, <4>1, MessageIs
      <4> HIDE DEF msg
      <4> QED
        BY <1>2, <4>2 DEF Queued, Paired
    <3>2. new = [i \in 1..n |-> msg(i)]
      BY <2>1
    <3> HIDE DEF msg, new
    <3>3. /\ new \in [1..n -> Queued(p)] /\ new \in [1..n -> Message]
          /\ \A i \in 1..n : new[i].src = p /\ new[i].dst \in Thread
      BY <3>1, <3>2
    <3>4. new \in Seq(Queued(p)) /\ new \in Seq(Message) /\ Len(new) = n
      BY <1>3, <3>3
    <3> QED
      BY <3>3, <3>4 DEF FromStub
  <2>2. CASE m.type # "kUpdate"
    <3>1. new = << >>
      BY <2>2
    <3>2. << >> \in Seq(Message) /\ Len(<< >>) = 0 /\ << >> \in Seq(Queued(p))
      OBVIOUS
    <3> HIDE DEF new
    <3> QED
      BY <3>1, <3>2 DEF FromStub
  <2> QED
    BY <2>1, <2>2
<1> HIDE DEF new
<1>5. PICK w : w = new
  OBVIOUS
<1>6. w \in Seq(Queued(p)) /\ FromStub(p, w) /\ msg_queue' = [msg_queue EXCEPT ![p] = Tail(@) \o w]
  BY <1>1, <1>4, <1>5
<1> QED
  BY <1>1, <1>6, HandleNet

LEMMA DispatchNet ==
  ASSUME TypeOK, TypeOK', ProcsOK, RoutesOK, NEW p \in Proc, Dispatch(p)
  PROVE  RoutesOK' /\ NetNext
<1> DEFINE m == Head(msg_queue[p])
<1>1. msg_queue[p] # << >>
  BY DEF Dispatch
<1>2. \/ m.dst = p /\ m.type = "kStop" /\ StubStop(p)
      \/ m.dst = p /\ m.type # "kStop" /\ HandleLocalMsg(p)
      \/ DstProcs(m.dst) # p /\ InterProcsSend(p, DstProcs(m.dst))
      \/ /\ m.dst \in ThreadsOf(p)
         /\ RouterSend(p, m)
         /\ msg_queue' = [msg_queue EXCEPT ![p] = Tail(@)]
         /\ UNCHANGED inbox
  BY DEF Dispatch
<1>3. CASE m.dst = p /\ StubStop(p)
  BY <1>1, <1>3, StubStopNet
<1>4. CASE m.dst = p /\ HandleLocalMsg(p)
  BY <1>1, <1>4, LocalNet
<1>5. CASE DstProcs(m.dst) # p /\ InterProcsSend(p, DstProcs(m.dst))
  BY <1>1, <1>5, ForwardNet
<1>6. CASE /\ m.dst \in ThreadsOf(p)
           /\ RouterSend(p, m)
           /\ msg_queue' = [msg_queue EXCEPT ![p] = Tail(@)]
           /\ UNCHANGED inbox
  BY <1>1, <1>6, DeliverNet
<1> QED
  BY <1>2, <1>3, <1>4, <1>5, <1>6

LEMMA RoutesInit == Init => RoutesOK /\ Net!Init
<1> SUFFICES ASSUME Init PROVE RoutesOK /\ Net!Init
  OBVIOUS
<1>1. \A S : << >> \in Seq(S)
  OBVIOUS
<1>2. /\ \A t \in Thread : tbox[t] = << >>
      /\ \A p \in Proc, t \in Thread : bufmsg[p][t] = << >>
      /\ \A p \in Proc : msg_queue[p] = << >>
      /\ \A p \in Proc, c \in Node : inbox[p][c] = << >>
  BY DEF Init, Node
<1>3. RoutesOK
  BY <1>1, <1>2 DEF RoutesOK, ThreadsRouted, KeptRouted, QueuesRouted, LinksRouted
<1>4. ASSUME NEW a \in Node, NEW b \in Node PROVE InTransit(a, b) = << >>
  <2>1. PICK p, q \in Proc : p = DstProcs(a) /\ q = DstProcs(b)
    BY DstProcsIs
  <2>2. p \in Node
    BY DstProcsIs
  <2>3. << >> ++ << >> = << >> /\ Between(<< >>, a, b) = << >>
    BY Free, BetweenNone
  <2>4. AtReceiver(tbox, bufmsg, a, b) = << >>
    BY <1>2, <2>1, <2>3 DEF AtReceiver
  <2>5. AtStubs(msg_queue, inbox, a, b) = << >>
    BY <1>2, <2>1, <2>2, <2>3 DEF AtStubs
  <2>6. AtSender(inbox, a, b) = << >>
    BY <1>2, <2>1, <2>3 DEF AtSender
  <2>7. Between(msg_queue[DstProcs(b)], a, b) = << >>
    BY <1>2, <2>1, <2>3
  <2>8. Route(tbox, bufmsg, msg_queue, inbox, a, b) = << >>
    BY <2>3, <2>4, <2>5, <2>6, <2>7 DEF Route, Path
  <2> QED
    BY <2>8, RouteIs
<1>5. Net!Init
  BY <1>4 DEF Net!Init, Node
<1> QED
  BY <1>3, <1>5

LEMMA RoutesNext == TypeOK /\ ProcsOK /\ RoutesOK /\ TypeOK' /\ [Next]_vars => RoutesOK' /\ NetNext
<1> SUFFICES ASSUME TypeOK, ProcsOK, RoutesOK, TypeOK', [Next]_vars
             PROVE  RoutesOK' /\ NetNext
  OBVIOUS
<1>1. ASSUME NEW p \in Proc, Stub(p) \/ PollTimeout(p)
      PROVE  RoutesOK' /\ NetNext
  <2>1. ASSUME NEW c \in Node, RouterReceive(p, c)
        PROVE  RoutesOK' /\ NetNext
    BY <2>1, ReceiveNet DEF Node
  <2> QED
    BY <1>1, <2>1, StartNet, DispatchNet, PollNet DEF Stub
<1>2. ASSUME NEW w \in Worker, WorkerThread(w)
      PROVE  RoutesOK' /\ NetNext
  <2>1. w \in Thread /\ w \in Node
    BY DEF Thread, Node
  <2>2. CASE WorkerStop(w)
    <3>1. PICK o : o = <<w, MaxRequest[w]>>
      OBVIOUS
    <3>2. o \in Node \X Nat
      BY <2>1, <3>1, TransportAssumption
    <3>3. DealerSend(w, Msg("kStop", w, procOf[w], o)) /\ UNCHANGED <<stubVars, tbox>>
      BY <2>2, <3>1 DEF WorkerStop
    <3> QED
      BY <2>1, <3>2, <3>3, StopNet
  <2>3. CASE WorkerLeave(w)
    <3>1. UNCHANGED <<tbox, bufmsg, msg_queue, inbox>>
      BY <2>3 DEF WorkerLeave, stubVars
    <3>2. \A a, b \in Node : InTransit(a, b)' = InTransit(a, b)
      BY <3>1, RouteIs
    <3> QED
      BY <3>1, <3>2, NetSame DEF RoutesOK, NetNext
  <2> QED
    BY <1>2, <2>1, <2>2, <2>3, ConnectNet, RequestNet DEF WorkerThread
<1>3. ASSUME NEW s \in Server, ServerThread(s)
      PROVE  RoutesOK' /\ NetNext
  <2>1. s \in Thread /\ s \in Node
    BY DEF Thread, Node
  <2>2. CASE ServerStop(s)
    <3>1. PICK o : o = <<s, 0>>
      OBVIOUS
    <3>2. o \in Node \X Nat
      BY <2>1, <3>1
    <3>3. DealerSend(s, Msg("kStop", s, procOf[s], o)) /\ UNCHANGED <<stubVars, tbox>>
      BY <2>2, <3>1 DEF ServerStop
    <3> QED
      BY <2>1, <3>2, <3>3, StopNet
  <2> QED
    BY <1>3, <2>1, <2>2, ConnectNet, ReplyNet DEF ServerThread
<1>4. CASE UNCHANGED vars
  <2>1. UNCHANGED <<tbox, bufmsg, msg_queue, inbox>>
    BY <1>4 DEF vars, stubVars
  <2>2. \A a, b \in Node : InTransit(a, b)' = InTransit(a, b)
    BY <2>1, RouteIs
  <2> QED
    BY <2>1, <2>2, NetSame DEF RoutesOK, NetNext
<1> QED
  BY <1>1, <1>2, <1>3, <1>4 DEF Next

\* For any processes, threads and requests and any size of the router's buffer:
\* dealers, queues, the router and its buffer implement one FIFO channel between
\* any two threads or stubs; no message is lost, duplicated or overtaken on its
\* way (Router::Send and Receive, Dealer, Trainer::Run).
THEOREM TransportImplementsFifoNet == Spec => ImplementsFifoNet
<1>1. Spec => Init /\ [][Next]_vars
  BY PTL DEF Spec
<1>2. Spec => [](TypeOK /\ ProcsOK)
  BY TransportInv
<1>3. Init => RoutesOK /\ Net!Init
  BY RoutesInit
<1>4. TypeOK /\ ProcsOK /\ RoutesOK /\ (TypeOK /\ ProcsOK)' /\ [Next]_vars
      => RoutesOK' /\ [Net!Next]_([a \in Node |-> [b \in Node |-> InTransit(a, b)]])
  BY RoutesNext DEF NetNext
<1> QED
  BY <1>1, <1>2, <1>3, <1>4, PTL DEF ImplementsFifoNet, Net!Spec
=============================================================================
