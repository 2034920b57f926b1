-------------------------- MODULE WebServerProofs ---------------------------
(***************************************************************************)
(* Proofs about the web server (WebServer) and the inference worker behind *)
(* it, for any numbers of jobs, lines, pictures and other requests: the    *)
(* log of a submitted job is what polls replied until a log is uploaded    *)
(* under its id, these reply every line once and in order, and the answer  *)
(* to a picture is not older than the one before the last that was         *)
(* answered.                                                               *)
(***************************************************************************)
EXTENDS WebServer, SequenceTheorems, FiniteSetTheorems, TLAPS

Record == (0..MaxId) \X Nat

TypeOK ==
  /\ joblist \in [Ids -> [kind : {"absent", "run", "log"}, recs : Seq(Record), idx : Nat]]
  /\ folder \in [Ids -> Seq(Record)] /\ replied \in [Ids -> Seq(Record)]
  /\ job \in [Ids -> [kind : {"none", "train", "test", "ended"}, printed : Nat, unread : Nat]]
  /\ vis \in SUBSET Ids
  /\ web \in [pc : {"idle", "poll", "open", "write", "wait", "read"}, id : 0..MaxId, delay : Int]

-----------------------------------------------------------------------------
\* Nobody reads lines that are not there, and a job that has not started
\* has none.
Pipes ==
  \A id \in Ids : /\ job[id].unread <= job[id].printed
                  /\ job[id].kind = "none" => job[id].printed = 0 /\ job[id].unread = 0

\* A poll that waits for a line is about a job in Joblist: the thread serves no
\* other request before.
Polled == web.pc = "poll" => web.id \in Ids /\ joblist[web.id].kind = "run"

LinesOf(q, id) == {i \in 1..Len(q) : q[i][1] = id /\ q[i][2] > 0}

\* The lines of job id in q are 1 to k, in this order.
InOrder(q, id, k) ==
  /\ {q[i][2] : i \in LinesOf(q, id)} = 1..k
  /\ \A i, j \in LinesOf(q, id) : i < j => q[i][2] < q[j][2]

\* What the entry e of job id in Joblist, its log file f, what polls have replied
\* of it, r, and the job b are to each other.
LogOf(e, f, r, b, id) ==
  /\ InOrder(r, id, b.printed - b.unread)
  /\ IF e.kind = "run" THEN f = r /\ e.recs = r ELSE f = NoFolder
  /\ b.kind = "none" => e.kind # "run" /\ r = << >>

LogInv ==
  /\ TypeOK /\ Pipes /\ Polled
  /\ \A id \in Ids : LogOf(joblist[id], folder[id], replied[id], job[id], id)

-----------------------------------------------------------------------------
\* The server is busy with a picture.
Busy == web.pc \in {"open", "write", "wait", "read"}

\* One worker at most has been started.
Single == \A v, w \in Worker : ~At(v, "off") /\ ~At(w, "off") => v = w

FileType ==
  /\ web.pc \in {"idle", "poll", "open", "write", "wait", "read"}
  /\ web = [pc |-> web.pc, id |-> web.id, delay |-> web.delay]
  /\ input \in Int /\ output \in Int /\ uploads \in Nat
  /\ worker \in [Worker -> [pc : {"off", "flag", "input", "open", "write", "stopped", "dead"},
                            x : Int \ {None}, linked : BOOLEAN]]
  /\ answer \in [shown : Int, to : Nat, before : Nat]

\* input.dat is the last picture, or the one before until it is opened for the
\* last, and output.dat is there when it is read.
Files ==
  /\ answer.to <= uploads
  /\ input > 0 => input >= IF web.pc = "open" THEN uploads - 1 ELSE uploads
  /\ web.pc = "read" => output # None

\* What one worker holds.  Since the last reply it has opened output.dat once
\* more, and has read input.dat before that.
Held ==
  Single =>
    /\ Busy /\ output > 0 => output >= answer.to - 1
    /\ \A w \in Worker :
         /\ At(w, "open") /\ worker[w].x > 0 => worker[w].x >= answer.to - 1
         /\ At(w, "open") /\ worker[w].x > 0 /\ Busy /\ output # None
              => worker[w].x >= uploads - 1
         /\ At(w, "write") /\ worker[w].linked /\ worker[w].x > 0 /\ Busy
              => worker[w].x >= answer.to - 1

AnswerInv ==
  /\ FileType /\ Files /\ Held
  /\ Single /\ answer.shown > 0 => answer.before - 1 <= answer.shown

-----------------------------------------------------------------------------
(***************************************************************************)
(* Records and lines.                                                      *)
(***************************************************************************)
LEMMA InvIs ==
  ASSUME LogInv
  PROVE  LogIsKept /\ EachLineOnce
<1>1. \A id \in Ids : replied[id] \in Seq(Record)
  BY DEF LogInv, TypeOK
<1>2. \A id \in Ids : DOMAIN replied[id] = 1..Len(replied[id])
  BY <1>1, LenProperties
<1>3. \A id \in Ids : Lines(id) = LinesOf(replied[id], id)
  BY <1>2 DEF Lines, LinesOf
<1>4. EachLineOnce
  BY <1>3 DEF EachLineOnce, InOrder, LogInv, LogOf
<1> QED
  BY <1>4 DEF LogIsKept, LogInv, LogOf

LEMMA RecordAt ==
  ASSUME NEW q \in Seq(Record)
  PROVE  Len(q) \in Nat /\ \A i \in 1..Len(q) : q[i] \in Record /\ q[i][1] \in 0..MaxId /\ q[i][2] \in Nat
<1>1. Len(q) \in Nat /\ \A i \in 1..Len(q) : q[i] \in Record
  BY ElementOfSeq, LenProperties
<1> QED
  BY <1>1 DEF Record

LEMMA InOrderEmpty == \A id : InOrder(<<>>, id, 0)
<1>1. \A id : LinesOf(<<>>, id) = {}
  BY DEF LinesOf
<1>2. 1..0 = {}
  OBVIOUS
<1> QED
  BY <1>1, <1>2 DEF InOrder

\* Images do not touch the lines.
LEMMA InOrderImages ==
  ASSUME NEW q \in Seq(Record), NEW c \in Seq(Record), \A n \in 1..Len(c) : c[n][2] = 0,
         NEW id, NEW k \in Nat, InOrder(q, id, k)
  PROVE  InOrder(q \o c, id, k)
<1> DEFINE r == q \o c
<1>1. /\ Len(q) \in Nat /\ Len(c) \in Nat /\ Len(r) = Len(q) + Len(c)
      /\ \A i \in 1..Len(r) : r[i] = IF i <= Len(q) THEN q[i] ELSE c[i - Len(q)]
  BY ConcatProperties, LenProperties
<1> HIDE DEF r
<1>2. \A i \in 1..Len(r) : IF i <= Len(q) THEN i \in 1..Len(q) /\ r[i] = q[i] ELSE r[i][2] = 0
  <2> SUFFICES ASSUME NEW i \in 1..Len(r)
      PROVE  IF i <= Len(q) THEN i \in 1..Len(q) /\ r[i] = q[i] ELSE r[i][2] = 0
    OBVIOUS
  <2>1. CASE i <= Len(q)
    BY <1>1, <2>1
  <2>2. CASE ~(i <= Len(q))
    <3>1. i - Len(q) \in 1..Len(c)
      BY <1>1, <2>2
    <3> QED
      BY <1>1, <2>2, <3>1
  <2> QED
    BY <2>1, <2>2
<1>3. \A i \in 1..Len(q) : i \in 1..Len(r) /\ r[i] = q[i]
  BY <1>1
<1>4. LinesOf(r, id) = LinesOf(q, id)
  BY <1>2, <1>3 DEF LinesOf
<1>5. \A i \in LinesOf(q, id) : r[i] = q[i]
  BY <1>3 DEF LinesOf
<1>6. {r[i][2] : i \in LinesOf(r, id)} = {q[i][2] : i \in LinesOf(q, id)}
  BY <1>4, <1>5
<1>7. {r[i][2] : i \in LinesOf(r, id)} = 1..k
  BY <1>6 DEF InOrder
<1>8. \A i, j \in LinesOf(r, id) : i < j => r[i][2] < r[j][2]
  BY <1>4, <1>5, Zenon DEF InOrder
<1>9. InOrder(r, id, k)
  BY <1>7, <1>8, Zenon DEF InOrder
<1> QED
  BY <1>9 DEF r

\* A line more.
LEMMA InOrderLine ==
  ASSUME NEW q \in Seq(Record), NEW id \in Ids, NEW k \in Nat, InOrder(q, id, k)
  PROVE  InOrder(q \o <<Line(id, k + 1)>>, id, k + 1)
<1> DEFINE e == Line(id, k + 1)
           r == q \o <<e>>
           n == Len(q) + 1
<1>0. e \in Record /\ e[1] = id /\ e[2] = k + 1
  BY WebAssumption DEF Line, Record, Ids
<1> HIDE DEF e
<1>1. /\ Len(q) \in Nat /\ Len(r) = n /\ r[n] = e
      /\ \A i \in 1..Len(q) : r[i] = q[i]
  <2>1. <<e>> \in Seq(Record) /\ Len(<<e>>) = 1 /\ <<e>>[1] = e
    BY <1>0
  <2>2. /\ Len(q) \in Nat /\ Len(r) = Len(q) + 1
        /\ \A i \in 1..Len(r) : r[i] = IF i <= Len(q) THEN q[i] ELSE <<e>>[i - Len(q)]
    BY <2>1, ConcatProperties, LenProperties
  <2> HIDE DEF r
  <2>3. \A i \in 1..Len(q) : r[i] = q[i]
    BY <2>2
  <2>4. n \in 1..Len(r) /\ ~(n <= Len(q)) /\ n - Len(q) = 1
    BY <2>2
  <2>5. r[n] = <<e>>[1]
    BY <2>2, <2>4
  <2> QED
    BY <2>1, <2>2, <2>3, <2>5
<1> HIDE DEF r
<1>2. \A i \in 1..Len(r) : i \in 1..Len(q) \/ i = n
  BY <1>1
<1>3. n \in 1..Len(r) /\ \A i \in 1..Len(q) : i \in 1..Len(r) /\ i < n
  BY <1>1
<1> HIDE DEF n
<1>4. LinesOf(r, id) = LinesOf(q, id) \cup {n}
  <2>1. k + 1 > 0
    OBVIOUS
  <2> QED
    BY <1>0, <1>1, <1>2, <1>3, <2>1 DEF LinesOf
<1>5. \A i \in LinesOf(q, id) : r[i] = q[i] /\ i < n /\ i \in Nat /\ q[i][2] \in 1..k
  BY <1>1, <1>3 DEF LinesOf, InOrder
<1>6. {r[i][2] : i \in LinesOf(r, id)} = 1..(k + 1)
  <2>1. {r[i][2] : i \in LinesOf(r, id)} = {q[i][2] : i \in LinesOf(q, id)} \cup {k + 1}
    BY <1>0, <1>1, <1>4, <1>5
  <2>2. (1..k) \cup {k + 1} = 1..(k + 1)
    OBVIOUS
  <2> QED
    BY <2>1, <2>2 DEF InOrder
<1>7. \A i, j \in LinesOf(r, id) : i < j => r[i][2] < r[j][2]
  <2> SUFFICES ASSUME NEW i \in LinesOf(r, id), NEW j \in LinesOf(r, id), i < j
      PROVE  r[i][2] < r[j][2]
    OBVIOUS
  <2>0. n \in Nat
    BY <1>1 DEF n
  <2>1. i \in LinesOf(q, id)
    BY <1>4, <1>5, <2>0
  <2>2. CASE j \in LinesOf(q, id)
    BY <1>5, <2>1, <2>2 DEF InOrder
  <2>3. CASE j = n
    BY <1>0, <1>1, <1>5, <2>1, <2>3
  <2> QED
    BY <1>4, <2>2, <2>3
<1> QED
  BY <1>6, <1>7 DEF InOrder, r, e

-----------------------------------------------------------------------------
(***************************************************************************)
(* The log of a job.                                                       *)
(***************************************************************************)
WebType == [pc : {"idle", "poll", "open", "write", "wait", "read"}, id : 0..MaxId, delay : Int]

LEMMA IdleIs == Idle \in WebType /\ Idle.pc = "idle"
  BY WebAssumption DEF Idle, WebType

\* Steps that leave jobs, entries and logs alone.
LEMMA LogQuiet ==
  ASSUME LogInv, UNCHANGED <<joblist, folder, replied, job>>, vis' \in SUBSET Ids,
         web' \in WebType, web'.pc = "poll" => web'.id \in Ids /\ joblist[web'.id].kind = "run"
  PROVE  LogInv'
<1>1. TypeOK'
  BY DEF LogInv, TypeOK, WebType
<1>2. Pipes' /\ Polled'
  BY DEF LogInv, Pipes, Polled
<1>3. \A id \in Ids : LogOf(joblist[id], folder[id], replied[id], job[id], id)'
  BY DEF LogInv
<1> QED
  BY <1>1, <1>2, <1>3 DEF LogInv

\* Steps of one job.
LEMMA LogOne ==
  ASSUME LogInv, NEW id \in Ids, NEW e, NEW f, NEW r, NEW b,
         joblist' = [joblist EXCEPT ![id] = e], folder' = [folder EXCEPT ![id] = f],
         replied' = [replied EXCEPT ![id] = r], job' = [job EXCEPT ![id] = b],
         e \in [kind : {"absent", "run", "log"}, recs : Seq(Record), idx : Nat],
         f \in Seq(Record), r \in Seq(Record),
         b \in [kind : {"none", "train", "test", "ended"}, printed : Nat, unread : Nat],
         b.unread <= b.printed, b.kind = "none" => b.printed = 0 /\ b.unread = 0,
         LogOf(e, f, r, b, id), vis' \in SUBSET Ids, web' \in WebType,
         web'.pc = "poll" => web' = web /\ e.kind = joblist[id].kind
  PROVE  LogInv'
<1>0. TypeOK
  BY DEF LogInv
<1>1. /\ joblist'[id] = e /\ folder'[id] = f /\ replied'[id] = r /\ job'[id] = b
      /\ \A i \in Ids \ {id} : /\ joblist'[i] = joblist[i] /\ folder'[i] = folder[i]
                               /\ replied'[i] = replied[i] /\ job'[i] = job[i]
  BY <1>0 DEF TypeOK
<1>2. TypeOK'
  BY <1>0 DEF TypeOK, WebType
<1>3. Pipes'
  BY <1>1 DEF LogInv, Pipes
<1>4. Polled'
  BY <1>1 DEF LogInv, Polled
<1>5. ASSUME NEW i \in Ids
      PROVE  LogOf(joblist'[i], folder'[i], replied'[i], job'[i], i)
  <2>1. CASE i = id
    BY <1>1, <2>1
  <2>2. CASE i # id
    BY <1>1, <2>2 DEF LogInv
  <2> QED
    BY <2>1, <2>2
<1> QED
  BY <1>2, <1>3, <1>4, <1>5 DEF LogInv

\* An entry that is not changed, and the same for logs and jobs.
LEMMA Same ==
  ASSUME TypeOK, NEW id \in Ids
  PROVE  /\ joblist = [joblist EXCEPT ![id] = joblist[id]]
         /\ folder = [folder EXCEPT ![id] = folder[id]]
         /\ replied = [replied EXCEPT ![id] = replied[id]] /\ replied[id] \in Seq(Record)
         /\ job = [job EXCEPT ![id] = job[id]]
         /\ joblist[id] \in [kind : {"absent", "run", "log"}, recs : Seq(Record), idx : Nat]
         /\ folder[id] \in Seq(Record)
         /\ job[id] \in [kind : {"none", "train", "test", "ended"}, printed : Nat, unread : Nat]
         /\ web \in WebType /\ vis \in SUBSET Ids
  BY DEF TypeOK, WebType

LEMMA LogEnter ==
  ASSUME LogInv, NEW id \in Ids, NEW kind \in {"train", "test"}, Enter(id, kind),
         web = Idle, UNCHANGED <<web, replied>>, vis' \in SUBSET Ids
  PROVE  LogInv'
<1> DEFINE b == [job[id] EXCEPT !.kind = kind]
           e == [kind |-> "run", recs |-> << >>, idx |-> 0]
<1>0. TypeOK
  BY DEF LogInv
<1>1. job[id].printed = 0 /\ job[id].unread = 0 /\ job[id].kind = "none"
  BY DEF LogInv, Pipes, Enter
<1>2. /\ job' = [job EXCEPT ![id] = b] /\ b.printed = 0 /\ b.unread = 0 /\ b.kind # "none"
      /\ b \in [kind : {"none", "train", "test", "ended"}, printed : Nat, unread : Nat]
  BY <1>0, <1>1 DEF Enter, TypeOK
<1>3. web' \in WebType /\ web'.pc # "poll"
  BY IdleIs
<1>4. b.unread <= b.printed /\ (b.kind = "none" => b.printed = 0 /\ b.unread = 0)
  BY <1>2
<1>5. /\ replied' = [replied EXCEPT ![id] = replied[id]] /\ replied[id] \in Seq(Record)
      /\ replied[id] = << >> /\ joblist[id].kind # "run"
  BY <1>0, <1>1, Same DEF LogInv, LogOf
<1>6. CASE joblist[id] = Absent
  <2> DEFINE f == << >>
  <2>1. joblist' = [joblist EXCEPT ![id] = e] /\ folder' = [folder EXCEPT ![id] = f]
    BY <1>6 DEF Enter
  <2>2. e \in [kind : {"absent", "run", "log"}, recs : Seq(Record), idx : Nat] /\ f \in Seq(Record)
    OBVIOUS
  <2>3. LogOf(e, f, replied[id], b, id)
    BY <1>2, <1>5, InOrderEmpty DEF LogOf
  <2> HIDE DEF e, f, b
  <2> QED
    BY <1>2, <1>3, <1>4, <1>5, <2>1, <2>2, <2>3, LogOne, Zenon
<1>7. CASE joblist[id] # Absent
  <2>1. UNCHANGED <<joblist, folder>>
    BY <1>7 DEF Enter
  <2>2. LogOf(joblist[id], folder[id], replied[id], job[id], id)
    BY DEF LogInv
  <2>3. LogOf(joblist[id], folder[id], replied[id], b, id)
    BY <1>1, <1>2, <2>2 DEF LogOf
  <2> HIDE DEF b
  <2>4. /\ joblist' = [joblist EXCEPT ![id] = joblist[id]] /\ folder' = [folder EXCEPT ![id] = folder[id]]
        /\ joblist[id] \in [kind : {"absent", "run", "log"}, recs : Seq(Record), idx : Nat]
        /\ folder[id] \in Seq(Record)
    BY <1>0, <2>1, Same
  <2> QED
    BY <1>2, <1>3, <1>4, <1>5, <2>3, <2>4, LogOne, Zenon
<1> QED
  BY <1>6, <1>7

LEMMA LogUpload ==
  ASSUME LogInv, NEW id \in Ids, upload(id)
  PROVE  LogInv'
<1> DEFINE e == [kind |-> "log", recs |-> <<Line(id, 1), Line(id, 2)>>, idx |-> 0]
<1>0. TypeOK
  BY DEF LogInv
<1>1. /\ joblist' = [joblist EXCEPT ![id] = e] /\ folder' = [folder EXCEPT ![id] = NoFolder]
  BY DEF upload
<1>9. UNCHANGED <<replied, job, vis, web>> /\ web = Idle
  BY DEF upload
<1>2. Line(id, 1) \in Record /\ Line(id, 2) \in Record /\ <<0, 0>> \in Record
  BY WebAssumption DEF Line, Record, Ids
<1>3. <<Line(id, 1), Line(id, 2)>> \in Seq(Record) /\ NoFolder \in Seq(Record)
  BY <1>2 DEF NoFolder
<1>4. e \in [kind : {"absent", "run", "log"}, recs : Seq(Record), idx : Nat]
  BY <1>3
<1>5. LogOf(e, NoFolder, replied[id], job[id], id)
  BY DEF LogOf, LogInv
<1>6. web' \in WebType /\ web'.pc # "poll" /\ vis' \in SUBSET Ids
  BY <1>0, <1>9, IdleIs, Same
<1>7. /\ job' = [job EXCEPT ![id] = job[id]]
      /\ job[id] \in [kind : {"none", "train", "test", "ended"}, printed : Nat, unread : Nat]
      /\ replied' = [replied EXCEPT ![id] = replied[id]] /\ replied[id] \in Seq(Record)
  BY <1>0, <1>9, Same
<1>8. job[id].unread <= job[id].printed /\ (job[id].kind = "none" => job[id].printed = 0 /\ job[id].unread = 0)
  BY DEF LogInv, Pipes
<1> HIDE DEF e
<1> QED
  BY <1>1, <1>3, <1>4, <1>5, <1>6, <1>7, <1>8, LogOne, Zenon

LEMMA LogRecord ==
  ASSUME LogInv, NEW id \in Ids, get_record(id)
  PROVE  LogInv'
<1> DEFINE e == [joblist[id] EXCEPT !.idx = @ + 1]
<1>0. TypeOK
  BY DEF LogInv
<1>1. joblist' = [joblist EXCEPT ![id] = e]
  BY DEF get_record
<1>9. UNCHANGED <<folder, replied, job, vis, web>> /\ web = Idle
  BY DEF get_record
<1>2. e.kind = "log" /\ e \in [kind : {"absent", "run", "log"}, recs : Seq(Record), idx : Nat]
  <2>1. joblist[id] \in [kind : {"absent", "run", "log"}, recs : Seq(Record), idx : Nat]
    BY <1>0, Same
  <2>2. joblist[id].kind = "log"
    BY DEF get_record
  <2> QED
    BY <2>1, <2>2
<1>3. LogOf(e, folder[id], replied[id], job[id], id)
  <2>1. joblist[id].kind = "log"
    BY DEF get_record
  <2> HIDE DEF e
  <2> QED
    BY <1>2, <2>1 DEF LogOf, LogInv
<1>4. web' \in WebType /\ web'.pc # "poll" /\ vis' \in SUBSET Ids
  BY <1>0, <1>9, IdleIs, Same
<1>5. /\ job' = [job EXCEPT ![id] = job[id]] /\ folder' = [folder EXCEPT ![id] = folder[id]]
      /\ job[id] \in [kind : {"none", "train", "test", "ended"}, printed : Nat, unread : Nat]
      /\ folder[id] \in Seq(Record)
      /\ replied' = [replied EXCEPT ![id] = replied[id]] /\ replied[id] \in Seq(Record)
  BY <1>0, <1>9, Same
<1>6. job[id].unread <= job[id].printed /\ (job[id].kind = "none" => job[id].printed = 0 /\ job[id].unread = 0)
  BY DEF LogInv, Pipes
<1> HIDE DEF e
<1> QED
  BY <1>1, <1>2, <1>3, <1>4, <1>5, <1>6, LogOne, Zenon

\* A job that goes on, prints or ends.
LEMMA LogJob ==
  ASSUME LogInv, NEW id \in Ids, NEW b, job' = [job EXCEPT ![id] = b], UNCHANGED <<joblist, folder, replied, vis, web>>,
         b \in [kind : {"none", "train", "test", "ended"}, printed : Nat, unread : Nat],
         b.kind # "none", b.unread <= b.printed,
         b.printed - b.unread = job[id].printed - job[id].unread
  PROVE  LogInv'
<1>0. TypeOK
  BY DEF LogInv
<1>1. LogOf(joblist[id], folder[id], replied[id], job[id], id)
  BY DEF LogInv
<1>2. LogOf(joblist[id], folder[id], replied[id], b, id)
  BY <1>1 DEF LogOf
<1>3. /\ joblist' = [joblist EXCEPT ![id] = joblist[id]] /\ folder' = [folder EXCEPT ![id] = folder[id]]
      /\ joblist[id] \in [kind : {"absent", "run", "log"}, recs : Seq(Record), idx : Nat]
      /\ folder[id] \in Seq(Record)
      /\ replied' = [replied EXCEPT ![id] = replied[id]] /\ replied[id] \in Seq(Record)
      /\ web' \in WebType /\ vis' \in SUBSET Ids
  BY <1>0, Same
<1> QED
  BY <1>2, <1>3, LogOne

LEMMA Printed ==
  ASSUME NEW j \in [kind : {"none", "train", "test", "ended"}, printed : Nat, unread : Nat]
  PROVE  [j EXCEPT !.printed = @ + 1, !.unread = @ + 1]
           = [kind |-> j.kind, printed |-> j.printed + 1, unread |-> j.unread + 1]
<1> DEFINE k == [j EXCEPT !.printed = j.printed + 1]
           n == j.unread + 1
<1>1. k = [kind |-> j.kind, printed |-> j.printed + 1, unread |-> j.unread]
  OBVIOUS
<1> HIDE DEF k, n
<1>2. [k EXCEPT !.unread = n] = [kind |-> j.kind, printed |-> j.printed + 1, unread |-> n]
  BY <1>1
<1> QED
  BY <1>2 DEF k, n

LEMMA LogJobStep ==
  ASSUME LogInv, NEW id \in Ids, JobStep(id) \/ handle_kill(id)
  PROVE  LogInv'
<1>0. /\ job \in [Ids -> [kind : {"none", "train", "test", "ended"}, printed : Nat, unread : Nat]]
      /\ job[id].unread <= job[id].printed
  BY DEF LogInv, TypeOK, Pipes
<1>1. CASE PrintLine(id)
  <2> DEFINE b == [job[id] EXCEPT !.printed = @ + 1, !.unread = @ + 1]
  <2>1. job' = [job EXCEPT ![id] = b] /\ UNCHANGED <<joblist, folder, replied, vis, web>> /\ job[id].kind = "train"
    BY <1>1 DEF PrintLine
  <2>2. /\ b.printed = job[id].printed + 1 /\ b.unread = job[id].unread + 1 /\ b.kind = "train"
        /\ b \in [kind : {"none", "train", "test", "ended"}, printed : Nat, unread : Nat]
    <3>1. job[id] \in [kind : {"none", "train", "test", "ended"}, printed : Nat, unread : Nat]
      BY <1>0
    <3>2. DOMAIN job[id] = {"kind", "printed", "unread"} /\ job[id].printed \in Nat /\ job[id].unread \in Nat
      BY <3>1
    <3>3. /\ b.printed = job[id].printed + 1 /\ b.unread = job[id].unread + 1 /\ b.kind = "train"
          /\ b = [kind |-> "train", printed |-> job[id].printed + 1, unread |-> job[id].unread + 1]
      BY <2>1, <3>1, Printed
    <3>4. job[id].printed + 1 \in Nat /\ job[id].unread + 1 \in Nat
      BY <3>2
    <3> QED
      BY <3>3, <3>4
  <2> HIDE DEF b
  <2>3. b.unread <= b.printed /\ b.printed - b.unread = job[id].printed - job[id].unread
    BY <1>0, <2>2
  <2> QED
    BY <2>1, <2>2, <2>3, LogJob
<1>2. CASE EndJob(id) \/ handle_kill(id)
  <2> DEFINE b == [job[id] EXCEPT !.kind = "ended"]
  <2>1. job' = [job EXCEPT ![id] = b] /\ UNCHANGED <<joblist, folder, replied, vis, web>>
    BY <1>2 DEF EndJob, handle_kill
  <2>2. /\ b.printed = job[id].printed /\ b.unread = job[id].unread /\ b.kind = "ended"
        /\ b \in [kind : {"none", "train", "test", "ended"}, printed : Nat, unread : Nat]
    BY <1>0
  <2> HIDE DEF b
  <2> QED
    BY <1>0, <2>1, <2>2, LogJob
<1> QED
  BY <1>1, <1>2 DEF JobStep

-----------------------------------------------------------------------------
\* What a poll returns is appended to entry and log.
LEMMA LogKeep ==
  ASSUME LogInv, NEW id \in Ids, NEW c \in Seq(Record), NEW b, joblist[id].kind = "run",
         Keep(id, c), job' = [job EXCEPT ![id] = b],
         b \in [kind : {"none", "train", "test", "ended"}, printed : Nat, unread : Nat],
         b.unread <= b.printed, b.kind # "none",
         InOrder(replied[id] \o c, id, b.printed - b.unread),
         vis' \in SUBSET Ids, web' \in WebType, web'.pc # "poll"
  PROVE  LogInv'
<1> DEFINE e == [joblist[id] EXCEPT !.recs = @ \o c]
           f == folder[id] \o c
           p == replied[id] \o c
<1>0. TypeOK
  BY DEF LogInv
<1>1. /\ joblist' = [joblist EXCEPT ![id] = e] /\ folder' = [folder EXCEPT ![id] = f]
      /\ replied' = [replied EXCEPT ![id] = p]
  BY DEF Keep
<1>2. joblist[id] \in [kind : {"absent", "run", "log"}, recs : Seq(Record), idx : Nat]
  BY <1>0, Same
<1>3. folder[id] = replied[id] /\ joblist[id].recs = replied[id] /\ joblist[id].recs \in Seq(Record)
  BY <1>2 DEF LogInv, LogOf
<1>4. joblist[id].recs \o c \in Seq(Record)
  BY <1>3, ConcatProperties
<1>5. e = [kind |-> "run", recs |-> joblist[id].recs \o c, idx |-> joblist[id].idx]
  <2> DEFINE r == joblist[id].recs \o c
             j == joblist[id]
  <2> HIDE DEF r, j
  <2>1. j \in [kind : {"absent", "run", "log"}, recs : Seq(Record), idx : Nat] /\ j.kind = "run"
    BY <1>2 DEF j
  <2>2. [j EXCEPT !.recs = r] = [kind |-> "run", recs |-> r, idx |-> j.idx]
    BY <2>1
  <2> QED
    BY <2>2 DEF r, j
<1>6. f = p /\ e.recs = p /\ f \in Seq(Record) /\ p \in Seq(Record)
  BY <1>3, <1>4, <1>5
<1>7. e \in [kind : {"absent", "run", "log"}, recs : Seq(Record), idx : Nat]
  BY <1>2, <1>4, <1>5
<1>8. e.kind = "run" /\ InOrder(p, id, b.printed - b.unread)
  BY <1>5
<1> HIDE DEF e, f, p
<1>9. LogOf(e, f, p, b, id)
  BY <1>6, <1>8 DEF LogOf
<1> QED
  BY <1>1, <1>6, <1>7, <1>9, LogOne, Zenon

LEMMA Charts ==
  ASSUME vis \in SUBSET Ids, NEW s \in SetToSeqs(vis), NEW c, c = [n \in DOMAIN s |-> Image(s[n])]
  PROVE  c \in Seq(Record) /\ \A n \in 1..Len(c) : c[n][2] = 0
<1> DEFINE m == Cardinality(vis)
<1>1. m \in Nat
  <2>1. IsFiniteSet(1..MaxId)
    BY WebAssumption, FS_Interval
  <2>2. IsFiniteSet(vis)
    BY <2>1, FS_Subset DEF Ids
  <2> QED
    BY <2>2, FS_CardinalityType
<1>2. s \in [1..m -> vis]
  BY DEF SetToSeqs
<1> HIDE DEF m
<1>3. DOMAIN c = 1..m /\ \A n \in 1..m : c[n] = Image(s[n]) /\ s[n] \in Ids
  BY <1>2
<1>4. \A n \in 1..m : c[n] \in Record /\ c[n][2] = 0
  BY <1>3, WebAssumption DEF Image, Record, Ids
<1>5. c \in [1..m -> Record]
  BY <1>3, <1>4
<1>6. c \in Seq(Record) /\ Len(c) = m
  BY <1>1, <1>5
<1>7. \A n \in 1..Len(c) : c[n][2] = 0
  BY <1>4, <1>6, Zenon
<1> QED
  BY <1>6, <1>7, Zenon

LEMMA LogPoll ==
  ASSUME LogInv, NEW id \in Ids, poll_progress(id)
  PROVE  LogInv'
<1>0. TypeOK /\ joblist[id].kind = "run" /\ web = Idle
  BY DEF LogInv, poll_progress
<1>1. CASE poll_image_record(id)
  <2>1. PICK s \in SetToSeqs(vis) : Keep(id, [n \in DOMAIN s |-> Image(s[n])])
    BY <1>1 DEF poll_image_record
  <2>2. vis' = {} /\ UNCHANGED <<job, web>>
    BY <1>1 DEF poll_image_record
  <2> DEFINE c == [n \in DOMAIN s |-> Image(s[n])]
             q == replied[id]
             k == job[id].printed - job[id].unread
  <2>3. c \in Seq(Record) /\ \A n \in 1..Len(c) : c[n][2] = 0
    BY <1>0, Charts DEF TypeOK
  <2>4. /\ job' = [job EXCEPT ![id] = job[id]]
        /\ job[id] \in [kind : {"none", "train", "test", "ended"}, printed : Nat, unread : Nat]
        /\ replied[id] \in Seq(Record)
    BY <1>0, <2>2, Same
  <2>5. job[id].unread <= job[id].printed /\ job[id].kind # "none"
    BY <1>0 DEF LogInv, Pipes, LogOf
  <2>6. k \in Nat /\ q \in Seq(Record)
    BY <2>4, <2>5
  <2>7. InOrder(q, id, k)
    BY <1>0 DEF LogInv, LogOf
  <2> HIDE DEF c, k, q
  <2>8. InOrder(q \o c, id, k)
    BY <2>3, <2>6, <2>7, InOrderImages, Zenon
  <2>9. Keep(id, c) /\ InOrder(replied[id] \o c, id, job[id].printed - job[id].unread)
    BY <2>1, <2>8 DEF c, k, q
  <2>10. vis' \in SUBSET Ids /\ web' \in WebType /\ web'.pc # "poll"
    BY <1>0, <2>2, IdleIs
  <2> QED
    BY <1>0, <2>3, <2>4, <2>5, <2>9, <2>10, LogKeep, Zenon
<1>2. CASE web' = [Idle EXCEPT !.pc = "poll", !.id = id] /\ UNCHANGED <<joblist, folder, replied, job, vis>>
  <2>1. web' = [pc |-> "poll", id |-> id, delay |-> 0]
    BY <1>2 DEF Idle
  <2>2. web' \in WebType /\ web'.id = id
    BY <2>1, WebAssumption DEF WebType, Ids
  <2>3. vis' \in SUBSET Ids
    BY <1>0, <1>2 DEF TypeOK
  <2> QED
    BY <1>0, <1>2, <2>2, <2>3, LogQuiet
<1> QED
  BY <1>1, <1>2 DEF poll_progress

LEMMA LogChart ==
  ASSUME LogInv, poll_chart_record
  PROVE  LogInv'
<1> DEFINE id == web.id
<1>0. TypeOK /\ web.pc = "poll" /\ web' = Idle /\ vis' = vis
  BY DEF LogInv, poll_chart_record
<1>1. id \in Ids /\ joblist[id].kind = "run"
  BY <1>0 DEF LogInv, Polled
<1>2. vis' \in SUBSET Ids /\ web' \in WebType /\ web'.pc # "poll"
  BY <1>0, IdleIs, Same DEF TypeOK
<1> HIDE DEF id
<1>3. CASE /\ job[id].unread > 0
           /\ job' = [job EXCEPT ![id].unread = @ - 1]
           /\ Keep(id, <<Line(id, job[id].printed - job[id].unread + 1)>>)
  <2> DEFINE b == [job[id] EXCEPT !.unread = @ - 1]
             q == replied[id]
             k == job[id].printed - job[id].unread
             c == <<Line(id, k + 1)>>
  <2>1. /\ job[id] \in [kind : {"none", "train", "test", "ended"}, printed : Nat, unread : Nat]
        /\ replied[id] \in Seq(Record)
    BY <1>0, <1>1, Same
  <2>2. job[id].unread <= job[id].printed /\ job[id].kind # "none"
    BY <1>1, <1>3 DEF LogInv, Pipes, LogOf
  <2>3. k \in Nat /\ q \in Seq(Record)
    BY <2>1, <2>2
  <2>4. b.printed = job[id].printed /\ b.unread = job[id].unread - 1 /\ b.kind = job[id].kind
    BY <2>1
  <2>5. b \in [kind : {"none", "train", "test", "ended"}, printed : Nat, unread : Nat]
    BY <1>3, <2>1
  <2>6. job' = [job EXCEPT ![id] = b]
    BY <1>3
  <2> HIDE DEF b
  <2>7. b.unread <= b.printed /\ b.printed - b.unread = k + 1
    BY <2>1, <2>2, <2>4
  <2>8. InOrder(q, id, k)
    BY <1>1 DEF LogInv, LogOf
  <2>9. Line(id, k + 1) \in Record
    BY <1>1, <2>3, WebAssumption DEF Line, Record, Ids
  <2>10. c \in Seq(Record)
    BY <2>9
  <2>11. Keep(id, c)
    BY <1>3
  <2> HIDE DEF k, q
  <2>12. InOrder(q \o c, id, k + 1)
    BY <1>1, <2>3, <2>8, InOrderLine, Zenon
  <2> HIDE DEF c
  <2>13. InOrder(replied[id] \o c, id, b.printed - b.unread)
    BY <2>7, <2>12 DEF q
  <2>14. b.kind # "none"
    BY <2>2, <2>4
  <2> QED
    BY <1>1, <1>2, <2>5, <2>6, <2>7, <2>10, <2>11, <2>13, <2>14, LogKeep, Zenon
<1>4. CASE UNCHANGED <<job, joblist, folder, replied>>
  BY <1>2, <1>4, LogQuiet
<1> QED
  BY <1>3, <1>4 DEF poll_chart_record, id

\* Steps of a picture, of a worker and of the flag.
LEMMA LogUpdown ==
  ASSUME LogInv, BeginUpload \/ test_upload \/ UNCHANGED webVars
  PROVE  LogInv'
<1>0. TypeOK
  BY DEF LogInv
<1>1. UNCHANGED <<joblist, folder, replied, job, vis>>
  BY DEF BeginUpload, test_upload, OpenInput, WriteInput, WaitForOutput, ReadOutput, webVars
<1>2. vis' \in SUBSET Ids
  BY <1>0, <1>1 DEF TypeOK
<1>3. web \in WebType /\ web.delay + 1 \in Int /\ web = [pc |-> web.pc, id |-> web.id, delay |-> web.delay]
  BY <1>0 DEF TypeOK, WebType
<1>4. CASE UNCHANGED web
  <2>1. web.pc = "poll" => web.id \in Ids /\ joblist[web.id].kind = "run"
    BY DEF LogInv, Polled
  <2> QED
    BY <1>1, <1>2, <1>3, <1>4, <2>1, LogQuiet
<1>5. CASE web' \in WebType /\ web'.pc # "poll"
  BY <1>1, <1>2, <1>5, LogQuiet
<1>6. CASE BeginUpload
  <2>1. web' = [pc |-> "open", id |-> 0, delay |-> 0]
    BY <1>6 DEF BeginUpload, Idle
  <2> QED
    BY <1>5, <2>1, WebAssumption DEF WebType
<1>7. CASE OpenInput
  BY <1>3, <1>5, <1>7 DEF OpenInput, WebType
<1>8. CASE WriteInput
  BY <1>3, <1>5, <1>8 DEF WriteInput, WebType
<1>9. CASE WaitForOutput
  <2>1. CASE output # None
    BY <1>3, <1>5, <1>9, <2>1 DEF WaitForOutput, WebType
  <2>2. CASE output = None
    <3>1. web' = Idle \/ web' = [pc |-> "wait", id |-> 0, delay |-> web.delay + 1]
      BY <1>9, <2>2 DEF WaitForOutput, Sleep, Idle
    <3>2. CASE web' = Idle
      BY <1>5, <3>2, IdleIs
    <3>3. CASE web' = [pc |-> "wait", id |-> 0, delay |-> web.delay + 1]
      BY <1>3, <1>5, <3>3, WebAssumption DEF WebType
    <3> QED
      BY <3>1, <3>2, <3>3
  <2> QED
    BY <2>1, <2>2
<1>10. CASE ReadOutput
  BY <1>5, <1>10, IdleIs DEF ReadOutput
<1>11. CASE UNCHANGED webVars
  BY <1>4, <1>11 DEF webVars
<1> QED
  BY <1>6, <1>7, <1>8, <1>9, <1>10, <1>11 DEF test_upload

LEMMA LogStep ==
  ASSUME LogInv, [Next]_vars
  PROVE  LogInv'
<1>0. TypeOK
  BY DEF LogInv
<1>1. CASE test_submit
  <2>1. PICK id \in Ids : Enter(id, "test")
    BY <1>1 DEF test_submit
  <2>2. web = Idle /\ UNCHANGED <<web, replied>> /\ vis' \in SUBSET Ids
    BY <1>0, <1>1 DEF test_submit, TypeOK
  <2> QED
    BY <2>1, <2>2, LogEnter
<1>2. CASE submit_job
  <2>1. PICK id \in Ids : Enter(id, "train")
    BY <1>2 DEF submit_job
  <2>2. web = Idle /\ UNCHANGED <<web, replied>> /\ vis' \in SUBSET Ids
    BY <1>2 DEF submit_job
  <2> QED
    BY <2>1, <2>2, LogEnter
<1>3. ASSUME NEW id \in Ids, upload(id) \/ get_record(id) \/ handle_kill(id) \/ poll_progress(id)
      PROVE  LogInv'
  BY <1>3, LogUpload, LogRecord, LogJobStep, LogPoll
<1>4. ASSUME NEW id \in Ids, WriteImage(id)
      PROVE  LogInv'
  <2>1. UNCHANGED <<joblist, folder, replied, job, web>> /\ vis' = vis \cup {id}
    BY <1>4 DEF WriteImage
  <2>2. vis' \in SUBSET Ids
    BY <1>0, <2>1 DEF TypeOK
  <2>3. web' \in WebType
    BY <1>0, <2>1 DEF TypeOK, WebType
  <2>4. web.pc = "poll" => web.id \in Ids /\ joblist[web.id].kind = "run"
    BY DEF LogInv, Polled
  <2> QED
    BY <2>1, <2>2, <2>3, <2>4, LogQuiet
<1>5. ASSUME NEW id \in Ids, JobStep(id)
      PROVE  LogInv'
  BY <1>5, LogJobStep
<1>6. CASE BeginUpload \/ test_upload \/ UNCHANGED webVars
  BY <1>6, LogUpdown
<1>7. CASE UNCHANGED vars
  BY <1>6, <1>7 DEF vars
<1> QED
  BY <1>1, <1>2, <1>3, <1>4, <1>5, <1>6, <1>7, LogChart DEF Next, Handler, Request

LEMMA LogInit ==
  ASSUME Init
  PROVE  LogInv
<1>1. /\ joblist = [id \in Ids |-> Absent] /\ folder = [id \in Ids |-> NoFolder]
      /\ job = [id \in Ids |-> [kind |-> "none", printed |-> 0, unread |-> 0]]
      /\ vis = {} /\ web = Idle /\ replied = [id \in Ids |-> << >>]
  BY DEF Init
<1>2. NoFolder \in Seq(Record)
  <2>1. <<0, 0>> \in Record
    BY WebAssumption DEF Record
  <2> QED
    BY <2>1 DEF NoFolder
<1>3. TypeOK
  BY <1>1, <1>2, IdleIs DEF TypeOK, Absent, WebType
<1>4. Pipes /\ Polled
  BY <1>1, IdleIs DEF Pipes, Polled
<1>5. \A id \in Ids : LogOf(joblist[id], folder[id], replied[id], job[id], id)
  BY <1>1, InOrderEmpty DEF LogOf, Absent
<1> QED
  BY <1>3, <1>4, <1>5 DEF LogInv

\* Everything that polls of a job have ever replied is in its log file and in its
\* entry, whatever is requested between two polls, until a log is uploaded under
\* its id: that removes the file and takes the entry, at whatever moment of the
\* job it comes, and leaves neither a file without polls nor polls without a file.
THEOREM WebLogIsKept == Spec => []LogIsKept
<1>1. Spec => Init /\ [][Next]_vars
  BY PTL DEF Spec
<1>2. LogInv => LogIsKept
  BY InvIs
<1> QED
  BY <1>1, <1>2, LogInit, LogStep, PTL

\* Polls reply every line that a job has printed and the pipe has handed over,
\* once and in order, however images, kills, uploads and other jobs come
\* between them, and of every job, also one whose entry an upload has taken.
THEOREM WebLinesOnce == Spec => []EachLineOnce
<1>1. Spec => Init /\ [][Next]_vars
  BY PTL DEF Spec
<1>2. LogInv => EachLineOnce
  BY InvIs
<1> QED
  BY <1>1, <1>2, LogInit, LogStep, PTL

-----------------------------------------------------------------------------
(***************************************************************************)
(* The answer to a picture.                                                *)
(***************************************************************************)
LEMMA SingleIs ==
  ASSUME Cardinality({w \in Worker : ~At(w, "off")}) <= 1
  PROVE  Single
<1> DEFINE S == {w \in Worker : ~At(w, "off")}
<1>1. IsFiniteSet(Worker)
  BY WebAssumption, FS_Interval DEF Ids
<1>2. IsFiniteSet(S) /\ Cardinality(S) \in Nat
  BY <1>1, FS_Subset, FS_CardinalityType
<1>3. ASSUME NEW v \in S, NEW w \in S, v # w
      PROVE  FALSE
  <2>1. w \in S \ {v} /\ IsFiniteSet(S \ {v}) /\ Cardinality(S \ {v}) = Cardinality(S) - 1
    BY <1>2, <1>3, FS_RemoveElement
  <2>2. Cardinality(S \ {v}) = 0
    BY <1>2, <2>1, FS_CardinalityType
  <2> QED
    BY <2>1, <2>2, FS_EmptySet
<1> QED
  BY <1>3 DEF Single

\* A worker that has been started is not off again.
LEMMA SingleStays ==
  ASSUME \A w \in Worker : worker'[w].pc = "off" => worker[w].pc = "off", Single'
  PROVE  Single
  BY DEF Single, At

\* Steps that touch neither the files nor a picture.
LEMMA AnswerQuiet ==
  ASSUME AnswerInv, UNCHANGED <<input, output, worker, uploads, answer>>,
         \/ web.pc # "open" /\ web'.pc \in {"idle", "poll"}
         \/ web'.pc = web.pc
         \/ web.pc = "wait" /\ web'.pc = "read" /\ output # None,
         web' = [pc |-> web'.pc, id |-> web'.id, delay |-> web'.delay]
  PROVE  AnswerInv'
<1>1. FileType'
  BY DEF AnswerInv, FileType
<1>2. Files'
  BY DEF AnswerInv, Files, FileType
<1>3. Busy' => Busy
  BY DEF Busy
<1>4. Single' = Single
  BY DEF Single, At
<1>5. Held'
  BY <1>3, <1>4 DEF AnswerInv, Held, At
<1> QED
  BY <1>1, <1>2, <1>4, <1>5 DEF AnswerInv

\* A worker goes on to where it holds nothing.
LEMMA AnswerAside ==
  ASSUME AnswerInv, NEW w \in Worker, NEW p \in {"flag", "input", "stopped", "dead"},
         worker' = [worker EXCEPT ![w].pc = p], UNCHANGED <<input, output, web, uploads, answer>>
  PROVE  AnswerInv'
<1>1. worker \in [Worker -> [pc : {"off", "flag", "input", "open", "write", "stopped", "dead"},
                              x : Int \ {None}, linked : BOOLEAN]]
  BY DEF AnswerInv, FileType
<1>2. worker'[w].pc = p /\ \A v \in Worker \ {w} : worker'[v] = worker[v]
  BY <1>1
<1>3. FileType'
  BY <1>1 DEF AnswerInv, FileType
<1>4. Files' /\ (Busy' <=> Busy)
  BY DEF AnswerInv, Files, Busy
<1>5. Single' => Single
  BY <1>2, SingleStays
<1>6. Held'
  BY <1>2, <1>4, <1>5 DEF AnswerInv, Held, At
<1> QED
  BY <1>3, <1>4, <1>5, <1>6 DEF AnswerInv

LEMMA AnswerRead ==
  ASSUME AnswerInv, NEW w \in Worker, At(w, "input"), input # None,
         worker' = [worker EXCEPT ![w].pc = "open", ![w].x = IF input = Empty THEN Garbage ELSE input],
         UNCHANGED <<input, output, web, uploads, answer>>
  PROVE  AnswerInv'
<1> DEFINE y == IF input = Empty THEN Garbage ELSE input
<1>1. worker \in [Worker -> [pc : {"off", "flag", "input", "open", "write", "stopped", "dead"},
                              x : Int \ {None}, linked : BOOLEAN]]
  BY DEF AnswerInv, FileType
<1>0. /\ input \in Int /\ uploads \in Nat /\ answer.to \in Nat /\ answer.to <= uploads
      /\ input > 0 => input >= uploads - 1
  BY DEF AnswerInv, FileType, Files
<1>2. y \in Int \ {None} /\ (y > 0 => y >= uploads - 1 /\ y >= answer.to - 1)
  BY <1>0 DEF Garbage, Empty, None
<1>3. worker' = [worker EXCEPT ![w].pc = "open", ![w].x = y]
  OBVIOUS
<1> HIDE DEF y
<1>4. /\ worker'[w].pc = "open" /\ worker'[w].x = y
      /\ \A v \in Worker \ {w} : worker'[v] = worker[v]
      /\ worker' \in [Worker -> [pc : {"off", "flag", "input", "open", "write", "stopped", "dead"},
                                  x : Int \ {None}, linked : BOOLEAN]]
  <2> DEFINE r == [worker[w] EXCEPT !.pc = "open", !.x = y]
  <2>1. worker' = [worker EXCEPT ![w] = r]
    BY <1>3
  <2>2. r = [pc |-> "open", x |-> y, linked |-> worker[w].linked] /\ worker[w].linked \in BOOLEAN
    <3> DEFINE q == [worker[w] EXCEPT !.pc = "open"]
               k == worker[w].linked
    <3>1. q = [pc |-> "open", x |-> worker[w].x, linked |-> k] /\ k \in BOOLEAN
      BY <1>1
    <3> HIDE DEF q, k
    <3>2. [q EXCEPT !.x = y] = [pc |-> "open", x |-> y, linked |-> k]
      BY <3>1
    <3> QED
      BY <3>1, <3>2 DEF q, k
  <2>3. r.pc = "open" /\ r.x = y /\ r \in [pc : {"off", "flag", "input", "open", "write", "stopped", "dead"},
                                            x : Int \ {None}, linked : BOOLEAN]
    BY <1>2, <2>2, Zenon
  <2> HIDE DEF r
  <2>4. worker'[w] = r /\ \A v \in Worker \ {w} : worker'[v] = worker[v]
    BY <1>1, <2>1
  <2>5. worker' \in [Worker -> [pc : {"off", "flag", "input", "open", "write", "stopped", "dead"},
                                x : Int \ {None}, linked : BOOLEAN]]
    BY <1>1, <2>1, <2>3, Zenon
  <2> QED
    BY <2>3, <2>4, <2>5, Zenon
<1>5. FileType'
  BY <1>4 DEF AnswerInv, FileType
<1>6. Files' /\ (Busy' <=> Busy)
  BY DEF AnswerInv, Files, Busy
<1>7. Single' => Single
  BY <1>4, SingleStays
<1>8. Held'
  BY <1>2, <1>4, <1>6, <1>7 DEF AnswerInv, Held, At
<1> QED
  BY <1>5, <1>6, <1>7, <1>8 DEF AnswerInv

LEMMA AnswerOpen ==
  ASSUME AnswerInv, NEW w \in Worker, OpenOutput(w), UNCHANGED <<web, uploads, answer>>
  PROVE  AnswerInv'
<1>1. worker \in [Worker -> [pc : {"off", "flag", "input", "open", "write", "stopped", "dead"},
                              x : Int \ {None}, linked : BOOLEAN]]
  BY DEF AnswerInv, FileType
<1>2. At(w, "open") /\ output' = 0 /\ UNCHANGED input
  BY DEF OpenOutput, Empty
<1>3. /\ worker'[w].pc = "write" /\ worker'[w].x = worker[w].x
      /\ \A v \in Worker \ {w} : worker'[v] = worker[v]
      /\ worker' \in [Worker -> [pc : {"off", "flag", "input", "open", "write", "stopped", "dead"},
                                  x : Int \ {None}, linked : BOOLEAN]]
  BY <1>1 DEF OpenOutput
<1>4. FileType'
  BY <1>2, <1>3 DEF AnswerInv, FileType
<1>5. Files' /\ (Busy' <=> Busy)
  BY <1>2 DEF AnswerInv, Files, Busy, None
<1>6. Single' => Single
  BY <1>3, SingleStays
<1>7. ASSUME Single', NEW v \in Worker, v # w
      PROVE  worker'[v].pc = "off"
  BY <1>3, <1>7 DEF Single, At
<1>8. Held'
  <2> SUFFICES ASSUME Single'
      PROVE  /\ (Busy /\ output > 0 => output >= answer.to - 1)'
             /\ \A v \in Worker :
                  /\ At(v, "open")' => FALSE
                  /\ (At(v, "write") /\ worker[v].linked /\ worker[v].x > 0 /\ Busy
                       => worker[v].x >= answer.to - 1)'
    BY DEF Held
  <2>1. worker[w].x > 0 => worker[w].x >= answer.to - 1
    BY <1>2, <1>6 DEF AnswerInv, Held
  <2>2. output' > 0 => FALSE
    BY <1>2
  <2> QED
    BY <1>3, <1>7, <2>1, <2>2 DEF At
<1> QED
  BY <1>4, <1>5, <1>6, <1>8 DEF AnswerInv

LEMMA AnswerWrite ==
  ASSUME AnswerInv, NEW w \in Worker, WriteOutput(w), UNCHANGED <<web, uploads, answer>>
  PROVE  AnswerInv'
<1>1. worker \in [Worker -> [pc : {"off", "flag", "input", "open", "write", "stopped", "dead"},
                              x : Int \ {None}, linked : BOOLEAN]]
  BY DEF AnswerInv, FileType
<1>2. At(w, "write") /\ UNCHANGED input
  BY DEF WriteOutput
<1>3. /\ worker'[w].pc = "flag"
      /\ \A v \in Worker \ {w} : worker'[v] = worker[v]
      /\ worker' \in [Worker -> [pc : {"off", "flag", "input", "open", "write", "stopped", "dead"},
                                  x : Int \ {None}, linked : BOOLEAN]]
  BY <1>1 DEF WriteOutput
<1>4. output' = output \/ output' = -2 \/ (worker[w].linked /\ output' = worker[w].x)
  BY DEF WriteOutput, Garbage
<1>5. output' \in Int /\ (output # None => output' # None)
  BY <1>1, <1>4 DEF AnswerInv, FileType, None
<1>6. FileType'
  BY <1>2, <1>3, <1>5 DEF AnswerInv, FileType
<1>7. Files' /\ (Busy' <=> Busy)
  BY <1>2, <1>5 DEF AnswerInv, Files, Busy
<1>8. Single' => Single
  BY <1>3, SingleStays
<1>9. ASSUME Single', NEW v \in Worker, v # w
      PROVE  worker'[v].pc = "off"
  BY <1>3, <1>9 DEF Single, At
<1>10. Held'
  <2> SUFFICES ASSUME Single'
      PROVE  /\ (Busy /\ output > 0 => output >= answer.to - 1)'
             /\ \A v \in Worker : ~At(v, "open")' /\ ~At(v, "write")'
    BY DEF Held
  <2>1. Busy /\ output > 0 => output >= answer.to - 1
    BY <1>8 DEF AnswerInv, Held
  <2>2. worker[w].linked /\ worker[w].x > 0 /\ Busy => worker[w].x >= answer.to - 1
    BY <1>2, <1>8 DEF AnswerInv, Held
  <2> QED
    BY <1>3, <1>4, <1>7, <1>9, <2>1, <2>2 DEF At
<1> QED
  BY <1>6, <1>7, <1>8, <1>10 DEF AnswerInv

LEMMA AnswerBegin ==
  ASSUME AnswerInv, BeginUpload
  PROVE  AnswerInv'
<1>1. worker \in [Worker -> [pc : {"off", "flag", "input", "open", "write", "stopped", "dead"},
                              x : Int \ {None}, linked : BOOLEAN]]
  BY DEF AnswerInv, FileType
<1>2. /\ web.pc = "idle" /\ web' = [pc |-> "open", id |-> 0, delay |-> 0] /\ uploads' = uploads + 1
      /\ output' = -1 /\ UNCHANGED <<input, answer>>
  BY DEF BeginUpload, Idle, RemoveOld, RemoveOutput, None
<1>3. /\ \A w \in Worker : /\ worker'[w].pc = worker[w].pc /\ worker'[w].x = worker[w].x
                            /\ worker'[w].linked = FALSE
      /\ worker' \in [Worker -> [pc : {"off", "flag", "input", "open", "write", "stopped", "dead"},
                                  x : Int \ {None}, linked : BOOLEAN]]
  BY <1>1 DEF BeginUpload, RemoveOld, RemoveOutput
<1>4. FileType'
  BY <1>2, <1>3 DEF AnswerInv, FileType
<1>5. Files'
  BY <1>2 DEF AnswerInv, Files, FileType
<1>6. Single' => Single
  BY <1>3, SingleStays
<1>7. Held'
  BY <1>2, <1>3, <1>6 DEF AnswerInv, Held, At, None
<1> QED
  BY <1>2, <1>4, <1>5, <1>6, <1>7 DEF AnswerInv

LEMMA AnswerInput ==
  ASSUME AnswerInv, OpenInput \/ WriteInput
  PROVE  AnswerInv'
<1>1. /\ UNCHANGED <<output, worker, uploads, answer>> /\ web = [pc |-> web.pc, id |-> web.id, delay |-> web.delay]
      /\ \/ web.pc = "open" /\ web' = [web EXCEPT !.pc = "write"] /\ input' = 0
         \/ web.pc = "write" /\ web' = [web EXCEPT !.pc = "wait"] /\ input' = uploads
  BY DEF OpenInput, WriteInput, Empty, AnswerInv, FileType
<1>2. /\ web' = [pc |-> web'.pc, id |-> web'.id, delay |-> web'.delay]
      /\ \/ web.pc = "open" /\ web'.pc = "write" /\ input' = 0
         \/ web.pc = "write" /\ web'.pc = "wait" /\ input' = uploads
  BY <1>1
<1>3. FileType'
  BY <1>1, <1>2 DEF AnswerInv, FileType
<1>4. Files'
  BY <1>1, <1>2 DEF AnswerInv, FileType, Files
<1>5. Busy /\ Busy' /\ (Single' = Single)
  BY <1>1, <1>2 DEF Busy, Single, At
<1>6. Held'
  BY <1>1, <1>5 DEF AnswerInv, Held, At
<1> QED
  BY <1>1, <1>3, <1>4, <1>5, <1>6 DEF AnswerInv

LEMMA AnswerReply ==
  ASSUME AnswerInv, ReadOutput
  PROVE  AnswerInv'
<1>1. /\ web.pc = "read" /\ web' = [pc |-> "idle", id |-> 0, delay |-> 0]
      /\ answer' = [shown |-> output, to |-> uploads, before |-> answer.to]
      /\ UNCHANGED <<input, output, worker, uploads>>
  BY DEF ReadOutput, Idle, fileVars
<1>2. output # None /\ Busy
  BY <1>1 DEF AnswerInv, Files, Busy
<1>3. FileType'
  BY <1>1 DEF AnswerInv, FileType
<1>4. Files'
  BY <1>1 DEF AnswerInv, FileType, Files
<1>5. ~Busy' /\ (Single' = Single)
  BY <1>1 DEF Busy, Single, At
<1>6. Held'
  BY <1>1, <1>2, <1>5 DEF AnswerInv, Held, At
<1>7. (Single /\ answer.shown > 0 => answer.before - 1 <= answer.shown)'
  BY <1>1, <1>2, <1>5 DEF AnswerInv, Held, FileType
<1> QED
  BY <1>3, <1>4, <1>6, <1>7 DEF AnswerInv

LEMMA AnswerStep ==
  ASSUME AnswerInv, [Next]_vars
  PROVE  AnswerInv'
<1>0. web = [pc |-> web.pc, id |-> web.id, delay |-> web.delay]
  BY DEF AnswerInv, FileType
<1>1. CASE UNCHANGED <<input, output, worker, uploads, answer, web>>
  BY <1>0, <1>1, AnswerQuiet
<1>2. CASE test_submit
  <2>1. PICK w \in Ids : StartWorker(w)
    BY <1>2 DEF test_submit
  <2> QED
    BY <1>2, <2>1, AnswerAside, WebAssumption DEF test_submit, StartWorker
<1>3. CASE submit_job
  BY <1>1, <1>3 DEF submit_job, fileVars
<1>4. ASSUME NEW id \in Ids, upload(id) \/ get_record(id)
      PROVE  AnswerInv'
  BY <1>1, <1>4 DEF upload, get_record, fileVars
<1>5. ASSUME NEW id \in Ids, handle_kill(id)
      PROVE  AnswerInv'
  <2>1. UNCHANGED <<input, output, web, uploads, answer>> /\ KillWorker(id)
    BY <1>5 DEF handle_kill
  <2>2. CASE id \in Running
    BY <2>1, <2>2, AnswerAside, WebAssumption DEF KillWorker
  <2>3. CASE id \notin Running
    BY <1>1, <2>1, <2>3 DEF KillWorker
  <2> QED
    BY <2>2, <2>3
<1>6. ASSUME NEW id \in Ids, poll_progress(id)
      PROVE  AnswerInv'
  <2>1. UNCHANGED <<input, output, worker, uploads, answer>> /\ web = Idle
    BY <1>6 DEF poll_progress, fileVars
  <2>2. CASE web' = web
    BY <1>1, <2>1, <2>2
  <2>3. CASE web' = [Idle EXCEPT !.pc = "poll", !.id = id]
    <3>1. web' = [pc |-> "poll", id |-> id, delay |-> 0] /\ web.pc = "idle"
      BY <2>1, <2>3 DEF Idle
    <3> QED
      BY <2>1, <3>1, AnswerQuiet
  <2> QED
    BY <1>6, <2>2, <2>3 DEF poll_progress, poll_image_record
<1>7. CASE poll_chart_record
  <2>1. /\ UNCHANGED <<input, output, worker, uploads, answer>> /\ web.pc = "poll"
        /\ web' = [pc |-> "idle", id |-> 0, delay |-> 0]
    BY <1>7 DEF poll_chart_record, Idle, fileVars
  <2> QED
    BY <2>1, AnswerQuiet
<1>8. CASE WaitForOutput
  <2>1. UNCHANGED <<input, output, worker, uploads, answer>> /\ web.pc = "wait"
    BY <1>8 DEF WaitForOutput, fileVars
  <2>2. CASE output # None
    <3>1. web' = [web EXCEPT !.pc = "read"]
      BY <1>8, <2>2 DEF WaitForOutput
    <3>2. web' = [pc |-> "read", id |-> web.id, delay |-> web.delay]
      BY <1>0, <3>1
    <3> QED
      BY <2>1, <2>2, <3>2, AnswerQuiet
  <2>3. CASE output = None
    <3>1. web' = [pc |-> "idle", id |-> 0, delay |-> 0] \/ web' = [pc |-> "wait", id |-> 0, delay |-> web.delay + 1]
      BY <1>8, <2>3 DEF WaitForOutput, Sleep, Idle
    <3> QED
      BY <2>1, <3>1, AnswerQuiet
  <2> QED
    BY <2>2, <2>3
<1>9. ASSUME NEW id \in Ids, JobStep(id) \/ WriteImage(id)
      PROVE  AnswerInv'
  BY <1>1, <1>9 DEF JobStep, PrintLine, EndJob, WriteImage, fileVars
<1>10. ASSUME NEW w \in Worker, WorkerStep(w), UNCHANGED webVars
       PROVE  AnswerInv'
  <2>0. UNCHANGED <<web, uploads, answer>>
    BY <1>10 DEF webVars
  <2>1. CASE TestFlag(w)
    BY <2>0, <2>1, AnswerAside DEF TestFlag
  <2>2. CASE ParseInput(w)
    BY <2>0, <2>2, AnswerAside, AnswerRead DEF ParseInput
  <2> QED
    BY <1>10, <2>0, <2>1, <2>2, AnswerOpen, AnswerWrite DEF WorkerStep
<1>11. CASE SetFlag /\ UNCHANGED webVars
  BY <1>1, <1>11 DEF SetFlag, webVars
<1>12. CASE UNCHANGED vars
  BY <1>1, <1>12 DEF vars, fileVars, webVars
<1> QED
  BY <1>2, <1>3, <1>4, <1>5, <1>6, <1>7, <1>8, <1>9, <1>10, <1>11, <1>12,
     AnswerBegin, AnswerInput, AnswerReply DEF Next, Handler, Request, test_upload

LEMMA AnswerInit ==
  ASSUME Init
  PROVE  AnswerInv
<1>1. /\ input = -1 /\ output = -1 /\ web = [pc |-> "idle", id |-> 0, delay |-> 0] /\ uploads = 0
      /\ answer = [shown |-> 0, to |-> 0, before |-> 0]
      /\ worker = [w \in Worker |-> [pc |-> "off", x |-> 0, linked |-> FALSE]]
  BY DEF Init, InferenceInit, Idle, None, Empty
<1>2. FileType
  BY <1>1 DEF FileType, None
<1>3. Files /\ Held
  BY <1>1 DEF Files, Held, At, None
<1> QED
  BY <1>1, <1>2, <1>3 DEF AnswerInv

\* With one worker, what is shown for a picture is that picture, or one that is
\* at most one older than the last picture before it that got a reply, however
\* slowly the worker goes round its loop and whenever it is killed: the old
\* answer is removed, and opened anew only with an input read after the last
\* reply began.
THEOREM WebAnswerIsRecent == Spec => []AnswerIsRecent
<1>1. Spec => Init /\ [][Next]_vars
  BY PTL DEF Spec
<1>2. AnswerInv => AnswerIsRecent
  BY SingleIs DEF AnswerInv, AnswerIsRecent
<1> QED
  BY <1>1, <1>2, AnswerInit, AnswerStep, PTL

=============================================================================
