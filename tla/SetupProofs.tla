----------------------------- MODULE SetupProofs -----------------------------
(***************************************************************************)
(* Proofs about Setup: the table that every process computes for the whole *)
(* cluster agrees with the threads that each process creates for itself,   *)
(* the net is sorted and keeps its connections, and the slices cover the   *)
(* parameters and are spread evenly over the boxes.                        *)
(***************************************************************************)
EXTENDS Setup, SequenceTheorems, FiniteSetTheorems, WellFoundedInduction, TLAPS

(***************************************************************************)
(* Division                                                                *)
(***************************************************************************)
LEMMA Division ==
  ASSUME NEW x \in Nat, NEW d \in Nat \ {0}, NEW q \in Nat, NEW r \in Nat, q = x \div d, r = x % d
  PROVE  x = q * d + r /\ r < d
OBVIOUS

LEMMA Quotient ==
  ASSUME NEW x \in Nat, NEW d \in Nat \ {0}, NEW q \in Nat
  PROVE  x \div d = q <=> q * d <= x /\ x < q * d + d
<1>1. x \div d = q => q * d <= x /\ x < q * d + d
  OBVIOUS
<1>2. ASSUME q * d <= x, x < q * d + d
      PROVE  x \div d = q
  <2> DEFINE i == x - q * d
  <2>1. i \in 0..(d - 1) /\ x = q * d + i
    BY <1>2
  <2> HIDE DEF i
  <2>2. (q * d + i) \div d = q
    BY <2>1
  <2> QED
    BY <2>1, <2>2
<1> QED
  BY <1>1, <1>2

LEMMA Multiple ==
  ASSUME NEW x \in Nat, NEW d \in Nat \ {0}
  PROVE  /\ x \div d \in Nat
         /\ x % d = 0 => x = (x \div d) * d
         /\ \A q \in Nat : (q * d) \div d = q /\ (q * d) % d = 0
<1>1. x % d = 0 => x = (x \div d) * d
  OBVIOUS
<1>2. \A q \in Nat : (q * d) \div d = q /\ (q * d) % d = 0
  OBVIOUS
<1> QED
  BY <1>1, <1>2

LEMMA Digits ==
  ASSUME NEW n \in Nat \ {0}, NEW a \in Nat, NEW b \in Nat, NEW i \in 0..(n - 1), NEW j \in 0..(n - 1),
         a * n + i = b * n + j
  PROVE  a = b /\ i = j
OBVIOUS

LEMMA Scale ==
  ASSUME NEW m \in Nat, NEW d \in Nat, NEW n, n = m * d
  PROVE  \A k \in Nat : k * n = (k * m) * d
OBVIOUS

LEMMA Times ==
  /\ \A a, b \in Nat : a * b \in Nat
  /\ \A a, b, n \in Nat : (a + b) * n = a * n + b * n
  /\ \A a, b \in Nat, n \in Nat \ {0} : a < b <=> a * n < b * n
  /\ \A a, b, n \in Nat : a < b => a * n + n <= b * n
  /\ \A a, b, n \in Nat : a <= b => a * n <= b * n
  /\ \A a, n \in Nat : (a + 1) * n = a * n + n
<1>1. \A a, b \in Nat : a * b \in Nat
  OBVIOUS
<1>2. \A a, b, n \in Nat : (a + b) * n = a * n + b * n
  OBVIOUS
<1>4. \A a, b \in Nat, n \in Nat \ {0} : a < b <=> a * n < b * n
  OBVIOUS
<1>5. \A a, b, n \in Nat : a < b => a * n + n <= b * n
  OBVIOUS
<1>6. \A a, b, n \in Nat : a <= b => a * n <= b * n
  OBVIOUS
<1>7. \A a, n \in Nat : (a + 1) * n = a * n + n
  OBVIOUS
<1> QED
  BY <1>1, <1>2, <1>4, <1>5, <1>6, <1>7, Zenon

\* Process p has the d members of group g0 from start on.
IsSegment(n, d, G, p, g0, start) ==
  /\ g0 \in Nat /\ start \in Nat /\ g0 < G /\ start + d <= n
  /\ \A g \in Nat, i \in 0..(n - 1) :
       (g * n + i) \div d = p <=> g = g0 /\ start <= i /\ i < start + d

\* Members are numbered group by group, n to a group and d to a process, and d
\* divides n.
LEMMA Segment ==
  ASSUME NEW n \in Nat \ {0}, NEW d \in Nat \ {0}, NEW G \in Nat, n % d = 0,
         NEW p \in Nat, p < (G * n) \div d
  PROVE  IsSegment(n, d, G, p, (p * d) \div n, (p * d) % n)
<1> DEFINE g0 == (p * d) \div n
           start == (p * d) % n
<1>0. p * d \in Nat /\ g0 \in Nat /\ start \in Nat /\ p * d = g0 * n + start /\ start < n
  <2> DEFINE x == p * d
             q == x \div n
             z == x % n
  <2>1. x \in Nat
    BY Times
  <2> HIDE DEF x
  <2>2. q \in Nat /\ z \in Nat
    BY <2>1
  <2>3. q = x \div n /\ z = x % n
    OBVIOUS
  <2> HIDE DEF q, z
  <2>4. x = q * n + z /\ z < n
    BY <2>1, <2>2, <2>3, Division
  <2> QED
    BY <2>1, <2>2, <2>4 DEF x, q, z
<1> HIDE DEF g0, start
<1> DEFINE m == n \div d
<1>1. m \in Nat /\ n = m * d
  BY Multiple
<1> HIDE DEF m
<1>2. /\ p * d \in Nat /\ g0 \in Nat /\ start \in Nat
      /\ g0 * m \in Nat /\ G * m \in Nat /\ g0 * n \in Nat
  BY <1>0, <1>1, Times
<1>3. p * d = g0 * n + start /\ start < n
  BY <1>0
<1>4. G * n = (G * m) * d /\ g0 * n = (g0 * m) * d
  <2>1. \A k \in Nat : k * n = (k * m) * d
    BY <1>1, Scale
  <2> QED
    BY <1>0, <2>1, Zenon
<1>5. p < G * m
  <2>1. ((G * m) * d) \div d = G * m
    BY <1>2, Multiple
  <2>2. (G * n) \div d = G * m
    BY <1>4, <2>1, Zenon
  <2> QED
    BY <2>2, Zenon
<1>6. g0 * m <= p
  <2> SUFFICES ASSUME p < g0 * m PROVE FALSE
    BY <1>2
  <2>1. p * d < (g0 * m) * d
    BY <1>2, Times
  <2> QED
    BY <1>2, <1>3, <1>4, <2>1
<1> DEFINE q == p - g0 * m
<1>7. q \in Nat /\ p = g0 * m + q
  BY <1>2, <1>6
<1> HIDE DEF q
<1>8. p * d = (g0 * m) * d + q * d /\ q * d \in Nat
  BY <1>2, <1>7, Times
<1>9. start = q * d
  BY <1>2, <1>3, <1>4, <1>8
<1>10. q < m
  BY <1>1, <1>3, <1>7, <1>9, Times
<1>11. start + d <= n
  BY <1>1, <1>7, <1>9, <1>10, Times
<1>12. g0 < G
  <2> SUFFICES ASSUME G <= g0 PROVE FALSE
    BY <1>0
  <2>1. G * m <= g0 * m
    <3>1. CASE G = g0
      BY <1>2, <3>1
    <3>2. CASE G < g0
      BY <1>1, <1>2, <3>2, Times
    <3> QED
      BY <1>0, <3>1, <3>2
  <2> QED
    BY <1>2, <1>5, <1>6, <2>1
<1>13. ASSUME NEW g \in Nat, NEW i \in 0..(n - 1)
       PROVE  (g * n + i) \div d = p <=> g = g0 /\ start <= i /\ i < start + d
  <2>1. g * n \in Nat /\ g * n + i \in Nat
    BY Times
  <2>2. (g * n + i) \div d = p <=> p * d <= g * n + i /\ g * n + i < p * d + d
    BY <2>1, Quotient
  <2>3. CASE g = g0
    BY <1>2, <1>3, <2>1, <2>2, <2>3
  <2>4. CASE g < g0
    <3>1. g * n + n <= g0 * n
      BY <1>0, <2>4, Times
    <3> QED
      BY <1>2, <1>3, <2>1, <2>2, <2>4, <3>1
  <2>5. CASE g > g0
    <3>1. g0 * n + n <= g * n
      BY <1>0, <2>5, Times
    <3> QED
      BY <1>2, <1>3, <1>11, <2>1, <2>2, <2>5, <3>1
  <2> QED
    BY <1>0, <2>3, <2>4, <2>5
<1> QED
  BY <1>0, <1>11, <1>12, <1>13 DEF IsSegment, g0, start

\* Process p has per whole groups.
AreGroups(n, d, G, p, per) ==
  /\ p < (G * n) \div d => (p + 1) * per <= G
  /\ \A g \in Nat, i \in 0..(n - 1) :
       (g * n + i) \div d = p <=> p * per <= g /\ g < (p + 1) * per

\* n divides d.
LEMMA WholeGroups ==
  ASSUME NEW n \in Nat \ {0}, NEW d \in Nat \ {0}, NEW G \in Nat, (G * n) % d = 0,
         NEW p \in Nat, NEW per \in Nat, d = per * n
  PROVE  AreGroups(n, d, G, p, per)
<1>1. d = per * n
  OBVIOUS
<1>2. /\ p * d \in Nat /\ p * per \in Nat /\ (p + 1) * per \in Nat /\ G * n \in Nat
      /\ p * d = (p * per) * n /\ p * d + d = ((p + 1) * per) * n
  <2>1. (p + 1) * per = p * per + per /\ (p + 1) * d = p * d + d
    BY Times, Zenon
  <2>2. ((p + 1) * per) * n = (p + 1) * d /\ p * d = (p * per) * n
    <3>1. p + 1 \in Nat /\ n \in Nat
      OBVIOUS
    <3>2. \A k \in Nat : k * d = (k * per) * n
      BY <1>1, <3>1, Scale, SMT
    <3> QED
      BY <3>1, <3>2, Zenon
  <2> QED
    BY <2>1, <2>2, Times
<1>3. ASSUME p < (G * n) \div d
      PROVE  (p + 1) * per <= G
  <2> DEFINE M == (G * n) \div d
  <2>1. M \in Nat /\ G * n = M * d
    BY <1>2, Multiple
  <2> HIDE DEF M
  <2>2. p * d + d <= M * d
    <3>1. p < M
      BY <1>3 DEF M
    <3> QED
      BY <2>1, <3>1, Times
  <2>3. ((p + 1) * per) * n <= G * n
    BY <1>2, <2>1, <2>2
  <2> SUFFICES ASSUME G < (p + 1) * per PROVE FALSE
    BY <1>2
  <2>4. G * n < ((p + 1) * per) * n
    BY <1>2, Times
  <2>5. ((p + 1) * per) * n \in Nat
    BY <1>2, Times
  <2> QED
    BY <1>2, <2>3, <2>4, <2>5
<1>4. ASSUME NEW g \in Nat, NEW i \in 0..(n - 1)
      PROVE  (g * n + i) \div d = p <=> p * per <= g /\ g < (p + 1) * per
  <2> DEFINE a == p * per
             b == (p + 1) * per
  <2>0. a \in Nat /\ b \in Nat /\ p * d = a * n /\ p * d + d = b * n /\ a * n \in Nat /\ b * n \in Nat
    BY <1>2, Times
  <2>1. g * n \in Nat /\ g * n + i \in Nat
    BY Times
  <2>2. (g * n + i) \div d = p <=> p * d <= g * n + i /\ g * n + i < p * d + d
    BY <2>1, Quotient
  <2> HIDE DEF a, b
  <2>3. a <= g => a * n <= g * n
    BY <2>0, Times
  <2>4. g < a => g * n + n <= a * n
    BY <2>0, Times
  <2>5. g < b => g * n + n <= b * n
    BY <2>0, Times
  <2>6. b <= g => b * n <= g * n
    BY <2>0, Times
  <2>7. (g * n + i) \div d = p <=> a * n <= g * n + i /\ g * n + i < b * n
    BY <2>0, <2>2
  <2>8. a * n <= g * n + i <=> a <= g
    BY <2>0, <2>1, <2>3, <2>4
  <2>9. g * n + i < b * n <=> g < b
    BY <2>0, <2>1, <2>5, <2>6
  <2> QED
    BY <2>7, <2>8, <2>9 DEF a, b
<1> QED
  BY <1>3, <1>4 DEF AreGroups

\* No member is placed behind the last process, and the last one is in it.
LEMMA Places ==
  ASSUME NEW n \in Nat \ {0}, NEW d \in Nat \ {0}, NEW G \in Nat \ {0}, (G * n) % d = 0
  PROVE  /\ \A g \in 0..(G - 1), i \in 0..(n - 1) :
              (g * n + i) \div d \in Nat /\ (g * n + i) \div d < (G * n) \div d
         /\ ((G - 1) * n + (n - 1)) \div d + 1 = (G * n) \div d
<1> DEFINE M == (G * n) \div d
<1>1. M \in Nat /\ G * n = M * d /\ G * n \in Nat /\ G * n > 0
  BY Multiple, Times
<1> HIDE DEF M
<1>2. ASSUME NEW g \in 0..(G - 1), NEW i \in 0..(n - 1)
      PROVE  (g * n + i) \div d \in Nat /\ (g * n + i) \div d < M
  <2>1. g \in Nat /\ g < G /\ g * n \in Nat /\ g * n + n <= G * n
    BY Times
  <2> DEFINE x == g * n + i
             q == x \div d
  <2>2. x \in Nat /\ x < M * d
    BY <1>1, <2>1
  <2> HIDE DEF x
  <2>3. q \in Nat
    BY <2>2, Multiple
  <2>4. q * d <= x
    BY <2>2, <2>3, Quotient
  <2> HIDE DEF q
  <2>5. q * d < M * d
    BY <1>1, <2>2, <2>3, <2>4
  <2>6. q < M
    BY <1>1, <2>3, <2>5, Times
  <2> QED
    BY <2>3, <2>6 DEF x, q
<1>3. ((G - 1) * n + (n - 1)) \div d + 1 = M
  <2>1. (G - 1) * n + n = G * n
    OBVIOUS
  <2>2. M # 0
    BY <1>1
  <2> DEFINE x == (G - 1) * n + (n - 1)
             q == M - 1
  <2>3. x \in Nat /\ x + 1 = M * d
    BY <1>1, <2>1
  <2>4. q \in Nat /\ q + 1 = M
    BY <1>1, <2>2
  <2> HIDE DEF x, q
  <2>5. q * d + d = M * d /\ q * d \in Nat
    BY <1>1, <2>4, Times
  <2>6. x \div d = q
    BY <2>3, <2>4, <2>5, Quotient
  <2> QED
    BY <2>4, <2>6 DEF x
<1> QED
  BY <1>2, <1>3 DEF M

(***************************************************************************)
(* The table                                                               *)
(***************************************************************************)
LEMMA ConfigType ==
  ASSUME NEW c \in Config
  PROVE  /\ c.nwg \in Nat \ {0} /\ c.nw \in Nat \ {0} /\ c.wpp \in Nat \ {0}
         /\ c.nsg \in Nat \ {0} /\ c.ns \in Nat \ {0} /\ c.spp \in Nat \ {0}
         /\ c.separate \in BOOLEAN
BY DEF Config

\* A server's hash is its own.
LEMMA ServerEntry ==
  ASSUME NEW c \in Config, NEW g \in 0..(c.nsg - 1), NEW i \in 0..(c.ns - 1)
  PROVE  ProcsIDOf(c, g, i, kServer) = ServerProc(c, <<g, i>>)
<1> DEFINE s0 == <<g, i>>
           h == Hash(c, g, i, kServer)
           servers == {s \in ServerIds(c) : Hash(c, s[1], s[2], kServer) = h}
<1>0. c.nsg \in Nat \ {0} /\ c.ns \in Nat \ {0}
  BY ConfigType
<1>1. s0 \in servers
  BY DEF ServerIds
<1>2. ASSUME NEW s \in servers
      PROVE  s = s0
  <2>1. s[1] \in 0..(c.nsg - 1) /\ s[2] \in 0..(c.ns - 1) /\ s = <<s[1], s[2]>>
    BY DEF ServerIds
  <2> DEFINE a == kServer * c.nsg + s[1]
             b == kServer * c.nsg + g
  <2>2. a \in Nat /\ b \in Nat
    BY <1>0, <2>1 DEF kServer
  <2>3. a * c.ns + s[2] = b * c.ns + i
    BY DEF Hash
  <2>4. a = b /\ s[2] = i
    <3> HIDE DEF a, b
    <3> QED
      BY <1>0, <2>1, <2>2, <2>3, Digits
  <2>5. s[1] = g
    BY <1>0, <2>1, <2>4 DEF kServer
  <2> QED
    BY <2>1, <2>4, <2>5
<1>3. servers = {s0}
  BY <1>1, <1>2
<1>4. ProcsIDOf(c, g, i, kServer) =
        IF servers # {} THEN ServerProc(c, CHOOSE s \in servers : TRUE)
        ELSE WorkerProc(c, CHOOSE w \in {w \in WorkerIds(c) : \E f \in {kWorkerParam, kWorkerLayer} :
                                           Hash(c, w[1], w[2], f) = h} : TRUE)
  BY DEF ProcsIDOf
<1> HIDE DEF servers
<1>5. (CHOOSE s \in servers : TRUE) = s0 /\ servers # {}
  BY <1>3
<1> QED
  BY <1>4, <1>5

\* So is a worker's, for both flags, if no server's has replaced it.
LEMMA WorkerEntry ==
  ASSUME NEW c \in Config, NEW g \in 0..(c.nwg - 1), NEW i \in 0..(c.nw - 1),
         NEW f \in {kWorkerParam, kWorkerLayer}, ~Replaced(c, <<g, i>>, f)
  PROVE  ProcsIDOf(c, g, i, f) = WorkerProc(c, <<g, i>>)
<1> DEFINE w0 == <<g, i>>
           h == Hash(c, g, i, f)
           servers == {s \in ServerIds(c) : Hash(c, s[1], s[2], kServer) = h}
           workers == {w \in WorkerIds(c) : \E k \in {kWorkerParam, kWorkerLayer} :
                                              Hash(c, w[1], w[2], k) = h}
<1>0. c.nwg \in Nat \ {0} /\ c.nw \in Nat \ {0}
  BY ConfigType
<1>1. w0 \in WorkerIds(c) /\ w0[1] = g /\ w0[2] = i
  BY DEF WorkerIds
<1>2. servers = {}
  <2> SUFFICES ASSUME NEW s \in servers PROVE FALSE
    OBVIOUS
  <2>1. s \in ServerIds(c) /\ Hash(c, s[1], s[2], kServer) = Hash(c, w0[1], w0[2], f)
    BY <1>1
  <2> QED
    BY <1>1, <2>1 DEF Replaced
<1>3. w0 \in workers
  BY <1>1
<1>4. ASSUME NEW w \in workers
      PROVE  w = w0
  <2>1. w[1] \in 0..(c.nwg - 1) /\ w[2] \in 0..(c.nw - 1) /\ w = <<w[1], w[2]>>
    BY DEF WorkerIds
  <2>2. PICK k \in {kWorkerParam, kWorkerLayer} : Hash(c, w[1], w[2], k) = h
    OBVIOUS
  <2>3. k \in {0, 1} /\ f \in {0, 1}
    BY DEF kWorkerParam, kWorkerLayer
  <2> DEFINE a == k * c.nwg + w[1]
             b == f * c.nwg + g
  <2>4. a \in Nat /\ b \in Nat
    BY <1>0, <2>1, <2>3
  <2>5. a * c.nw + w[2] = b * c.nw + i
    BY <2>2, <2>3 DEF Hash, kServer
  <2>6. a = b /\ w[2] = i
    <3> HIDE DEF a, b
    <3> QED
      BY <1>0, <2>1, <2>4, <2>5, Digits
  <2>7. w[1] = g
    BY <1>0, <2>1, <2>3, <2>6
  <2> QED
    BY <2>1, <2>6, <2>7
<1>5. workers = {w0}
  BY <1>3, <1>4
<1>6. ProcsIDOf(c, g, i, f) = IF servers # {} THEN ServerProc(c, CHOOSE s \in servers : TRUE)
                              ELSE WorkerProc(c, CHOOSE w \in workers : TRUE)
  BY DEF ProcsIDOf
<1> HIDE DEF servers, workers
<1>7. (CHOOSE w \in workers : TRUE) = w0
  BY <1>5
<1> QED
  BY <1>2, <1>6, <1>7

(***************************************************************************)
(* The threads of a process                                                *)
(***************************************************************************)
LEMMA ProcCounts ==
  ASSUME NEW c \in Config, Regular(c)
  PROVE  /\ nworker_procs(c) \in Nat /\ nserver_procs(c) \in Nat
         /\ \A g \in 0..(c.nsg - 1), i \in 0..(c.ns - 1) :
              /\ (g * c.ns + i) \div c.spp \in Nat
              /\ (g * c.ns + i) \div c.spp < nserver_procs(c)
         /\ \A g \in 0..(c.nwg - 1), i \in 0..(c.nw - 1) :
              /\ (g * c.nw + i) \div c.wpp \in Nat
              /\ (g * c.nw + i) \div c.wpp < nworker_procs(c)
         /\ Offset(c) = IF c.separate THEN nworker_procs(c) ELSE 0
<1>0. /\ c.nwg \in Nat \ {0} /\ c.nw \in Nat \ {0} /\ c.wpp \in Nat \ {0}
      /\ c.nsg \in Nat \ {0} /\ c.ns \in Nat \ {0} /\ c.spp \in Nat \ {0}
  BY ConfigType
<1>1. (c.nwg * c.nw) % c.wpp = 0 /\ c.ns % c.spp = 0
  BY DEF Regular, Divides
<1>2. (c.nsg * c.ns) % c.spp = 0
  <2> DEFINE m == c.ns \div c.spp
  <2>1. m \in Nat /\ c.ns = m * c.spp
    BY <1>0, <1>1, Multiple
  <2> HIDE DEF m
  <2>2. c.nsg * c.ns = (c.nsg * m) * c.spp
    <3>1. \A k \in Nat : k * c.ns = (k * m) * c.spp
      BY <1>0, <2>1, Scale, SMT
    <3> QED
      BY <1>0, <3>1
  <2>3. c.nsg * m \in Nat
    BY <1>0, <2>1, Times
  <2>4. ((c.nsg * m) * c.spp) % c.spp = 0
    BY <1>0, <2>3, Multiple
  <2> QED
    BY <2>2, <2>4, Zenon
<1>3. c.nwg * c.nw \in Nat /\ c.nsg * c.ns \in Nat
  BY <1>0, Times
<1>4. nworker_procs(c) \in Nat /\ nserver_procs(c) \in Nat
  BY <1>0, <1>3, Multiple DEF nworker_procs, nserver_procs
<1>5. \A g \in 0..(c.nsg - 1), i \in 0..(c.ns - 1) :
        /\ (g * c.ns + i) \div c.spp \in Nat
        /\ (g * c.ns + i) \div c.spp < nserver_procs(c)
  BY <1>0, <1>2, Places DEF nserver_procs
<1>6. /\ \A g \in 0..(c.nwg - 1), i \in 0..(c.nw - 1) :
           /\ (g * c.nw + i) \div c.wpp \in Nat
           /\ (g * c.nw + i) \div c.wpp < nworker_procs(c)
      /\ ((c.nwg - 1) * c.nw + (c.nw - 1)) \div c.wpp + 1 = nworker_procs(c)
  BY <1>0, <1>1, Places DEF nworker_procs
<1>7. Offset(c) = IF c.separate THEN nworker_procs(c) ELSE 0
  BY <1>6 DEF Offset, WorkerProc
<1> QED
  BY <1>4, <1>5, <1>6, <1>7

LEMMA ServersPlaced ==
  ASSUME NEW c \in Config, Regular(c), NEW p \in 0..(nprocs(c) - 1)
  PROVE  CreateServers(c, p) = {s \in ServerIds(c) : ProcsIDOf(c, s[1], s[2], kServer) = p}
<1> DEFINE W == nworker_procs(c)
           S == nserver_procs(c)
           Table == {s \in ServerIds(c) : ProcsIDOf(c, s[1], s[2], kServer) = p}
           off == IF c.separate THEN W ELSE 0
           pid == p - off
<1>0. /\ c.nsg \in Nat \ {0} /\ c.ns \in Nat \ {0} /\ c.spp \in Nat \ {0}
      /\ c.separate \in BOOLEAN /\ c.ns % c.spp = 0
  BY ConfigType DEF Regular, Divides
<1>1. /\ W \in Nat /\ S \in Nat /\ Offset(c) = off
      /\ \A g \in 0..(c.nsg - 1), i \in 0..(c.ns - 1) :
           (g * c.ns + i) \div c.spp \in Nat /\ (g * c.ns + i) \div c.spp < S
  BY ProcCounts
<1>2. ASSUME NEW g \in 0..(c.nsg - 1), NEW i \in 0..(c.ns - 1)
      PROVE  ProcsIDOf(c, g, i, kServer) = p <=> (g * c.ns + i) \div c.spp = pid
  <2>1. ProcsIDOf(c, g, i, kServer) = (g * c.ns + i) \div c.spp + off
    BY <1>1, ServerEntry DEF ServerProc
  <2>2. (g * c.ns + i) \div c.spp \in Nat /\ off \in Nat /\ p \in Int
    BY <1>0, <1>1
  <2> DEFINE x == (g * c.ns + i) \div c.spp
  <2> HIDE DEF x, off
  <2>3. x + off = p <=> x = p - off
    BY <2>2 DEF x
  <2> QED
    BY <2>1, <2>3 DEF x, off
<1>3. has_server(c, p) <=> pid \in Nat /\ pid < S
  <2>1. p \in Int /\ 0 <= p /\ p <= nprocs(c) - 1
    <3>1. nprocs(c) \in Int
      BY <1>0, <1>1 DEF nprocs
    <3> QED
      BY <3>1
  <2>2. CASE c.separate
    BY <1>1, <2>1, <2>2 DEF has_server, nprocs
  <2>3. CASE ~c.separate
    BY <1>1, <2>1, <2>3 DEF has_server, nprocs
  <2> QED
    BY <1>0, <2>2, <2>3
<1>4. CASE ~has_server(c, p)
  <2>1. CreateServers(c, p) = {}
    BY <1>4 DEF CreateServers
  <2>2. ASSUME NEW s \in Table PROVE FALSE
    <3>1. s[1] \in 0..(c.nsg - 1) /\ s[2] \in 0..(c.ns - 1) /\ ProcsIDOf(c, s[1], s[2], kServer) = p
      BY DEF ServerIds
    <3>2. (s[1] * c.ns + s[2]) \div c.spp = pid
      BY <1>2, <3>1
    <3> QED
      BY <1>1, <1>3, <1>4, <3>1, <3>2
  <2> QED
    BY <2>1, <2>2
<1>5. CASE has_server(c, p)
  <2> DEFINE g0 == (pid * c.spp) \div c.ns
             start == (pid * c.spp) % c.ns
  <2>1. pid \in Nat /\ pid < (c.nsg * c.ns) \div c.spp
    BY <1>3, <1>5 DEF nserver_procs
  <2>2. CreateServers(c, p) = {g0} \X (start..(start + c.spp - 1))
    <3>1. pid = IF c.separate THEN p - nworker_procs(c) ELSE p
      <4>1. p \in Int
        OBVIOUS
      <4> QED
        BY <4>1
    <3> QED
      BY <1>5, <3>1 DEF CreateServers
  <2> HIDE DEF pid
  <2>3. IsSegment(c.ns, c.spp, c.nsg, pid, g0, start)
    BY <1>0, <2>1, Segment
  <2>4. /\ g0 \in Nat /\ start \in Nat /\ g0 < c.nsg /\ start + c.spp <= c.ns
        /\ \A g \in Nat, i \in 0..(c.ns - 1) :
             (g * c.ns + i) \div c.spp = pid <=> g = g0 /\ start <= i /\ i < start + c.spp
    BY <2>3 DEF IsSegment
  <2> HIDE DEF g0, start
  <2>5. ASSUME NEW s \in Table
        PROVE  s \in {g0} \X (start..(start + c.spp - 1))
    <3>1. /\ s[1] \in 0..(c.nsg - 1) /\ s[2] \in 0..(c.ns - 1) /\ s = <<s[1], s[2]>>
          /\ ProcsIDOf(c, s[1], s[2], kServer) = p
      BY DEF ServerIds
    <3>2. (s[1] * c.ns + s[2]) \div c.spp = pid
      BY <1>2, <3>1
    <3>3. s[1] \in Nat
      BY <3>1
    <3>4. s[1] = g0 /\ start <= s[2] /\ s[2] < start + c.spp
      BY <2>4, <3>1, <3>2, <3>3
    <3>5. s[2] \in start..(start + c.spp - 1)
      BY <1>0, <2>4, <3>1, <3>4
    <3> QED
      BY <3>1, <3>4, <3>5
  <2>6. ASSUME NEW s \in {g0} \X (start..(start + c.spp - 1))
        PROVE  s \in Table
    <3>1. s[1] = g0 /\ s[2] \in start..(start + c.spp - 1) /\ s = <<s[1], s[2]>>
      OBVIOUS
    <3>2. s[1] \in 0..(c.nsg - 1) /\ s[2] \in 0..(c.ns - 1)
      BY <1>0, <2>4, <3>1
    <3>3. s[1] \in Nat /\ start <= s[2] /\ s[2] < start + c.spp
      BY <1>0, <2>4, <3>1
    <3>4. (s[1] * c.ns + s[2]) \div c.spp = pid
      BY <2>4, <3>1, <3>2, <3>3
    <3>5. ProcsIDOf(c, s[1], s[2], kServer) = p
      BY <1>2, <3>2, <3>4
    <3> QED
      BY <3>1, <3>2, <3>5 DEF ServerIds
  <2> QED
    BY <2>2, <2>5, <2>6
<1> QED
  BY <1>4, <1>5

LEMMA WorkersPlaced ==
  ASSUME NEW c \in Config, Regular(c), NEW p \in 0..(nprocs(c) - 1)
  PROVE  CreateWorkers(c, p) = {w \in WorkerIds(c) : WorkerProc(c, w) = p}
<1> DEFINE W == nworker_procs(c)
           Table == {w \in WorkerIds(c) : WorkerProc(c, w) = p}
<1>0. /\ c.nwg \in Nat \ {0} /\ c.nw \in Nat \ {0} /\ c.wpp \in Nat \ {0}
      /\ (c.nwg * c.nw) % c.wpp = 0
      /\ c.nw % c.wpp = 0 \/ c.wpp % c.nw = 0
  BY ConfigType DEF Regular, Divides
<1>1. /\ W \in Nat
      /\ \A g \in 0..(c.nwg - 1), i \in 0..(c.nw - 1) :
           (g * c.nw + i) \div c.wpp \in Nat /\ (g * c.nw + i) \div c.wpp < W
  BY ProcCounts
<1>2. ASSUME NEW g \in 0..(c.nwg - 1), NEW i \in 0..(c.nw - 1)
      PROVE  WorkerProc(c, <<g, i>>) = p <=> (g * c.nw + i) \div c.wpp = p
  BY DEF WorkerProc
<1>3. \A w \in Table : /\ w[1] \in 0..(c.nwg - 1) /\ w[2] \in 0..(c.nw - 1) /\ w = <<w[1], w[2]>>
                       /\ w[1] \in Nat /\ (w[1] * c.nw + w[2]) \div c.wpp = p
  <2> SUFFICES ASSUME NEW w \in Table
               PROVE  /\ w[1] \in 0..(c.nwg - 1) /\ w[2] \in 0..(c.nw - 1) /\ w = <<w[1], w[2]>>
                      /\ w[1] \in Nat /\ (w[1] * c.nw + w[2]) \div c.wpp = p
    OBVIOUS
  <2>1. /\ w[1] \in 0..(c.nwg - 1) /\ w[2] \in 0..(c.nw - 1) /\ w = <<w[1], w[2]>>
        /\ WorkerProc(c, w) = p
    BY DEF WorkerIds
  <2> QED
    BY <1>2, <2>1
<1>4. ASSUME NEW g \in 0..(c.nwg - 1), NEW i \in 0..(c.nw - 1), (g * c.nw + i) \div c.wpp = p
      PROVE  <<g, i>> \in Table
  BY <1>2, <1>4 DEF WorkerIds
<1>5. p \in Nat
  <2>1. nserver_procs(c) \in Nat /\ nworker_procs(c) \in Nat /\ c.separate \in BOOLEAN
    BY ProcCounts, ConfigType
  <2>2. nprocs(c) \in Nat
    BY <2>1 DEF nprocs
  <2> QED
    BY <2>2
<1> HIDE DEF Table
<1>6. CASE ~has_worker(c, p)
  <2>1. CreateWorkers(c, p) = {}
    BY <1>6 DEF CreateWorkers
  <2>2. \A w \in Table : FALSE
    BY <1>1, <1>3, <1>5, <1>6 DEF has_worker
  <2> QED
    BY <2>1, <2>2 DEF Table
<1>7. CASE has_worker(c, p) /\ c.nw >= c.wpp
  <2> DEFINE g0 == (p * c.wpp) \div c.nw
             start == (p * c.wpp) % c.nw
  <2>1. CreateWorkers(c, p) = {g0} \X (start..(start + c.wpp - 1))
    BY <1>7 DEF CreateWorkers
  <2>2. p < (c.nwg * c.nw) \div c.wpp
    BY <1>7 DEF has_worker, nworker_procs
  <2>3. c.nw % c.wpp = 0
    <3>1. CASE c.wpp % c.nw = 0
      <4> DEFINE k == c.wpp \div c.nw
      <4>1. k \in Nat /\ c.wpp = k * c.nw
        BY <1>0, <3>1, Multiple
      <4> HIDE DEF k
      <4>2. k # 0
        BY <1>0, <4>1
      <4>3. c.nw <= c.wpp
        BY <1>0, <4>1, <4>2
      <4>4. c.wpp = c.nw
        BY <1>0, <1>7, <4>3
      <4> QED
        BY <3>1, <4>4
    <3> QED
      BY <1>0, <3>1
  <2>4. IsSegment(c.nw, c.wpp, c.nwg, p, g0, start)
    BY <1>0, <1>5, <2>2, <2>3, Segment
  <2>5. /\ g0 \in Nat /\ start \in Nat /\ g0 < c.nwg /\ start + c.wpp <= c.nw
        /\ \A g \in Nat, i \in 0..(c.nw - 1) :
             (g * c.nw + i) \div c.wpp = p <=> g = g0 /\ start <= i /\ i < start + c.wpp
    BY <2>4 DEF IsSegment
  <2> HIDE DEF g0, start
  <2>6. ASSUME NEW w \in Table
        PROVE  w \in {g0} \X (start..(start + c.wpp - 1))
    <3>1. w[1] = g0 /\ start <= w[2] /\ w[2] < start + c.wpp
      BY <1>3, <2>5
    <3>2. w[2] \in start..(start + c.wpp - 1)
      BY <1>0, <1>3, <2>5, <3>1
    <3>3. w = <<w[1], w[2]>>
      BY <1>3
    <3> QED
      BY <3>1, <3>2, <3>3
  <2>7. ASSUME NEW w \in {g0} \X (start..(start + c.wpp - 1))
        PROVE  w \in Table
    <3>1. w[1] = g0 /\ w[2] \in start..(start + c.wpp - 1) /\ w = <<w[1], w[2]>>
      OBVIOUS
    <3>2. w[1] \in 0..(c.nwg - 1) /\ w[2] \in 0..(c.nw - 1)
      BY <1>0, <2>5, <3>1
    <3>3. w[1] \in Nat /\ start <= w[2] /\ w[2] < start + c.wpp
      BY <1>0, <2>5, <3>1
    <3>4. (w[1] * c.nw + w[2]) \div c.wpp = p
      BY <2>5, <3>1, <3>2, <3>3
    <3>5. <<w[1], w[2]>> \in Table
      BY <1>4, <3>2, <3>4
    <3> QED
      BY <3>1, <3>5
  <2> QED
    BY <2>1, <2>6, <2>7 DEF Table
<1>8. CASE has_worker(c, p) /\ ~(c.nw >= c.wpp)
  <2> DEFINE per == c.wpp \div c.nw
             first == p * per
             next == (p + 1) * per
  <2>2. p < (c.nwg * c.nw) \div c.wpp
    BY <1>8 DEF has_worker, nworker_procs
  <2>3. c.wpp % c.nw = 0
    <3>1. ASSUME c.nw % c.wpp = 0 PROVE FALSE
      <4>1. c.nw < c.wpp
        BY <1>0, <1>8
      <4>2. \A x, d \in Nat \ {0} : x < d => x % d = x
        OBVIOUS
      <4> QED
        BY <1>0, <3>1, <4>1, <4>2
    <3> QED
      BY <1>0, <3>1
  <2>1. CreateWorkers(c, p) = (first..(next - 1)) \X (0..(c.nw - 1))
    BY <1>8, <2>3 DEF CreateWorkers, Divides
  <2>4. per \in Nat /\ c.wpp = per * c.nw
    BY <1>0, <2>3, Multiple
  <2> HIDE DEF per
  <2>5. AreGroups(c.nw, c.wpp, c.nwg, p, per)
    BY <1>0, <1>5, <2>4, WholeGroups
  <2>6. first \in Nat /\ next \in Nat
    BY <1>5, <2>4, Times
  <2>7. /\ next <= c.nwg
        /\ \A g \in Nat, i \in 0..(c.nw - 1) :
             (g * c.nw + i) \div c.wpp = p <=> first <= g /\ g < next
    BY <2>2, <2>5 DEF AreGroups
  <2> HIDE DEF first, next
  <2>8. ASSUME NEW w \in Table
        PROVE  w \in (first..(next - 1)) \X (0..(c.nw - 1))
    <3>1. first <= w[1] /\ w[1] < next /\ w[1] \in Nat
      BY <1>3, <2>7
    <3>2. w[1] \in first..(next - 1)
      BY <2>6, <3>1
    <3>3. w = <<w[1], w[2]>> /\ w[2] \in 0..(c.nw - 1)
      BY <1>3
    <3> QED
      BY <3>2, <3>3
  <2>9. ASSUME NEW w \in (first..(next - 1)) \X (0..(c.nw - 1))
        PROVE  w \in Table
    <3>1. w[1] \in first..(next - 1) /\ w[2] \in 0..(c.nw - 1) /\ w = <<w[1], w[2]>>
      OBVIOUS
    <3>2. w[1] \in 0..(c.nwg - 1) /\ w[1] \in Nat /\ first <= w[1] /\ w[1] < next
      BY <1>0, <2>6, <2>7, <3>1
    <3>3. (w[1] * c.nw + w[2]) \div c.wpp = p
      BY <2>7, <3>1, <3>2
    <3>4. <<w[1], w[2]>> \in Table
      BY <1>4, <3>1, <3>2, <3>3
    <3> QED
      BY <3>1, <3>4
  <2> QED
    BY <2>1, <2>8, <2>9 DEF Table
<1> QED
  BY <1>6, <1>7, <1>8

\* With at most twice as many workers as servers the hashes for parameters are
\* below those of the servers.
LEMMA ParamEntriesStay ==
  ASSUME NEW c \in Config, c.nwg * c.nw <= 2 * c.nsg * c.ns, NEW w \in WorkerIds(c)
  PROVE  ~Replaced(c, w, kWorkerParam)
<1> SUFFICES ASSUME NEW s \in ServerIds(c), Hash(c, s[1], s[2], kServer) = Hash(c, w[1], w[2], kWorkerParam)
             PROVE  FALSE
  BY DEF Replaced
<1>1. PICK g, i, h, k, nw, nwg, ns, nsg :
        /\ g = w[1] /\ i = w[2] /\ h = s[1] /\ k = s[2]
        /\ nw = c.nw /\ nwg = c.nwg /\ ns = c.ns /\ nsg = c.nsg
  OBVIOUS
<1>2. /\ nwg \in Nat \ {0} /\ nw \in Nat \ {0} /\ nsg \in Nat \ {0} /\ ns \in Nat \ {0}
      /\ g \in 0..(nwg - 1) /\ i \in 0..(nw - 1) /\ h \in 0..(nsg - 1) /\ k \in 0..(ns - 1)
  BY <1>1, ConfigType DEF WorkerIds, ServerIds
<1>3. (2 * nsg + h) * ns + k = (0 * nwg + g) * nw + i /\ nwg * nw <= (2 * nsg) * ns
  BY <1>1 DEF Hash, kServer, kWorkerParam
<1>4. g \in Nat /\ g < nwg /\ 0 * nwg + g = g /\ 2 * nsg \in Nat /\ h \in Nat
  BY <1>2
<1>5. g * nw + nw <= nwg * nw /\ (2 * nsg + h) * ns = (2 * nsg) * ns + h * ns
  BY <1>2, <1>4, Times
<1>6. PICK a, b, d, e : a = g * nw /\ b = nwg * nw /\ d = (2 * nsg) * ns /\ e = h * ns
  OBVIOUS
<1>7. a \in Nat /\ b \in Nat /\ d \in Nat /\ e \in Nat
  BY <1>2, <1>4, <1>6, Times
<1>8. d + e + k = a + i /\ b <= d /\ a + nw <= b
  BY <1>3, <1>4, <1>5, <1>6
<1>9. k \in Nat /\ i \in Nat /\ i < nw /\ nw \in Nat
  BY <1>2
<1> QED
  BY <1>7, <1>8, <1>9

\* Whatever the numbers of groups, of workers and servers and of threads to a
\* process.
LEMMA TopologyAgrees == \A c \in Config : ThreadsArePlaced(c)
<1> SUFFICES ASSUME NEW c \in Config, Regular(c) PROVE ThreadsArePlaced(c)
  BY DEF ThreadsArePlaced
<1>1. ASSUME NEW p \in 0..(nprocs(c) - 1), NEW f \in {kWorkerParam, kWorkerLayer}, NEW w \in WorkerIds(c),
             ~Replaced(c, w, f)
      PROVE  w \in CreateWorkers(c, p) <=> ProcsIDOf(c, w[1], w[2], f) = p
  <2>1. w[1] \in 0..(c.nwg - 1) /\ w[2] \in 0..(c.nw - 1) /\ w = <<w[1], w[2]>>
    BY DEF WorkerIds
  <2>2. ~Replaced(c, <<w[1], w[2]>>, f)
    BY <1>1, <2>1
  <2>3. ProcsIDOf(c, w[1], w[2], f) = WorkerProc(c, w)
    BY <2>1, <2>2, WorkerEntry
  <2> QED
    BY <2>3, WorkersPlaced
<1>2. \A p \in 0..(nprocs(c) - 1) : CreateWorkers(c, p) \subseteq WorkerIds(c)
  BY WorkersPlaced
<1> QED
  BY <1>1, <1>2, ServersPlaced, ParamEntriesStay DEF ThreadsArePlaced

\* For clusters of any numbers of groups, of workers, of servers and of threads
\* to a process: a process creates exactly the servers, and of the workers
\* whose entries are their own exactly those, that every other process sends
\* to it; and for parameters all entries are their own with at most twice as
\* many workers as servers.
THEOREM SetupPlaced == Spec => []Placed
<1>1. Init => conf \in Config
  BY InputsAssumption DEF Init, SliceInit
<1>2. conf \in Config /\ [Next]_vars => (conf \in Config)'
  BY DEF Next, vars, sliceVars, BuildNet, StartSlicing, SliceParams, SliceAndPartition, SliceStep,
     Slice, NextParam, AssignSlice, EndPartition
<1>3. conf \in Config => Placed
  BY TopologyAgrees DEF Placed
<1>4. Spec => Init /\ [][Next]_vars
  BY PTL DEF Spec
<1> QED
  BY <1>1, <1>2, <1>3, <1>4, PTL

-----------------------------------------------------------------------------
(***************************************************************************)
(* The sorted net                                                          *)
(***************************************************************************)
\* The nodes sorted before the k-th.
Before(k) == {order[j] : j \in 1..(k - 1)}

\* Each node was visitable when it was put in order.
VisitedInOrder(k) ==
  LET srcs == Srcs(graph, order[k])
  IN  IF BiDirection(order[k]) /\ Len(srcs) > 1 THEN srcs[1] \in Before(k)
                                                ELSE Range(srcs) \subseteq Before(k)

SortInv ==
  /\ \E S : order \in Seq(S)
  /\ \A k \in 1..Len(order) : VisitedInOrder(k)

\* A bidirectional node with several sources is itself a source of all but the
\* first, as the layers of an RBM are.
PairsOnly ==
  \A n \in Range(order) : LET srcs == Srcs(graph, n) IN
    BiDirection(n) /\ Len(srcs) > 1 =>
      \A s \in Range(srcs) : s # srcs[1] => <<n, s>> \in Range(graph.edges)

LEMMA SortSame ==
  ASSUME SortInv, UNCHANGED <<graph, order>>
  PROVE  SortInv'
<1>1. graph' = graph /\ order' = order
  OBVIOUS
<1>2. PICK l : l = Len(order)
  OBVIOUS
<1>3. \A x : BiDirection(x)' <=> BiDirection(x)
  BY <1>1 DEF BiDirection
<1>4. \A k : Before(k)' = Before(k)
  BY <1>1 DEF Before
<1>5. ASSUME NEW k \in 1..l
      PROVE  VisitedInOrder(k)'
  <2>1. VisitedInOrder(k)
    BY <1>2 DEF SortInv
  <2> QED
    BY <1>1, <1>3, <1>4, <2>1 DEF VisitedInOrder
<1> QED
  BY <1>1, <1>2, <1>5 DEF SortInv

LEMMA SortVisit ==
  ASSUME SortInv, Visit
  PROVE  SortInv'
<1> DEFINE n == Head(queue)
<1>0. graph' = graph
  BY DEF Visit
<1>l. PICK l \in Nat : l = Len(order)
  BY LenProperties DEF SortInv
<1>b. \A x : BiDirection(x)' <=> BiDirection(x)
  BY <1>0 DEF BiDirection
<1>1. CASE ~Visitable(n)
  <2>1. order' = order
    BY <1>1 DEF Visit
  <2> QED
    BY <1>0, <2>1, SortSame
<1>2. CASE Visitable(n)
  <2>1. order' = Append(order, n)
    BY <1>2 DEF Visit
  <2>2. PICK S : order \in Seq(S)
    BY DEF SortInv
  <2>3. order \in Seq(S \cup {n}) /\ n \in S \cup {n}
    <3>1. S \subseteq S \cup {n}
      OBVIOUS
    <3> QED
      BY <2>2, <3>1
  <2>4. /\ order' \in Seq(S \cup {n}) /\ l \in Nat /\ Len(order') = l + 1
        /\ order'[l + 1] = n /\ \A i \in 1..l : order'[i] = order[i]
    BY <1>l, <2>1, <2>3, AppendProperties, LenProperties
  <2>5. Range(order) = {order[j] : j \in 1..l}
    BY <1>l, <2>2 DEF Range
  <2>6. \A i \in 1..(l + 1) : i \in 1..l \/ i = l + 1
    BY <2>4
  <2> HIDE DEF n
  <2>8. \A k \in 1..(l + 1) : Before(k)' = Before(k)
    <3> SUFFICES ASSUME NEW k \in 1..(l + 1)
                 PROVE  Before(k)' = Before(k)
      OBVIOUS
    <3>1. \A j \in 1..(k - 1) : j \in 1..l
      BY <2>4
    <3> QED
      BY <2>4, <3>1 DEF Before
  <2>9. ASSUME NEW k \in 1..l
        PROVE  VisitedInOrder(k)'
    <3>1. VisitedInOrder(k) /\ order'[k] = order[k] /\ Before(k)' = Before(k)
      BY <1>l, <2>4, <2>8 DEF SortInv
    <3> QED
      BY <1>0, <1>b, <3>1 DEF VisitedInOrder
  <2>10. VisitedInOrder(l + 1)'
    <3>1. Before(l + 1)' = Range(order) /\ order'[l + 1] = n
      <4>1. (l + 1) - 1 = l /\ l + 1 \in 1..(l + 1)
        BY <2>4
      <4> QED
        BY <2>4, <2>5, <2>8, <4>1 DEF Before
    <3> QED
      BY <1>0, <1>2, <1>b, <3>1 DEF VisitedInOrder, Visitable
  <2> QED
    BY <2>4, <2>6, <2>9, <2>10 DEF SortInv
<1> QED
  BY <1>1, <1>2

LEMMA SortStep == SortInv /\ [Next]_vars => SortInv'
<1> SUFFICES ASSUME SortInv, [Next]_vars
             PROVE  SortInv'
  OBVIOUS
<1>1. CASE Visit
  BY <1>1, SortVisit
<1>2. CASE UNCHANGED <<graph, order>>
  BY <1>2, SortSame
<1>3. CASE order' = << >>
  <2>1. order' \in Seq({}) /\ Len(order') = 0
    BY <1>3
  <2> QED
    BY <2>1 DEF SortInv
<1> QED
  BY <1>1, <1>2, <1>3 DEF Next, BuildNet, NetStep, EndSort, BeginSort, StartSlicing, SliceAndPartition,
     vars, netVars

LEMMA SortSources == SortInv /\ PairsOnly => SourcesFirst
<1> SUFFICES ASSUME SortInv, PairsOnly, NEW k \in DOMAIN order, NEW s \in Range(Srcs(graph, order[k]))
             PROVE  \/ s \in Range(SubSeq(order, 1, k - 1))
                    \/ <<order[k], s>> \in Range(graph.edges)
  BY DEF SourcesFirst
<1> DEFINE srcs == Srcs(graph, order[k])
<1>1. PICK S : order \in Seq(S)
  BY DEF SortInv
<1>2. k \in 1..Len(order) /\ Len(order) \in Nat /\ VisitedInOrder(k) /\ order[k] \in Range(order)
  BY <1>1, LenProperties DEF SortInv, Range
<1>3. \/ s \in Before(k)
      \/ <<order[k], s>> \in Range(graph.edges)
  BY <1>2 DEF VisitedInOrder, PairsOnly
<1>4. ASSUME s \in Before(k)
      PROVE  s \in Range(SubSeq(order, 1, k - 1))
  <2> DEFINE before == SubSeq(order, 1, k - 1)
  <2>1. PICK j \in 1..(k - 1) : s = order[j]
    BY <1>4 DEF Before
  <2>2. 1 \in 1..(Len(order) + 1) /\ k - 1 \in 0..Len(order) /\ k - 1 \in (1 - 1)..Len(order)
    BY <1>2
  <2>3. before = [i \in 1..(k - 1) |-> order[i]]
    BY <1>1, <1>2, <2>2
  <2>4. j \in DOMAIN before /\ before[j] = s
    BY <2>1, <2>3
  <2> QED
    BY <2>4 DEF Range
<1> QED
  BY <1>3, <1>4

\* In both sorts, and at every turn of their loops, a node comes behind all its
\* sources, but for those it is a source of itself; nets in which a node of a
\* bidirectional pair has further sources are the exception, since the code
\* waits for the first source only.
THEOREM SetupSourcesFirst == Spec => [](PairsOnly => SourcesFirst)
<1>1. Init => SortInv
  <2> SUFFICES ASSUME Init PROVE SortInv
    OBVIOUS
  <2>1. order = << >>
    BY DEF Init, NetInit
  <2>2. order \in Seq({}) /\ Len(order) = 0
    BY <2>1
  <2> QED
    BY <2>2 DEF SortInv
<1>2. SortInv => (PairsOnly => SourcesFirst)
  BY SortSources
<1>3. Spec => Init /\ [][Next]_vars
  BY PTL DEF Spec
<1> QED
  BY <1>1, <1>2, <1>3, SortStep, PTL

-----------------------------------------------------------------------------
(***************************************************************************)
(* Induction over the natural numbers                                      *)
(***************************************************************************)

Less == {p \in Nat \X Nat : p[1] < p[2]}

LEMMA LessWellFounded == IsWellFoundedOn(Less, Nat)
BY NatLessThanWellFounded DEF OpToRel, Less

LEMMA Induction ==
  ASSUME NEW S, 0 \in S, \A n \in Nat : n \in S => n + 1 \in S
  PROVE  Nat \subseteq S
<1> DEFINE T == Nat \ S
<1> SUFFICES ASSUME T # {} PROVE FALSE
  OBVIOUS
<1>1. PICK x \in T : \A y \in T : ~(<<y, x>> \in Less)
  BY LessWellFounded, WFMin
<1>2. x # 0 /\ x - 1 \in Nat /\ x - 1 < x
  OBVIOUS
<1>3. <<x - 1, x>> \in Less
  BY <1>2 DEF Less
<1>4. x - 1 \in S
  BY <1>1, <1>2, <1>3
<1> QED BY <1>2, <1>4

\* The same from 0 up to a bound.
LEMMA InductionTo ==
  ASSUME NEW N \in Nat, NEW S, 0 \in S, \A n \in 0..(N - 1) : n \in S => n + 1 \in S
  PROVE  \A n \in 0..N : n \in S
<1> DEFINE T == {n \in Nat : n <= N => n \in S}
<1>1. 0 \in T
  OBVIOUS
<1>2. \A n \in Nat : n \in T => n + 1 \in T
  OBVIOUS
<1> HIDE DEF T
<1>3. Nat \subseteq T
  BY <1>1, <1>2, Induction
<1> QED
  BY <1>3 DEF T

\* f is the recursive function over 0..N that begins with b and goes on by F.
Steps(N, V, F) == F \in [1..N -> [V -> V]]
Runs(f, N, V, b, F) == f \in [0..N -> V] /\ f[0] = b /\ \A n \in 1..N : f[n] = F[n][f[n - 1]]

\* Such a function exists.
LEMMA Recursion ==
  ASSUME NEW N \in Nat, NEW V, NEW b \in V, NEW F, Steps(N, V, F)
  PROVE  \E f : Runs(f, N, V, b, F)
<1>0. F \in [1..N -> [V -> V]]
  BY DEF Steps
<1> DEFINE Is(f, m) == f[0] = b /\ \A n \in 1..m : f[n] = F[n][f[n - 1]]
           S == {m \in 0..N : \E f \in [0..m -> V] : Is(f, m)}
<1>1. 0 \in S
  <2> DEFINE f == [n \in 0..0 |-> b]
  <2>1. f \in [0..0 -> V] /\ Is(f, 0)
    OBVIOUS
  <2>2. 0 \in 0..N
    OBVIOUS
  <2> HIDE DEF f
  <2> QED BY <2>1, <2>2
<1>2. ASSUME NEW m \in 0..(N - 1), m \in S
      PROVE  m + 1 \in S
  <2>1. PICK f \in [0..m -> V] : Is(f, m)
    BY <1>2
  <2> DEFINE g == [n \in 0..(m + 1) |-> IF n = m + 1 THEN F[m + 1][f[m]] ELSE f[n]]
  <2>2. m + 1 \in 1..N /\ m \in 0..m /\ f[m] \in V /\ m + 1 \in 0..N
    OBVIOUS
  <2>3. g \in [0..(m + 1) -> V] /\ g[0] = b
    BY <1>0, <2>1, <2>2
  <2>4. ASSUME NEW n \in 1..(m + 1)
        PROVE  g[n] = F[n][g[n - 1]]
    <3>1. CASE n = m + 1
      <4>1. n - 1 = m /\ g[m] = f[m]
        BY <3>1
      <4> QED BY <3>1, <4>1
    <3>2. CASE n # m + 1
      <4>1. n \in 1..m /\ g[n] = f[n] /\ n - 1 \in 0..m /\ g[n - 1] = f[n - 1]
        BY <3>2
      <4> QED BY <2>1, <4>1
    <3> QED BY <3>1, <3>2
  <2>5. Is(g, m + 1)
    BY <2>3, <2>4
  <2> HIDE DEF g
  <2> QED BY <2>2, <2>3, <2>5
<1> HIDE DEF S
<1>3. \A n \in 0..N : n \in S
  BY <1>1, <1>2, InductionTo
<1>4. PICK f \in [0..N -> V] : Is(f, N)
  BY <1>3 DEF S
<1> QED BY <1>4 DEF Runs
-----------------------------------------------------------------------------
(***************************************************************************)
(* Sums                                                                    *)
(***************************************************************************)
\* The sums of the first elements.
Sums(s) == CHOOSE sum : sum = [k \in 0..Len(s) |-> IF k = 0 THEN 0 ELSE sum[k - 1] + s[k]]

LEMMA SumIs ==
  ASSUME NEW s \in Seq(Int)
  PROVE  /\ Len(s) \in Nat /\ Sum(s) = Sums(s)[Len(s)] /\ Sums(s) \in [0..Len(s) -> Int]
         /\ Sums(s)[0] = 0 /\ \A k \in 1..Len(s) : Sums(s)[k] = Sums(s)[k - 1] + s[k]
<1> DEFINE F == [k \in 1..Len(s) |-> [v \in Int |-> v + s[k]]]
           N == Len(s)
           Is(f) == f = [k \in 0..N |-> IF k = 0 THEN 0 ELSE f[k - 1] + s[k]]
<1>1. N \in Nat /\ 0 \in Int /\ F \in [1..N -> [Int -> Int]]
  BY LenProperties
<1>2. \A k \in 1..N : \A v \in Int : F[k][v] = v + s[k]
  OBVIOUS
<1> HIDE DEF F, N
<1>3. PICK f \in [0..N -> Int] : f[0] = 0 /\ \A k \in 1..N : f[k] = F[k][f[k - 1]]
  <2>1. Steps(N, Int, F)
    BY <1>1 DEF Steps
  <2>2. \E f : Runs(f, N, Int, 0, F)
    BY <1>1, <2>1, Recursion
  <2> QED
    BY <2>2 DEF Runs
<1>4. Is(f)
  <2>1. ASSUME NEW k \in 0..N, k # 0 PROVE f[k] = f[k - 1] + s[k]
    <3>1. k \in 1..N /\ k - 1 \in 0..N /\ f[k - 1] \in Int
      BY <1>1, <2>1
    <3> QED
      BY <1>2, <1>3, <3>1
  <2> QED
    BY <1>3, <2>1
<1>5. Is(Sums(s))
  BY <1>4 DEF Sums, N
<1> HIDE DEF Is
<1>6. DOMAIN Sums(s) = 0..N /\ Sums(s)[0] = 0 /\ \A k \in 1..N : Sums(s)[k] = Sums(s)[k - 1] + s[k]
  <2>1. PICK u : u = Sums(s)
    OBVIOUS
  <2>2. DOMAIN u = 0..N /\ \A k \in 0..N : u[k] = IF k = 0 THEN 0 ELSE u[k - 1] + s[k]
    BY <1>5, <2>1 DEF Is
  <2>3. 0 \in 0..N /\ \A k \in 1..N : k \in 0..N /\ k # 0
    BY <1>1
  <2> QED
    BY <2>1, <2>2, <2>3
<1>7. \A k \in 0..N : k \in {j \in 0..N : Sums(s)[j] \in Int}
  <2> DEFINE S == {j \in 0..N : Sums(s)[j] \in Int}
  <2>1. 0 \in S
    BY <1>1, <1>6
  <2>2. ASSUME NEW k \in 0..(N - 1), k \in S PROVE k + 1 \in S
    <3>1. k + 1 \in 1..N /\ k + 1 \in 0..N /\ (k + 1) - 1 = k
      BY <1>1
    <3>2. s[k + 1] \in Int
      BY <3>1, ElementOfSeq DEF N
    <3> QED
      BY <1>6, <2>2, <3>1, <3>2
  <2> HIDE DEF S
  <2> QED
    BY <1>1, <2>1, <2>2, InductionTo DEF S
<1>8. Sums(s) \in [0..N -> Int]
  <2>1. Sums(s) = [k \in 0..N |-> Sums(s)[k]]
    BY <1>5, <1>6 DEF Is
  <2> QED
    BY <1>7, <2>1
<1>9. Sum(s) = Sums(s)[N]
  BY DEF Sum, Sums, N
<1> QED
  BY <1>1, <1>6, <1>8, <1>9 DEF N

LEMMA SumsAgree ==
  ASSUME NEW s \in Seq(Int), NEW t \in Seq(Int), NEW n \in Nat, n <= Len(s), n <= Len(t),
         \A k \in 1..n : s[k] = t[k]
  PROVE  Sums(s)[n] = Sums(t)[n]
<1> DEFINE S == {k \in 0..n : Sums(s)[k] = Sums(t)[k]}
<1>1. 0 \in S
  BY SumIs
<1>2. ASSUME NEW k \in 0..(n - 1), k \in S PROVE k + 1 \in S
  <2>1. k + 1 \in 1..n /\ k + 1 \in 1..Len(s) /\ k + 1 \in 1..Len(t) /\ (k + 1) - 1 = k /\ k + 1 \in 0..n
    BY LenProperties
  <2>2. Sums(s)[k + 1] = Sums(s)[k] + s[k + 1] /\ Sums(t)[k + 1] = Sums(t)[k] + t[k + 1]
    BY <2>1, SumIs
  <2> QED
    BY <1>2, <2>1, <2>2
<1> HIDE DEF S
<1>3. \A k \in 0..n : k \in S
  BY <1>1, <1>2, InductionTo
<1> QED
  BY <1>3 DEF S

LEMMA SumType == ASSUME NEW s \in Seq(Int) PROVE Sum(s) \in Int
BY SumIs

LEMMA SumEmpty == Sum(<< >>) = 0
<1>1. << >> \in Seq(Int) /\ Len(<< >>) = 0
  BY EmptySeq
<1> QED
  BY <1>1, SumIs

\* One more element at the end.
LEMMA SumLonger ==
  ASSUME NEW s \in Seq(Int), NEW t \in Seq(Int), Len(t) = Len(s) + 1, \A k \in 1..Len(s) : t[k] = s[k]
  PROVE  Sum(t) = Sum(s) + t[Len(t)]
<1>1. Len(s) \in Nat /\ Len(t) \in 1..Len(t) /\ Len(t) - 1 = Len(s) /\ Len(s) <= Len(t)
  BY LenProperties
<1>2. Sums(t)[Len(s)] = Sums(s)[Len(s)]
  <2>1. \A k \in 1..Len(s) : s[k] = t[k]
    OBVIOUS
  <2>2. Len(s) <= Len(s)
    BY <1>1
  <2>3. Sums(s)[Len(s)] = Sums(t)[Len(s)]
    BY <1>1, <2>1, <2>2, SumsAgree, Zenon
  <2> QED
    BY <2>3
<1>3. Sum(s) = Sums(s)[Len(s)] /\ Sum(t) = Sums(t)[Len(t)]
  BY SumIs, Zenon
<1>4. Sums(t)[Len(t)] = Sums(t)[Len(t) - 1] + t[Len(t)]
  BY <1>1, SumIs
<1> QED
  BY <1>1, <1>2, <1>3, <1>4

LEMMA SumAppend ==
  ASSUME NEW s \in Seq(Int), NEW x \in Int
  PROVE  Sum(Append(s, x)) = Sum(s) + x
<1> DEFINE t == Append(s, x)
<1>1. t \in Seq(Int) /\ Len(t) = Len(s) + 1 /\ (\A k \in 1..Len(s) : t[k] = s[k]) /\ t[Len(t)] = x
  BY AppendProperties
<1> HIDE DEF t
<1>2. Sum(t) = Sum(s) + x
  BY <1>1, SumLonger
<1> QED
  BY <1>2 DEF t

\* One more element at the beginning.
LEMMA SumFirst ==
  ASSUME NEW s \in Seq(Int), NEW t \in Seq(Int), Len(t) = Len(s) + 1, \A k \in 1..Len(s) : t[k + 1] = s[k]
  PROVE  Sum(t) = t[1] + Sum(s)
<1> DEFINE S == {k \in 0..Len(s) : Sums(t)[k + 1] = t[1] + Sums(s)[k]}
<1>0. Len(s) \in Nat
  BY LenProperties
<1>1. 0 \in S
  <2>1. 1 \in 1..Len(t) /\ 1 - 1 = 0 /\ t[1] \in Int
    BY <1>0, ElementOfSeq
  <2>2. Sums(t)[1] = Sums(t)[0] + t[1] /\ Sums(t)[0] = 0 /\ Sums(s)[0] = 0
    BY <2>1, SumIs
  <2> QED
    BY <1>0, <2>1, <2>2
<1>2. ASSUME NEW k \in 0..(Len(s) - 1), k \in S PROVE k + 1 \in S
  <2>1. /\ k + 1 \in 1..Len(s) /\ (k + 1) + 1 \in 1..Len(t) /\ (k + 1) - 1 = k
        /\ ((k + 1) + 1) - 1 = k + 1 /\ k + 1 \in 0..Len(s) /\ k \in 0..Len(s) /\ 1 \in 1..Len(t)
    BY <1>0
  <2>2. Sums(s)[k + 1] = Sums(s)[k] + s[k + 1] /\ Sums(t)[(k + 1) + 1] = Sums(t)[k + 1] + t[(k + 1) + 1]
    BY <2>1, SumIs
  <2>3. t[1] \in Int /\ s[k + 1] \in Int /\ Sums(s)[k] \in Int /\ t[(k + 1) + 1] = s[k + 1]
    BY <2>1, SumIs, ElementOfSeq
  <2>4. Sums(t)[k + 1] = t[1] + Sums(s)[k]
    BY <1>2
  <2>5. Sums(t)[(k + 1) + 1] = t[1] + Sums(s)[k + 1]
    BY <2>2, <2>3, <2>4
  <2> QED
    BY <2>1, <2>5
<1> HIDE DEF S
<1>3. \A k \in 0..Len(s) : k \in S
  BY <1>0, <1>1, <1>2, InductionTo
<1>4. Sums(t)[Len(t)] = t[1] + Sums(s)[Len(s)]
  BY <1>0, <1>3 DEF S
<1> QED
  BY <1>4, SumIs

LEMMA SumNat ==
  ASSUME NEW s \in Seq(Nat)
  PROVE  s \in Seq(Int) /\ Sum(s) \in Nat
<1> DEFINE S == {k \in 0..Len(s) : Sums(s)[k] \in Nat}
<1>0. s \in Seq(Int) /\ Len(s) \in Nat
  BY LenProperties
<1>1. 0 \in S
  BY <1>0, SumIs
<1>2. ASSUME NEW k \in 0..(Len(s) - 1), k \in S PROVE k + 1 \in S
  <2>1. k + 1 \in 1..Len(s) /\ (k + 1) - 1 = k /\ k + 1 \in 0..Len(s)
    BY <1>0
  <2>2. Sums(s)[k + 1] = Sums(s)[k] + s[k + 1] /\ s[k + 1] \in Nat
    BY <1>0, <2>1, SumIs, ElementOfSeq
  <2> QED
    BY <1>2, <2>1, <2>2
<1> HIDE DEF S
<1>3. \A k \in 0..Len(s) : k \in S
  BY <1>0, <1>1, <1>2, InductionTo
<1>4. Sums(s)[Len(s)] \in Nat
  BY <1>0, <1>3 DEF S
<1> QED
  BY <1>0, <1>4, SumIs
-----------------------------------------------------------------------------
(***************************************************************************)
(* Keep and FlattenSeq                                                     *)
(***************************************************************************)
\* What is kept of the first elements.
Kept(s, b) ==
  CHOOSE kept : kept = [k \in 0..Len(s) |->
    IF k = 0 THEN << >> ELSE IF b[k] THEN Append(kept[k - 1], s[k]) ELSE kept[k - 1]]

LEMMA KeptIs ==
  ASSUME NEW S, NEW s \in Seq(S), NEW b \in [1..Len(s) -> BOOLEAN]
  PROVE  /\ Len(s) \in Nat /\ Keep(s, b) = Kept(s, b)[Len(s)]
         /\ Kept(s, b)[0] = << >>
         /\ \A k \in 1..Len(s) : Kept(s, b)[k] = IF b[k] THEN Append(Kept(s, b)[k - 1], s[k])
                                                         ELSE Kept(s, b)[k - 1]
<1> DEFINE N == Len(s)
           F == [k \in 1..N |-> [v \in Seq(S) |-> IF b[k] THEN Append(v, s[k]) ELSE v]]
           Is(f) == f = [k \in 0..N |->
             IF k = 0 THEN << >> ELSE IF b[k] THEN Append(f[k - 1], s[k]) ELSE f[k - 1]]
<1>1. N \in Nat /\ << >> \in Seq(S)
  BY LenProperties, EmptySeq
<1>2. Steps(N, Seq(S), F)
  <2>1. ASSUME NEW k \in 1..N, NEW v \in Seq(S) PROVE Append(v, s[k]) \in Seq(S)
    BY ElementOfSeq, AppendProperties
  <2> QED
    BY <2>1 DEF Steps
<1>3. \A k \in 1..N : \A v \in Seq(S) : F[k][v] = IF b[k] THEN Append(v, s[k]) ELSE v
  OBVIOUS
<1> HIDE DEF F, N
<1>4. PICK f : Runs(f, N, Seq(S), << >>, F)
  BY <1>1, <1>2, Recursion
<1>5. f \in [0..N -> Seq(S)] /\ f[0] = << >> /\ \A k \in 1..N : f[k] = F[k][f[k - 1]]
  BY <1>4 DEF Runs
<1>6. Is(f)
  <2>1. ASSUME NEW k \in 0..N, k # 0
        PROVE  f[k] = IF b[k] THEN Append(f[k - 1], s[k]) ELSE f[k - 1]
    <3>1. k \in 1..N /\ k - 1 \in 0..N /\ f[k - 1] \in Seq(S)
      BY <1>1, <1>5, <2>1
    <3> QED
      BY <1>3, <1>5, <3>1
  <2> QED
    BY <1>5, <2>1
<1>7. Is(Kept(s, b))
  BY <1>6 DEF Kept, N
<1> HIDE DEF Is
<1>8. PICK u : u = Kept(s, b)
  OBVIOUS
<1>9. \A k \in 0..N : u[k] = IF k = 0 THEN << >> ELSE IF b[k] THEN Append(u[k - 1], s[k]) ELSE u[k - 1]
  BY <1>7, <1>8 DEF Is
<1>10. 0 \in 0..N /\ \A k \in 1..N : k \in 0..N /\ k # 0
  BY <1>1
<1>11. u[0] = << >> /\ \A k \in 1..N : u[k] = IF b[k] THEN Append(u[k - 1], s[k]) ELSE u[k - 1]
  BY <1>9, <1>10
<1>12. Keep(s, b) = Kept(s, b)[N]
  BY DEF Keep, Kept, N
<1> QED
  BY <1>1, <1>8, <1>11, <1>12 DEF N

\* No element twice.
Once(s) == \A i, j \in 1..Len(s) : s[i] = s[j] => i = j

LEMMA RangeIs ==
  ASSUME NEW S, NEW s \in Seq(S)
  PROVE  Range(s) = {s[i] : i \in 1..Len(s)} /\ Range(s) \subseteq S
BY LenProperties DEF Range

LEMMA AppendOnce ==
  ASSUME NEW S, NEW s \in Seq(S), NEW x \in S
  PROVE  /\ Range(Append(s, x)) = Range(s) \cup {x}
         /\ Once(s) /\ x \notin Range(s) => Once(Append(s, x))
<1> DEFINE t == Append(s, x)
<1>1. /\ t \in Seq(S) /\ Len(t) = Len(s) + 1 /\ Len(s) \in Nat
      /\ (\A k \in 1..Len(s) : t[k] = s[k]) /\ t[Len(s) + 1] = x
  BY AppendProperties, LenProperties
<1> HIDE DEF t
<1>2. Range(s) = {s[i] : i \in 1..Len(s)} /\ Range(t) = {t[i] : i \in 1..Len(t)}
  BY <1>1, RangeIs
<1>3. \A i \in 1..Len(t) : i \in 1..Len(s) \/ i = Len(s) + 1
  BY <1>1
<1>4. Len(s) + 1 \in 1..Len(t) /\ \A i \in 1..Len(s) : i \in 1..Len(t)
  BY <1>1
<1>5. Range(t) = Range(s) \cup {x}
  BY <1>1, <1>2, <1>3, <1>4
<1>6. Once(s) /\ x \notin Range(s) => Once(t)
  <2> SUFFICES ASSUME Once(s), x \notin Range(s), NEW i \in 1..Len(t), NEW j \in 1..Len(t), t[i] = t[j]
               PROVE  i = j
    BY DEF Once
  <2>1. \A k \in 1..Len(s) : t[k] # x
    BY <1>1, <1>2
  <2> QED
    BY <1>1, <1>3, <2>1 DEF Once
<1> QED
  BY <1>5, <1>6 DEF t

\* What Keep returns.
LEMMA KeepIs ==
  ASSUME NEW S, NEW s \in Seq(S), NEW b \in [1..Len(s) -> BOOLEAN]
  PROVE  /\ Keep(s, b) \in Seq(S)
         /\ Range(Keep(s, b)) = {s[k] : k \in {j \in 1..Len(s) : b[j]}}
         /\ (\A i, j \in 1..Len(s) : b[i] /\ b[j] /\ s[i] = s[j] => i = j) => Once(Keep(s, b))
<1> DEFINE N == Len(s)
           At(k) == {s[i] : i \in {j \in 1..k : b[j]}}
           apart == \A i, j \in 1..N : b[i] /\ b[j] /\ s[i] = s[j] => i = j
           OK(k, t) == t \in Seq(S) /\ Range(t) = At(k) /\ (apart => Once(t))
           T == {k \in 0..N : OK(k, Kept(s, b)[k])}
<1>1. N \in Nat
  BY LenProperties
<1>2. 0 \in T
  <2>1. Kept(s, b)[0] = << >> /\ << >> \in Seq(S) /\ Len(<< >>) = 0
    BY KeptIs, EmptySeq
  <2>2. Range(<< >>) = {} /\ At(0) = {} /\ Once(<< >>)
    BY DEF Range, Once
  <2>3. OK(0, Kept(s, b)[0])
    BY <2>1, <2>2, Zenon
  <2> HIDE DEF OK
  <2> QED
    BY <1>1, <2>3
<1>3. ASSUME NEW k \in 0..(N - 1), k \in T PROVE k + 1 \in T
  <2> DEFINE t == Kept(s, b)[k]
  <2>1. k + 1 \in 1..N /\ k + 1 \in 0..N /\ (k + 1) - 1 = k /\ s[k + 1] \in S
    BY <1>1, ElementOfSeq
  <2>2. Kept(s, b)[k + 1] = IF b[k + 1] THEN Append(t, s[k + 1]) ELSE t
    BY <2>1, KeptIs
  <2>3. t \in Seq(S) /\ Range(t) = At(k) /\ (apart => Once(t))
    BY <1>3
  <2>4. \A j : j \in 1..(k + 1) <=> j \in 1..k \/ j = k + 1
    BY <1>1
  <2>5. At(k + 1) = IF b[k + 1] THEN At(k) \cup {s[k + 1]} ELSE At(k)
    BY <2>4
  <2>6. apart /\ b[k + 1] => s[k + 1] \notin At(k)
    <3> SUFFICES ASSUME apart, b[k + 1], NEW i \in 1..k, b[i], s[i] = s[k + 1] PROVE FALSE
      OBVIOUS
    <3>1. i \in 1..N /\ i # k + 1
      BY <1>1
    <3> QED
      BY <2>1, <3>1
  <2> HIDE DEF t, At, apart
  <2>7. CASE b[k + 1]
    <3>1. Append(t, s[k + 1]) \in Seq(S)
      BY <2>1, <2>3, AppendProperties
    <3>2. /\ Range(Append(t, s[k + 1])) = Range(t) \cup {s[k + 1]}
          /\ Once(t) /\ s[k + 1] \notin Range(t) => Once(Append(t, s[k + 1]))
      BY <2>1, <2>3, AppendOnce
    <3>3. Kept(s, b)[k + 1] = Append(t, s[k + 1]) /\ At(k + 1) = At(k) \cup {s[k + 1]}
      BY <2>2, <2>5, <2>7
    <3> QED
      BY <2>1, <2>3, <2>6, <2>7, <3>1, <3>2, <3>3, Zenon
  <2>8. CASE ~b[k + 1]
    BY <2>1, <2>2, <2>3, <2>5, <2>8
  <2> QED
    BY <2>7, <2>8
<1> HIDE DEF T, OK
<1>4. \A k \in 0..N : k \in T
  BY <1>1, <1>2, <1>3, InductionTo
<1>5. OK(N, Kept(s, b)[N])
  BY <1>1, <1>4 DEF T
<1> QED
  BY <1>5, KeptIs DEF OK

\* The concatenation of the first i sequences.
Flattened(seqs) ==
  CHOOSE flatten : flatten = [i \in 1..Len(seqs) |->
    IF i = 1 THEN seqs[i] ELSE flatten[i - 1] \o seqs[i]]

LEMMA FlattenedIs ==
  ASSUME NEW S, NEW seqs \in Seq(Seq(S)), seqs # << >>
  PROVE  /\ Len(seqs) \in Nat \ {0} /\ FlattenSeq(seqs) = Flattened(seqs)[Len(seqs)]
         /\ Flattened(seqs)[1] = seqs[1]
         /\ \A i \in 2..Len(seqs) : Flattened(seqs)[i] = Flattened(seqs)[i - 1] \o seqs[i]
<1> DEFINE N == Len(seqs)
           F == [k \in 1..N |-> [v \in Seq(S) |-> v \o seqs[k]]]
           Is(f) == f = [i \in 1..N |-> IF i = 1 THEN seqs[i] ELSE f[i - 1] \o seqs[i]]
<1>1. N \in Nat \ {0} /\ << >> \in Seq(S)
  BY EmptySeq
<1>2. \A k \in 1..N : seqs[k] \in Seq(S)
  BY ElementOfSeq
<1>3. Steps(N, Seq(S), F)
  <2>1. ASSUME NEW k \in 1..N, NEW v \in Seq(S) PROVE v \o seqs[k] \in Seq(S)
    BY <1>2, ConcatProperties
  <2> QED
    BY <2>1 DEF Steps
<1>4. \A k \in 1..N : \A v \in Seq(S) : F[k][v] = v \o seqs[k]
  OBVIOUS
<1> HIDE DEF F, N
<1>5. PICK f : Runs(f, N, Seq(S), << >>, F)
  BY <1>1, <1>3, Recursion
<1>6. f \in [0..N -> Seq(S)] /\ f[0] = << >> /\ \A k \in 1..N : f[k] = F[k][f[k - 1]]
  BY <1>5 DEF Runs
<1>7. ASSUME NEW k \in 1..N
      PROVE  f[k] = IF k = 1 THEN seqs[k] ELSE f[k - 1] \o seqs[k]
  <2>1. k - 1 \in 0..N /\ f[k - 1] \in Seq(S) /\ seqs[k] \in Seq(S)
    BY <1>1, <1>2, <1>6
  <2>2. f[k] = f[k - 1] \o seqs[k]
    BY <1>4, <1>6, <2>1
  <2>3. CASE k = 1
    <3>1. f[k - 1] = << >>
      BY <1>6, <2>3
    <3>2. << >> \o seqs[k] = seqs[k]
      BY <2>1, ConcatEmptySeq
    <3> QED
      BY <2>2, <2>3, <3>1, <3>2
  <2> QED
    BY <2>2, <2>3
<1> DEFINE g == [i \in 1..N |-> f[i]]
<1>8. Is(g)
  <2>1. \A i \in 1..N : i # 1 => i - 1 \in 1..N
    BY <1>1
  <2>2. \A i \in 1..N : g[i] = IF i = 1 THEN seqs[i] ELSE g[i - 1] \o seqs[i]
    BY <1>7, <2>1
  <2>3. DOMAIN g = 1..N /\ g = [i \in 1..N |-> g[i]]
    OBVIOUS
  <2> HIDE DEF g
  <2> QED
    BY <2>2, <2>3
<1> HIDE DEF g
<1>9. Is(Flattened(seqs))
  BY <1>8 DEF Flattened, N
<1> HIDE DEF Is
<1>10. PICK u : u = Flattened(seqs)
  OBVIOUS
<1>11. \A i \in 1..N : u[i] = IF i = 1 THEN seqs[i] ELSE u[i - 1] \o seqs[i]
  BY <1>9, <1>10 DEF Is
<1>12. 1 \in 1..N /\ \A i \in 2..N : i \in 1..N /\ i # 1
  BY <1>1
<1>13. u[1] = seqs[1] /\ \A i \in 2..N : u[i] = u[i - 1] \o seqs[i]
  BY <1>11, <1>12
<1>14. FlattenSeq(seqs) = Flattened(seqs)[N]
  BY <1>1 DEF FlattenSeq, Flattened, N
<1> QED
  BY <1>1, <1>10, <1>13, <1>14 DEF N

\* What FlattenSeq returns.
LEMMA FlattenIs ==
  ASSUME NEW S, NEW seqs \in Seq(Seq(S))
  PROVE  /\ FlattenSeq(seqs) \in Seq(S)
         /\ Range(FlattenSeq(seqs)) = UNION {Range(seqs[i]) : i \in 1..Len(seqs)}
<1> DEFINE N == Len(seqs)
           Some(k) == UNION {Range(seqs[i]) : i \in 1..k}
<1>0. N \in Nat
  BY LenProperties
<1>1. CASE seqs = << >>
  <2>1. Len(seqs) = 0 /\ seqs \in Seq(S)
    BY <1>1, EmptySeq
  <2>2. FlattenSeq(seqs) = seqs
    BY <2>1 DEF FlattenSeq
  <2>3. Range(seqs) = {} /\ Some(0) = {}
    BY <1>1 DEF Range
  <2> QED
    BY <2>1, <2>2, <2>3
<1>2. CASE seqs # << >>
  <2> DEFINE f == Flattened(seqs)
             OK(k, t) == t \in Seq(S) /\ Range(t) = Some(k)
             T == {k \in 0..N : k = 0 \/ OK(k, f[k])}
  <2>0. N \in Nat \ {0} /\ f[1] = seqs[1] /\ \A i \in 2..N : f[i] = f[i - 1] \o seqs[i]
    BY <1>2, FlattenedIs
  <2> HIDE DEF f
  <2>1. 0 \in T
    BY <1>0
  <2>2. ASSUME NEW k \in 0..(N - 1), k \in T PROVE k + 1 \in T
    <3>1. k + 1 \in 1..N /\ k + 1 \in 0..N /\ (k + 1) - 1 = k /\ seqs[k + 1] \in Seq(S)
      BY <2>0, ElementOfSeq
    <3>2. OK(k + 1, f[k + 1])
      <4>1. \A j : j \in 1..(k + 1) <=> j \in 1..k \/ j = k + 1
        BY <2>0
      <4>2. Some(k + 1) = Some(k) \cup Range(seqs[k + 1])
        BY <4>1
      <4>3. CASE k = 0
        <5>1. Some(0) = {} /\ f[k + 1] = seqs[k + 1]
          BY <2>0, <4>3
        <5> HIDE DEF Some
        <5> QED
          BY <3>1, <4>2, <4>3, <5>1
      <4>4. CASE k # 0
        <5>1. OK(k, f[k]) /\ k + 1 \in 2..N
          BY <2>0, <2>2, <4>4
        <5>2. f[k + 1] = f[k] \o seqs[k + 1]
          BY <2>0, <3>1, <5>1
        <5> HIDE DEF Some
        <5>3. f[k] \o seqs[k + 1] \in Seq(S)
          BY <3>1, <5>1, ConcatProperties
        <5>4. Range(f[k] \o seqs[k + 1]) = Range(f[k]) \cup Range(seqs[k + 1])
          BY <3>1, <5>1, RangeConcatenation
        <5> QED
          BY <4>2, <5>1, <5>2, <5>3, <5>4, Zenon
      <4> QED
        BY <4>3, <4>4
    <3> HIDE DEF OK
    <3> QED
      BY <3>1, <3>2
  <2> HIDE DEF T, OK
  <2>3. \A k \in 0..N : k \in T
    BY <1>0, <2>1, <2>2, InductionTo
  <2>4. OK(N, f[N])
    BY <2>0, <2>3 DEF T
  <2> QED
    BY <1>2, <2>4, FlattenedIs DEF OK, f
<1> QED
  BY <1>1, <1>2

\* No two elements of s are related by R.
OnceBy(s, R) == \A a, b \in 1..Len(s) : <<s[a], s[b]>> \in R => a = b

LEMMA ConcatOnceBy ==
  ASSUME NEW S, NEW R, NEW s \in Seq(S), NEW t \in Seq(S), OnceBy(s, R), OnceBy(t, R),
         \A x \in Range(s), y \in Range(t) : ~(<<x, y>> \in R) /\ ~(<<y, x>> \in R)
  PROVE  OnceBy(s \o t, R)
<1> DEFINE u == s \o t
<1>1. /\ Len(s) \in Nat /\ Len(t) \in Nat /\ Len(u) = Len(s) + Len(t)
      /\ \A i \in 1..Len(u) : u[i] = IF i <= Len(s) THEN s[i] ELSE t[i - Len(s)]
  BY ConcatProperties, LenProperties
<1>2. \A i \in 1..Len(s) : s[i] \in Range(s)
  BY RangeIs
<1>3. \A i \in 1..Len(t) : t[i] \in Range(t)
  BY RangeIs
<1> HIDE DEF u
<1>4. ASSUME NEW a \in 1..Len(u), NEW b \in 1..Len(u), <<u[a], u[b]>> \in R PROVE a = b
  <2>1. /\ a <= Len(s) => a \in 1..Len(s) /\ u[a] = s[a]
        /\ ~(a <= Len(s)) => a - Len(s) \in 1..Len(t) /\ u[a] = t[a - Len(s)]
        /\ b <= Len(s) => b \in 1..Len(s) /\ u[b] = s[b]
        /\ ~(b <= Len(s)) => b - Len(s) \in 1..Len(t) /\ u[b] = t[b - Len(s)]
    BY <1>1
  <2>2. CASE a <= Len(s) /\ b <= Len(s)
    BY <1>4, <2>1, <2>2 DEF OnceBy
  <2>3. CASE ~(a <= Len(s)) /\ ~(b <= Len(s))
    <3>1. a - Len(s) = b - Len(s)
      BY <1>4, <2>1, <2>3 DEF OnceBy
    <3> QED
      BY <1>1, <3>1
  <2>4. CASE a <= Len(s) /\ ~(b <= Len(s))
    <3>1. u[a] \in Range(s) /\ u[b] \in Range(t)
      BY <1>2, <1>3, <2>1, <2>4
    <3> QED
      BY <1>4, <3>1
  <2>5. CASE ~(a <= Len(s)) /\ b <= Len(s)
    <3>1. u[b] \in Range(s) /\ u[a] \in Range(t)
      BY <1>2, <1>3, <2>1, <2>5
    <3> QED
      BY <1>4, <3>1
  <2> QED
    BY <2>2, <2>3, <2>4, <2>5
<1> QED
  BY <1>4 DEF OnceBy, u

\* The same for the concatenation of many.
NotAcross(seqs, R) ==
  \A i, j \in 1..Len(seqs) : i # j =>
    \A x \in Range(seqs[i]), y \in Range(seqs[j]) : ~(<<x, y>> \in R)

LEMMA FlattenOnceBy ==
  ASSUME NEW S, NEW R, NEW seqs \in Seq(Seq(S)), \A i \in 1..Len(seqs) : OnceBy(seqs[i], R),
         NotAcross(seqs, R)
  PROVE  OnceBy(FlattenSeq(seqs), R)
<1> DEFINE N == Len(seqs)
           Some(k) == UNION {Range(seqs[i]) : i \in 1..k}
<1>0. N \in Nat
  BY LenProperties
<1>1. CASE seqs = << >>
  <2>1. Len(seqs) = 0
    BY <1>1, EmptySeq
  <2>2. FlattenSeq(seqs) = seqs
    BY <2>1 DEF FlattenSeq
  <2> QED
    BY <2>1, <2>2 DEF OnceBy
<1>2. CASE seqs # << >>
  <2> DEFINE f == Flattened(seqs)
             OK(k, t) == t \in Seq(S) /\ Range(t) = Some(k) /\ OnceBy(t, R)
             T == {k \in 0..N : k = 0 \/ OK(k, f[k])}
  <2>0. N \in Nat \ {0} /\ f[1] = seqs[1] /\ \A i \in 2..N : f[i] = f[i - 1] \o seqs[i]
    BY <1>2, FlattenedIs
  <2> HIDE DEF f
  <2>1. 0 \in T
    BY <1>0
  <2>2. ASSUME NEW k \in 0..(N - 1), k \in T PROVE k + 1 \in T
    <3>1. k + 1 \in 1..N /\ k + 1 \in 0..N /\ (k + 1) - 1 = k /\ seqs[k + 1] \in Seq(S)
      BY <2>0, ElementOfSeq
    <3>2. OK(k + 1, f[k + 1])
      <4>1. \A j : j \in 1..(k + 1) <=> j \in 1..k \/ j = k + 1
        BY <2>0
      <4>2. Some(k + 1) = Some(k) \cup Range(seqs[k + 1])
        BY <4>1
      <4>3. CASE k = 0
        <5>1. Some(0) = {} /\ f[k + 1] = seqs[k + 1]
          BY <2>0, <4>3
        <5> HIDE DEF Some
        <5> QED
          BY <3>1, <4>2, <4>3, <5>1
      <4>4. CASE k # 0
        <5>1. OK(k, f[k]) /\ k + 1 \in 2..N
          BY <2>0, <2>2, <4>4
        <5>2. f[k + 1] = f[k] \o seqs[k + 1]
          BY <2>0, <3>1, <5>1
        <5>5. \A x \in Some(k), y \in Range(seqs[k + 1]) : ~(<<x, y>> \in R) /\ ~(<<y, x>> \in R)
          <6> SUFFICES ASSUME NEW i \in 1..k, NEW x \in Range(seqs[i]), NEW y \in Range(seqs[k + 1])
                       PROVE  ~(<<x, y>> \in R) /\ ~(<<y, x>> \in R)
            OBVIOUS
          <6>1. i \in 1..N /\ i # k + 1
            BY <2>0
          <6> QED
            BY <3>1, <6>1 DEF NotAcross
        <5> HIDE DEF Some
        <5>3. f[k] \o seqs[k + 1] \in Seq(S)
          BY <3>1, <5>1, ConcatProperties
        <5>4. Range(f[k] \o seqs[k + 1]) = Range(f[k]) \cup Range(seqs[k + 1])
          BY <3>1, <5>1, RangeConcatenation
        <5>6. OnceBy(f[k] \o seqs[k + 1], R)
          BY <3>1, <5>1, <5>5, ConcatOnceBy
        <5> QED
          BY <4>2, <5>1, <5>2, <5>3, <5>4, <5>6, Zenon
      <4> QED
        BY <4>3, <4>4
    <3> HIDE DEF OK
    <3> QED
      BY <3>1, <3>2
  <2> HIDE DEF T, OK
  <2>3. \A k \in 0..N : k \in T
    BY <1>0, <2>1, <2>2, InductionTo
  <2>4. OK(N, f[N])
    BY <2>0, <2>3 DEF T
  <2> QED
    BY <1>2, <2>4, FlattenedIs DEF OK, f
<1> QED
  BY <1>1, <1>2

\* No element twice is the case of equality.
LEMMA OnceByEqual ==
  ASSUME NEW S, NEW s \in Seq(S)
  PROVE  OnceBy(s, {<<x, x>> : x \in S}) <=> Once(s)
<1>1. \A a \in 1..Len(s) : s[a] \in S
  BY ElementOfSeq
<1>2. \A x, y \in S : <<x, y>> \in {<<z, z>> : z \in S} <=> x = y
  OBVIOUS
<1> QED
  BY <1>1, <1>2 DEF OnceBy, Once
-----------------------------------------------------------------------------
(***************************************************************************)
(* Nodes and graphs                                                        *)
(***************************************************************************)
Kinds == {"layer", "slice", "split", "concate", "bridgesrc", "bridgedst"}
NodeSet == [kind : Kinds, l : DOMAIN net, i : Nat, via : Nat \X Nat]
EdgeSet == NodeSet \X NodeSet
GraphSet == [nodes : Seq(NodeSet), edges : Seq(EdgeSet)]

LEMMA EdgeType == \A a, b \in NodeSet : <<a, b>> \in EdgeSet
BY DEF EdgeSet

NetGiven == net \in Seq(Layers(Len(net))) /\ np \in Nat \ {0}

LEMMA LayerIs ==
  ASSUME NetGiven
  PROVE  /\ Len(net) \in Nat /\ DOMAIN net = 1..Len(net)
         /\ \A l \in DOMAIN net :
              /\ l \in Nat /\ net[l].pdim \in {-1, 0, 1} /\ net[l].srcs \in Seq(DOMAIN net)
              /\ net[l].conn \in {"one", "all"} /\ net[l].many \in BOOLEAN /\ net[l].size \in Nat
<1>1. Len(net) \in Nat /\ DOMAIN net = 1..Len(net)
  BY LenProperties DEF NetGiven
<1>2. \A l \in DOMAIN net : net[l] \in Layers(Len(net)) /\ l \in Nat
  BY <1>1, ElementOfSeq DEF NetGiven
<1> QED
  BY <1>1, <1>2 DEF Layers

\* f maps the sequence s of elements of S to one of elements of T.
Along(f, s) == f = [k \in DOMAIN s |-> f[k]]
Maps(f, s, S, T) == s \in Seq(S) /\ Along(f, s) /\ \A k \in 1..Len(s) : f[k] \in T

LEMMA MapIs ==
  ASSUME NEW f, NEW s, NEW S, NEW T, Maps(f, s, S, T)
  PROVE  f \in Seq(T) /\ Len(f) = Len(s) /\ DOMAIN s = 1..Len(s) /\ DOMAIN f = 1..Len(s)
<1>1. Len(s) \in Nat /\ DOMAIN s = 1..Len(s) /\ DOMAIN f = 1..Len(s) /\ f = [k \in 1..Len(s) |-> f[k]]
  BY LenProperties DEF Maps, Along
<1>2. f \in [1..Len(s) -> T]
  BY <1>1 DEF Maps
<1>3. f \in Seq(T)
  BY <1>1, <1>2, SeqDef
<1> QED
  BY <1>1, <1>3, LenProperties

LEMMA NodeType ==
  ASSUME NEW kind \in Kinds, NEW l \in DOMAIN net, NEW i \in Nat, NEW via \in Nat \X Nat
  PROVE  /\ Node(kind, l, i, via) \in NodeSet
         /\ Node(kind, l, i, via).kind = kind /\ Node(kind, l, i, via).l = l
         /\ Node(kind, l, i, via).i = i /\ Node(kind, l, i, via).via = via
BY DEF Node, NodeSet

LEMMA NodesOfIs ==
  ASSUME NetGiven, NEW l \in DOMAIN net
  PROVE  /\ Parts(l) \in Nat \ {0} /\ NodesOf(l) \in Seq(NodeSet) /\ Len(NodesOf(l)) = Parts(l)
         /\ \A k \in 1..Parts(l) : /\ NodesOf(l)[k] = LayerNode(l, k - 1) /\ NodesOf(l)[k] \in NodeSet
                                   /\ NodesOf(l)[k].kind = "layer" /\ NodesOf(l)[k].l = l
                                   /\ NodesOf(l)[k].i = k - 1
<1>1. Parts(l) \in Nat \ {0}
  BY DEF Parts, NetGiven
<1>2. \A k \in 1..Parts(l) : NodesOf(l)[k] = LayerNode(l, k - 1)
  BY DEF NodesOf
<1>3. ASSUME NEW k \in 1..Parts(l)
      PROVE  /\ LayerNode(l, k - 1) \in NodeSet /\ LayerNode(l, k - 1).kind = "layer"
             /\ LayerNode(l, k - 1).l = l /\ LayerNode(l, k - 1).i = k - 1
  <2>1. k - 1 \in Nat /\ <<0, 0>> \in Nat \X Nat /\ "layer" \in Kinds
    BY <1>1 DEF Kinds
  <2> QED
    BY <2>1, NodeType DEF LayerNode
<1>4. NodesOf(l) \in [1..Parts(l) -> NodeSet]
  BY <1>3 DEF NodesOf
<1>5. NodesOf(l) \in Seq(NodeSet)
  BY <1>1, <1>4, SeqDef
<1>6. Len(NodesOf(l)) = Parts(l)
  BY <1>1, <1>4, <1>5, LenProperties
<1> QED
  BY <1>1, <1>2, <1>3, <1>5, <1>6

\* What AddAll adds.
LEMMA AddAllIs ==
  ASSUME NEW g \in GraphSet, NEW pieces \in Seq(GraphSet)
  PROVE  /\ AddAll(g, pieces) \in GraphSet
         /\ Range(AddAll(g, pieces).nodes)
              = Range(g.nodes) \cup UNION {Range(pieces[k].nodes) : k \in 1..Len(pieces)}
         /\ Range(AddAll(g, pieces).edges)
              = Range(g.edges) \cup UNION {Range(pieces[k].edges) : k \in 1..Len(pieces)}
<1> DEFINE ns == [k \in DOMAIN pieces |-> pieces[k].nodes]
           es == [k \in DOMAIN pieces |-> pieces[k].edges]
<1>1. \A k \in 1..Len(pieces) : pieces[k] \in GraphSet
  BY ElementOfSeq
<1>2. \A k \in 1..Len(pieces) : pieces[k].nodes \in Seq(NodeSet) /\ pieces[k].edges \in Seq(EdgeSet)
  BY <1>1 DEF GraphSet
<1>3. DOMAIN pieces = 1..Len(pieces)
  BY LenProperties
<1>4. \A k \in 1..Len(pieces) : ns[k] = pieces[k].nodes /\ es[k] = pieces[k].edges
  BY <1>3
<1>5. Along(ns, pieces) /\ Along(es, pieces)
  BY DEF Along
<1>6. /\ AddAll(g, pieces).nodes = g.nodes \o FlattenSeq(ns)
      /\ AddAll(g, pieces).edges = g.edges \o FlattenSeq(es)
      /\ AddAll(g, pieces) = [nodes |-> g.nodes \o FlattenSeq(ns), edges |-> g.edges \o FlattenSeq(es)]
  BY DEF AddAll, Piece
<1> HIDE DEF ns, es
<1>7. ns \in Seq(Seq(NodeSet)) /\ Len(ns) = Len(pieces)
  <2>1. \A k \in 1..Len(pieces) : ns[k] \in Seq(NodeSet)
    BY <1>2, <1>4
  <2> QED
    <3>m. Maps(ns, pieces, GraphSet, Seq(NodeSet))
      BY <1>5, <2>1 DEF Maps
    <3> QED
      BY <3>m, MapIs
<1>8. es \in Seq(Seq(EdgeSet)) /\ Len(es) = Len(pieces)
  <2>1. \A k \in 1..Len(pieces) : es[k] \in Seq(EdgeSet)
    BY <1>2, <1>4
  <2> QED
    <3>m. Maps(es, pieces, GraphSet, Seq(EdgeSet))
      BY <1>5, <2>1 DEF Maps
    <3> QED
      BY <3>m, MapIs
<1>9. /\ FlattenSeq(ns) \in Seq(NodeSet)
      /\ Range(FlattenSeq(ns)) = UNION {Range(ns[k]) : k \in 1..Len(ns)}
  BY <1>7, FlattenIs
<1>10. /\ FlattenSeq(es) \in Seq(EdgeSet)
       /\ Range(FlattenSeq(es)) = UNION {Range(es[k]) : k \in 1..Len(es)}
  BY <1>8, FlattenIs
<1>11. g.nodes \in Seq(NodeSet) /\ g.edges \in Seq(EdgeSet)
  BY DEF GraphSet
<1>12. /\ g.nodes \o FlattenSeq(ns) \in Seq(NodeSet)
       /\ Range(g.nodes \o FlattenSeq(ns)) = Range(g.nodes) \cup Range(FlattenSeq(ns))
  BY <1>9, <1>11, ConcatProperties, RangeConcatenation
<1>13. /\ g.edges \o FlattenSeq(es) \in Seq(EdgeSet)
       /\ Range(g.edges \o FlattenSeq(es)) = Range(g.edges) \cup Range(FlattenSeq(es))
  BY <1>10, <1>11, ConcatProperties, RangeConcatenation
<1>14. AddAll(g, pieces) \in GraphSet
  BY <1>6, <1>12, <1>13 DEF GraphSet
<1>15. /\ UNION {Range(ns[k]) : k \in 1..Len(ns)} = UNION {Range(pieces[k].nodes) : k \in 1..Len(pieces)}
       /\ UNION {Range(es[k]) : k \in 1..Len(es)} = UNION {Range(pieces[k].edges) : k \in 1..Len(pieces)}
  BY <1>4, <1>7, <1>8
<1> QED
  BY <1>6, <1>9, <1>10, <1>12, <1>13, <1>14, <1>15, Zenon

Outs(n, s) == {<<n, m>> : m \in Range(s)}
Ins(s, n) == {<<m, n>> : m \in Range(s)}

\* The edges between a node and nodes in a row.
LEMMA FanIs ==
  ASSUME NEW n \in NodeSet, NEW s \in Seq(NodeSet)
  PROVE  /\ To(n, s) \in Seq(EdgeSet) /\ Range(To(n, s)) = Outs(n, s)
         /\ From(s, n) \in Seq(EdgeSet) /\ Range(From(s, n)) = Ins(s, n)
<1>1. \A k \in 1..Len(s) : s[k] \in NodeSet
  BY ElementOfSeq
<1>2. Range(s) = {s[k] : k \in 1..Len(s)} /\ DOMAIN s = 1..Len(s)
  BY RangeIs, LenProperties
<1>3. \A k \in 1..Len(s) : To(n, s)[k] = <<n, s[k]>> /\ From(s, n)[k] = <<s[k], n>>
  BY <1>2 DEF To, From
<1>4. Along(To(n, s), s) /\ Along(From(s, n), s)
  BY DEF To, From, Along
<1>5. To(n, s) \in Seq(EdgeSet) /\ Len(To(n, s)) = Len(s)
  <2>1. \A k \in 1..Len(s) : To(n, s)[k] \in EdgeSet
    BY <1>1, <1>3, EdgeType, Zenon
  <2> QED
    <3>m. Maps(To(n, s), s, NodeSet, EdgeSet)
      BY <1>4, <2>1 DEF Maps
    <3> QED
      BY <3>m, MapIs
<1>6. From(s, n) \in Seq(EdgeSet) /\ Len(From(s, n)) = Len(s)
  <2>1. \A k \in 1..Len(s) : From(s, n)[k] \in EdgeSet
    BY <1>1, <1>3, EdgeType, Zenon
  <2> QED
    <3>m. Maps(From(s, n), s, NodeSet, EdgeSet)
      BY <1>4, <2>1 DEF Maps
    <3> QED
      BY <3>m, MapIs
<1>7. Range(To(n, s)) = {To(n, s)[k] : k \in 1..Len(s)} /\ Range(From(s, n)) = {From(s, n)[k] : k \in 1..Len(s)}
  BY <1>5, <1>6, RangeIs
<1>8. Range(To(n, s)) = Outs(n, s)
  <2>1. ASSUME NEW e \in Range(To(n, s)) PROVE e \in Outs(n, s)
    <3>1. PICK k \in 1..Len(s) : e = To(n, s)[k]
      BY <1>7
    <3>2. e = <<n, s[k]>> /\ s[k] \in Range(s)
      BY <1>2, <1>3, <3>1
    <3> QED
      BY <3>2 DEF Outs, Ins
  <2>2. ASSUME NEW m \in Range(s) PROVE <<n, m>> \in Range(To(n, s))
    <3>1. PICK k \in 1..Len(s) : m = s[k]
      BY <1>2
    <3>2. To(n, s)[k] = <<n, m>>
      BY <1>3, <3>1
    <3> QED
      BY <1>7, <3>2
  <2> QED
    BY <2>1, <2>2 DEF Outs
<1>9. Range(From(s, n)) = Ins(s, n)
  <2>1. ASSUME NEW e \in Range(From(s, n)) PROVE e \in Ins(s, n)
    <3>1. PICK k \in 1..Len(s) : e = From(s, n)[k]
      BY <1>7
    <3>2. e = <<s[k], n>> /\ s[k] \in Range(s)
      BY <1>2, <1>3, <3>1
    <3> QED
      BY <3>2 DEF Outs, Ins
  <2>2. ASSUME NEW m \in Range(s) PROVE <<m, n>> \in Range(From(s, n))
    <3>1. PICK k \in 1..Len(s) : m = s[k]
      BY <1>2
    <3>2. From(s, n)[k] = <<m, n>>
      BY <1>3, <3>1
    <3> QED
      BY <1>7, <3>2
  <2> QED
    BY <2>1, <2>2 DEF Ins
<1> QED
  BY <1>5, <1>6, <1>8, <1>9

LEMMA SingleIs ==
  ASSUME NEW S, NEW x \in S
  PROVE  <<x>> \in Seq(S) /\ Len(<<x>>) = 1 /\ Range(<<x>>) = {x}
BY DEF Range

LEMMA AfterOne ==
  ASSUME NEW S, NEW x \in S, NEW s \in Seq(S)
  PROVE  <<x>> \o s \in Seq(S) /\ Range(<<x>> \o s) = {x} \cup Range(s)
<1>1. PICK t \in Seq(S) : t = <<x>> /\ Range(t) = {x}
  BY SingleIs
<1>2. t \o s \in Seq(S) /\ Range(t \o s) = Range(t) \cup Range(s)
  BY ConcatProperties, RangeConcatenation
<1> QED
  BY <1>1, <1>2, Zenon

\* The nodes that are put between others.
Between(kind, src, via) == Node(kind, src.l, src.i, via)

\* The piece p has the node n, the edge e of it and the edges E.
HasNode(p, n, e, E) ==
  /\ n \in NodeSet /\ p \in GraphSet /\ p.nodes = <<n>>
  /\ Range(p.nodes) = {n} /\ Range(p.edges) = {e} \cup E

LEMMA BetweenIs ==
  ASSUME NEW src \in NodeSet, NEW s \in Seq(NodeSet), NEW via \in Nat \X Nat,
         NEW sl, sl = Between("slice", src, via),
         NEW sp, sp = Between("split", src, via),
         NEW co, co = Between("concate", src, via)
  PROVE  /\ HasNode(SliceNode(src, s, via), sl, <<src, sl>>, Outs(sl, s))
         /\ HasNode(SplitNode(src, s, via), sp, <<src, sp>>, Outs(sp, s))
         /\ HasNode(ConcateNodes(s, src, via), co, <<co, src>>, Ins(s, co))
         /\ ConcateNodes(s, src, via).edges = <<<<co, src>>>> \o From(s, co)
<1>1. src.l \in DOMAIN net /\ src.i \in Nat
  BY DEF NodeSet
<1>2. sl \in NodeSet /\ sp \in NodeSet /\ co \in NodeSet
  <2>1. "slice" \in Kinds /\ "split" \in Kinds /\ "concate" \in Kinds
    BY DEF Kinds
  <2> QED
    BY <1>1, <2>1, NodeType DEF Between
<1>3. \A n \in NodeSet : <<n>> \in Seq(NodeSet) /\ Range(<<n>>) = {n}
  BY SingleIs
<1>4. /\ <<src, sl>> \in EdgeSet /\ <<src, sp>> \in EdgeSet
      /\ <<co, src>> \in EdgeSet
  BY <1>2, EdgeType
<1>5. /\ To(sl, s) \in Seq(EdgeSet) /\ Range(To(sl, s)) = Outs(sl, s)
      /\ To(sp, s) \in Seq(EdgeSet) /\ Range(To(sp, s)) = Outs(sp, s)
      /\ From(s, co) \in Seq(EdgeSet) /\ Range(From(s, co)) = Ins(s, co)
  BY <1>2, FanIs
<1>6. /\ <<<<src, sl>>>> \o To(sl, s) \in Seq(EdgeSet)
      /\ Range(<<<<src, sl>>>> \o To(sl, s)) = {<<src, sl>>} \cup Range(To(sl, s))
      /\ <<<<src, sp>>>> \o To(sp, s) \in Seq(EdgeSet)
      /\ Range(<<<<src, sp>>>> \o To(sp, s)) = {<<src, sp>>} \cup Range(To(sp, s))
      /\ <<<<co, src>>>> \o From(s, co) \in Seq(EdgeSet)
      /\ Range(<<<<co, src>>>> \o From(s, co)) = {<<co, src>>} \cup Range(From(s, co))
  <2>1. /\ <<<<src, sl>>>> \o To(sl, s) \in Seq(EdgeSet)
        /\ Range(<<<<src, sl>>>> \o To(sl, s)) = {<<src, sl>>} \cup Range(To(sl, s))
    <3>1. PICK e \in EdgeSet : e = <<src, sl>>
      BY <1>4
    <3>2. <<e>> \o To(sl, s) \in Seq(EdgeSet) /\ Range(<<e>> \o To(sl, s)) = {e} \cup Range(To(sl, s))
      BY <1>5, AfterOne
    <3> QED
      BY <3>1, <3>2, Zenon
  <2>2. /\ <<<<src, sp>>>> \o To(sp, s) \in Seq(EdgeSet)
        /\ Range(<<<<src, sp>>>> \o To(sp, s)) = {<<src, sp>>} \cup Range(To(sp, s))
    <3>1. PICK e \in EdgeSet : e = <<src, sp>>
      BY <1>4
    <3>2. <<e>> \o To(sp, s) \in Seq(EdgeSet) /\ Range(<<e>> \o To(sp, s)) = {e} \cup Range(To(sp, s))
      BY <1>5, AfterOne
    <3> QED
      BY <3>1, <3>2, Zenon
  <2>3. /\ <<<<co, src>>>> \o From(s, co) \in Seq(EdgeSet)
        /\ Range(<<<<co, src>>>> \o From(s, co)) = {<<co, src>>} \cup Range(From(s, co))
    <3>1. PICK e \in EdgeSet : e = <<co, src>>
      BY <1>4
    <3>2. <<e>> \o From(s, co) \in Seq(EdgeSet) /\ Range(<<e>> \o From(s, co)) = {e} \cup Range(From(s, co))
      BY <1>5, AfterOne
    <3> QED
      BY <3>1, <3>2, Zenon
  <2> QED
    BY <2>1, <2>2, <2>3
<1>7. /\ SliceNode(src, s, via) = [nodes |-> <<sl>>, edges |-> <<<<src, sl>>>> \o To(sl, s)]
      /\ SplitNode(src, s, via) = [nodes |-> <<sp>>, edges |-> <<<<src, sp>>>> \o To(sp, s)]
      /\ ConcateNodes(s, src, via) = [nodes |-> <<co>>, edges |-> <<<<co, src>>>> \o From(s, co)]
  BY DEF SliceNode, SplitNode, ConcateNodes, Piece, Between
<1>8. /\ SliceNode(src, s, via) \in GraphSet /\ SplitNode(src, s, via) \in GraphSet
      /\ ConcateNodes(s, src, via) \in GraphSet
  BY <1>2, <1>3, <1>6, <1>7 DEF GraphSet
<1>9. /\ SliceNode(src, s, via).nodes = <<sl>> /\ SliceNode(src, s, via).edges = <<<<src, sl>>>> \o To(sl, s)
      /\ SplitNode(src, s, via).nodes = <<sp>> /\ SplitNode(src, s, via).edges = <<<<src, sp>>>> \o To(sp, s)
      /\ ConcateNodes(s, src, via).nodes = <<co>>
      /\ ConcateNodes(s, src, via).edges = <<<<co, src>>>> \o From(s, co)
  BY <1>7
<1> QED
  BY <1>2, <1>3, <1>5, <1>6, <1>8, <1>9 DEF HasNode

\* The nodes that the edges of a graph lead to, and come from.
LEMMA EndsIs ==
  ASSUME NEW g \in GraphSet, NEW n \in NodeSet
  PROVE  /\ Dsts(g, n) \in Seq(NodeSet) /\ Range(Dsts(g, n)) = {m \in NodeSet : <<n, m>> \in Range(g.edges)}
         /\ Srcs(g, n) \in Seq(NodeSet) /\ Range(Srcs(g, n)) = {m \in NodeSet : <<m, n>> \in Range(g.edges)}
         /\ (\A i, j \in 1..Len(g.edges) : g.edges[i] = g.edges[j] /\ g.edges[i][1] = n => i = j)
              => Once(Dsts(g, n))
<1> DEFINE E == g.edges
           out == [k \in DOMAIN E |-> E[k][1] = n]
           in == [k \in DOMAIN E |-> E[k][2] = n]
<1>1. E \in Seq(EdgeSet)
  BY DEF GraphSet
<1> HIDE DEF E
<1>2. DOMAIN E = 1..Len(E) /\ Len(E) \in Nat /\ \A k \in 1..Len(E) : E[k] \in EdgeSet
  BY <1>1, LenProperties, ElementOfSeq
<1>3. \A k \in 1..Len(E) : E[k][1] \in NodeSet /\ E[k][2] \in NodeSet /\ E[k] = <<E[k][1], E[k][2]>>
  BY <1>2 DEF EdgeSet
<1>4. Range(E) = {E[k] : k \in 1..Len(E)}
  BY <1>1, RangeIs
<1>5. ASSUME NEW i \in {1, 2}
      PROVE  /\ Ends(E, i) \in Seq(NodeSet) /\ Len(Ends(E, i)) = Len(E)
             /\ \A k \in 1..Len(E) : Ends(E, i)[k] = E[k][i]
  <2>1. \A k \in 1..Len(E) : Ends(E, i)[k] = E[k][i]
    BY <1>2 DEF Ends
  <2>2. \A k \in 1..Len(E) : Ends(E, i)[k] \in NodeSet
    BY <1>3, <2>1
  <2>3. Along(Ends(E, i), E)
    BY DEF Ends, Along
  <2> QED
    <3>m. Maps(Ends(E, i), E, EdgeSet, NodeSet)
      BY <1>1, <2>2, <2>3 DEF Maps
    <3>1. Ends(E, i) \in Seq(NodeSet) /\ Len(Ends(E, i)) = Len(E)
      BY <3>m, MapIs
    <3> QED
      BY <2>1, <3>1
<1>6. out \in [1..Len(E) -> BOOLEAN] /\ in \in [1..Len(E) -> BOOLEAN]
  BY <1>2
<1>7. \A k \in 1..Len(E) : (out[k] <=> E[k][1] = n) /\ (in[k] <=> E[k][2] = n)
  BY <1>2
<1>8. Dsts(g, n) = Keep(Ends(E, 2), out) /\ Srcs(g, n) = Keep(Ends(E, 1), in)
  BY DEF Dsts, Srcs, E
<1> HIDE DEF out, in
<1>9. PICK d : d = Ends(E, 2)
  OBVIOUS
<1>10. PICK s : s = Ends(E, 1)
  OBVIOUS
<1>11. d \in Seq(NodeSet) /\ Len(d) = Len(E) /\ \A k \in 1..Len(E) : d[k] = E[k][2]
  BY <1>5, <1>9
<1>12. s \in Seq(NodeSet) /\ Len(s) = Len(E) /\ \A k \in 1..Len(E) : s[k] = E[k][1]
  BY <1>5, <1>10
<1>13. /\ Keep(d, out) \in Seq(NodeSet)
       /\ Range(Keep(d, out)) = {d[k] : k \in {j \in 1..Len(d) : out[j]}}
       /\ (\A i, j \in 1..Len(d) : out[i] /\ out[j] /\ d[i] = d[j] => i = j) => Once(Keep(d, out))
  BY <1>6, <1>11, KeepIs
<1>14. /\ Keep(s, in) \in Seq(NodeSet)
       /\ Range(Keep(s, in)) = {s[k] : k \in {j \in 1..Len(s) : in[j]}}
  BY <1>6, <1>12, KeepIs
<1>15. ASSUME NEW m PROVE m \in Range(Keep(d, out)) <=> m \in NodeSet /\ <<n, m>> \in Range(E)
  <2>1. ASSUME NEW k \in 1..Len(E), out[k], m = d[k] PROVE m \in NodeSet /\ <<n, m>> \in Range(E)
    BY <1>3, <1>4, <1>7, <1>11, <2>1
  <2>2. ASSUME m \in NodeSet, <<n, m>> \in Range(E) PROVE m \in Range(Keep(d, out))
    <3>1. PICK k \in 1..Len(E) : E[k] = <<n, m>>
      BY <1>4, <2>2
    <3>2. E[k][1] = n /\ E[k][2] = m
      BY <3>1
    <3> QED
      BY <1>7, <1>11, <1>13, <3>2
  <2> QED
    BY <1>11, <1>13, <2>1, <2>2
<1>16. ASSUME NEW m PROVE m \in Range(Keep(s, in)) <=> m \in NodeSet /\ <<m, n>> \in Range(E)
  <2>1. ASSUME NEW k \in 1..Len(E), in[k], m = s[k] PROVE m \in NodeSet /\ <<m, n>> \in Range(E)
    BY <1>3, <1>4, <1>7, <1>12, <2>1
  <2>2. ASSUME m \in NodeSet, <<m, n>> \in Range(E) PROVE m \in Range(Keep(s, in))
    <3>1. PICK k \in 1..Len(E) : E[k] = <<m, n>>
      BY <1>4, <2>2
    <3>2. E[k][1] = m /\ E[k][2] = n
      BY <3>1
    <3> QED
      BY <1>7, <1>12, <1>14, <3>2
  <2> QED
    BY <1>12, <1>14, <2>1, <2>2
<1>17. ASSUME \A i, j \in 1..Len(E) : E[i] = E[j] /\ E[i][1] = n => i = j
       PROVE  \A i, j \in 1..Len(d) : out[i] /\ out[j] /\ d[i] = d[j] => i = j
  <2> SUFFICES ASSUME NEW i \in 1..Len(E), NEW j \in 1..Len(E), out[i], out[j], d[i] = d[j] PROVE i = j
    BY <1>11
  <2>1. E[i][1] = n /\ E[j][1] = n /\ E[i][2] = E[j][2]
    BY <1>7, <1>11
  <2>2. E[i] = E[j]
    BY <1>3, <2>1
  <2> QED
    BY <1>17, <2>1, <2>2
<1>18. Range(Keep(d, out)) = {m \in NodeSet : <<n, m>> \in Range(E)}
  BY <1>15
<1>19. Range(Keep(s, in)) = {m \in NodeSet : <<m, n>> \in Range(E)}
  BY <1>16
<1> QED
  BY <1>8, <1>9, <1>10, <1>13, <1>14, <1>17, <1>18, <1>19 DEF E

\* A sequence of equal elements of which none occurs twice has at most one.
LEMMA OnceOne ==
  ASSUME NEW S, NEW s \in Seq(S), Once(s), NEW x, Range(s) \subseteq {x}
  PROVE  Len(s) <= 1
<1>1. Len(s) \in Nat /\ Range(s) = {s[i] : i \in 1..Len(s)}
  BY RangeIs, LenProperties
<1> SUFFICES ASSUME Len(s) > 1 PROVE FALSE
  BY <1>1
<1>2. 1 \in 1..Len(s) /\ 2 \in 1..Len(s)
  BY <1>1
<1>3. s[1] = x /\ s[2] = x
  BY <1>1, <1>2
<1> QED
  BY <1>2, <1>3 DEF Once
-----------------------------------------------------------------------------
(***************************************************************************)
(* The first graph                                                         *)
(***************************************************************************)
\* Data of a reach b directly or through one inserted node.
Direct(E, a, b) ==
  \/ <<a, b>> \in E
  \/ \E m \in NodeSet : m.kind \in {"slice", "split", "concate"} /\ <<a, m>> \in E /\ <<m, b>> \in E

LayerNodes == UNION {Range(NodesOf(l)) : l \in DOMAIN net}

LEMMA LayerNodesAre ==
  ASSUME NetGiven
  PROVE  /\ \A l \in DOMAIN net : /\ Range(NodesOf(l)) = {NodesOf(l)[k] : k \in 1..Parts(l)}
                                  /\ Range(NodesOf(l)) \subseteq LayerNodes
         /\ \A n \in LayerNodes : n \in NodeSet /\ n.kind = "layer"
<1>1. ASSUME NEW l \in DOMAIN net
      PROVE  /\ Range(NodesOf(l)) = {NodesOf(l)[k] : k \in 1..Parts(l)}
             /\ \A n \in Range(NodesOf(l)) : n \in NodeSet /\ n.kind = "layer"
  BY NodesOfIs, RangeIs
<1> QED
  BY <1>1 DEF LayerNodes

\* What the pieces have in common: nodes of their own, each once, that are not
\* layers; edges among these and layers; and at most one edge, the first one,
\* from a concate node.
IsPiece(p) ==
  /\ p \in GraphSet /\ Once(p.nodes)
  /\ \A n \in Range(p.nodes) : n.kind # "layer"
  /\ \A i \in 1..Len(p.edges) : p.edges[i][1].kind = "concate" => i = 1 /\ p.edges[i][1] \in Range(p.nodes)
  /\ \A e \in Range(p.edges) : \A d \in {e[1], e[2]} : d \in Range(p.nodes) \cup LayerNodes

LEMMA BetweenPieces ==
  ASSUME NetGiven, NEW src \in LayerNodes, NEW s \in Seq(NodeSet), Range(s) \subseteq LayerNodes,
         NEW via \in Nat \X Nat
  PROVE  /\ IsPiece(SliceNode(src, s, via)) /\ IsPiece(SplitNode(src, s, via))
         /\ IsPiece(ConcateNodes(s, src, via))
<1> DEFINE sl == Between("slice", src, via)
           sp == Between("split", src, via)
           co == Between("concate", src, via)
           A == SliceNode(src, s, via)
           B == SplitNode(src, s, via)
           C == ConcateNodes(s, src, via)
<1>0. src \in NodeSet /\ src.kind = "layer" /\ \A n \in LayerNodes : n \in NodeSet /\ n.kind = "layer"
  BY LayerNodesAre
<1>1. sl.kind = "slice" /\ sp.kind = "split" /\ co.kind = "concate"
  BY DEF Node, Between
<1>2. /\ HasNode(A, sl, <<src, sl>>, Outs(sl, s)) /\ HasNode(B, sp, <<src, sp>>, Outs(sp, s))
      /\ HasNode(C, co, <<co, src>>, Ins(s, co)) /\ C.edges = <<<<co, src>>>> \o From(s, co)
  BY <1>0, BetweenIs
<1> HIDE DEF A, B, C, sl, sp, co
<1>3. /\ A \in GraphSet /\ A.nodes = <<sl>> /\ B \in GraphSet /\ B.nodes = <<sp>>
      /\ C \in GraphSet /\ C.nodes = <<co>>
      /\ sl \in NodeSet /\ sp \in NodeSet /\ co \in NodeSet
      /\ Range(A.nodes) = {sl} /\ Range(A.edges) = {<<src, sl>>} \cup Outs(sl, s)
      /\ Range(B.nodes) = {sp} /\ Range(B.edges) = {<<src, sp>>} \cup Outs(sp, s)
      /\ Range(C.nodes) = {co} /\ Range(C.edges) = {<<co, src>>} \cup Ins(s, co)
  BY <1>2 DEF HasNode
<1>4. \A n : Once(<<n>>)
  BY DEF Once
<1>5. \A p \in GraphSet : \A i \in 1..Len(p.edges) : p.edges[i] \in Range(p.edges)
  BY RangeIs DEF GraphSet
<1>6. IsPiece(A)
  <2>1. \A e \in Range(A.edges) : \/ e[1] = src /\ e[2] = sl
                                  \/ e[1] = sl /\ e[2] \in Range(s)
    BY <1>3 DEF Outs
  <2>2. \A e \in Range(A.edges) : e[1].kind # "concate"
    BY <1>0, <1>1, <2>1
  <2>3. \A e \in Range(A.edges) : \A d \in {e[1], e[2]} : d \in Range(A.nodes) \cup LayerNodes
    BY <1>3, <2>1
  <2> QED
    BY <1>1, <1>2, <1>3, <1>4, <1>5, <2>2, <2>3 DEF IsPiece
<1>7. IsPiece(B)
  <2>1. \A e \in Range(B.edges) : \/ e[1] = src /\ e[2] = sp
                                  \/ e[1] = sp /\ e[2] \in Range(s)
    BY <1>3 DEF Outs
  <2>2. \A e \in Range(B.edges) : e[1].kind # "concate"
    BY <1>0, <1>1, <2>1
  <2>3. \A e \in Range(B.edges) : \A d \in {e[1], e[2]} : d \in Range(B.nodes) \cup LayerNodes
    BY <1>3, <2>1
  <2> QED
    BY <1>1, <1>2, <1>3, <1>4, <1>5, <2>2, <2>3 DEF IsPiece
<1>8. IsPiece(C)
  <2>1. \A e \in Range(C.edges) : \/ e[1] = co /\ e[2] = src
                                  \/ e[2] = co /\ e[1] \in Range(s)
    BY <1>3 DEF Ins
  <2>2. ASSUME NEW i \in 1..Len(C.edges), C.edges[i][1].kind = "concate" PROVE i = 1
    <3>1. PICK c \in EdgeSet : c = <<co, src>>
      BY <1>0, <1>3, EdgeType
    <3>2. PICK t \in Seq(EdgeSet) : t = From(s, co) /\ Range(t) = Ins(s, co)
      BY <1>3, FanIs
    <3>3. PICK o \in Seq(EdgeSet) : o = <<c>> /\ Len(o) = 1
      BY SingleIs
    <3>4. C.edges = o \o t
      BY <1>2, <3>1, <3>2, <3>3, Zenon
    <3>5. Len(t) \in Nat /\ Len(C.edges) = Len(o) + Len(t)
      BY <3>4, ConcatProperties, LenProperties
    <3>6. C.edges[i] = IF i <= Len(o) THEN o[i] ELSE t[i - Len(o)]
      BY <3>4, <3>5, ConcatProperties
    <3> SUFFICES ASSUME i # 1 PROVE FALSE
      OBVIOUS
    <3>7. i - 1 \in 1..Len(t) /\ C.edges[i] = t[i - 1]
      BY <3>3, <3>5, <3>6
    <3>8. C.edges[i] \in Range(t)
      BY <3>7, RangeIs
    <3>9. C.edges[i][1] \in Range(s)
      BY <3>2, <3>8 DEF Ins
    <3> QED
      BY <1>0, <2>2, <3>9
  <2>3. \A i \in 1..Len(C.edges) : C.edges[i][1].kind = "concate" => C.edges[i][1] = co
    BY <1>0, <1>3, <1>5, <2>1
  <2>4. \A e \in Range(C.edges) : \A d \in {e[1], e[2]} : d \in Range(C.nodes) \cup LayerNodes
    BY <1>3, <2>1
  <2> QED
    BY <1>1, <1>2, <1>3, <1>4, <2>2, <2>3, <2>4 DEF IsPiece
<1> QED
  BY <1>6, <1>7, <1>8 DEF A, B, C

\* Pieces that have a node in common.
Share == {p \in GraphSet \X GraphSet : Range(p[1].nodes) \cap Range(p[2].nodes) # {}}

EdgesOf(ps) == UNION {Range(ps[k].edges) : k \in 1..Len(ps)}

\* The pairs of nodes that Connect joins: all that are needed, but for sources
\* it forgets or fails on.
Brought(s, l) == IF Hidden(s, l) \/ Forgotten(s, l) THEN {} ELSE Needed(s, l)

Linked(ps, l, j) ==
  /\ ps \in Seq(GraphSet) /\ OnceBy(ps, Share)
  /\ \A k \in 1..Len(ps) : IsPiece(ps[k]) /\ \A n \in Range(ps[k].nodes) : n.via = <<l, j>>
  /\ \A e \in Brought(net[l].srcs[j], l) : Direct(EdgesOf(ps), e[1], e[2])

\* One piece.
LEMMA LinkedOne ==
  ASSUME NEW p, IsPiece(p), NEW l, NEW j, \A n \in Range(p.nodes) : n.via = <<l, j>>,
         \A e \in Brought(net[l].srcs[j], l) : Direct(Range(p.edges), e[1], e[2])
  PROVE  Linked(<<p>>, l, j)
<1>1. p \in GraphSet
  BY DEF IsPiece
<1>2. PICK ps : ps = <<p>> /\ ps \in Seq(GraphSet) /\ Len(ps) = 1 /\ ps[1] = p
  <2>1. <<p>> \in Seq(GraphSet) /\ Len(<<p>>) = 1
    BY <1>1, SingleIs
  <2>2. <<p>>[1] = p
    OBVIOUS
  <2> QED
    BY <2>1, <2>2
<1>3. \A k : k \in 1..Len(ps) <=> k = 1
  BY <1>2
<1>4. EdgesOf(ps) = Range(p.edges)
  BY <1>2, <1>3 DEF EdgesOf
<1>5. OnceBy(ps, Share)
  BY <1>3 DEF OnceBy
<1>6. Linked(ps, l, j)
  BY <1>2, <1>3, <1>4, <1>5 DEF Linked
<1> QED
  BY <1>2, <1>6

\* A piece of edges only.
LEMMA EdgesPiece ==
  ASSUME NEW es \in Seq(EdgeSet), \A e \in Range(es) : e[1] \in LayerNodes /\ e[2] \in LayerNodes, NetGiven
  PROVE  IsPiece(Piece(<< >>, es)) /\ Piece(<< >>, es).edges = es /\ Range(Piece(<< >>, es).nodes) = {}
<1> DEFINE p == Piece(<< >>, es)
<1>1. p = [nodes |-> << >>, edges |-> es]
  BY DEF Piece
<1>2. << >> \in Seq(NodeSet) /\ Range(<< >>) = {} /\ Once(<< >>)
  BY EmptySeq DEF Range, Once
<1>3. p \in GraphSet /\ p.nodes = << >> /\ p.edges = es
  <2>1. \A a \in Seq(NodeSet), b \in Seq(EdgeSet) : [nodes |-> a, edges |-> b] \in GraphSet
    BY DEF GraphSet
  <2>2. p \in GraphSet
    BY <1>1, <1>2, <2>1
  <2> QED
    BY <1>1, <2>2
<1>4. \A i \in 1..Len(es) : es[i] \in Range(es) /\ es[i][1].kind = "layer"
  BY RangeIs, LayerNodesAre
<1> HIDE DEF p
<1>5. \A i \in 1..Len(p.edges) : p.edges[i][1].kind # "concate"
  BY <1>3, <1>4
<1>6. IsPiece(p)
  BY <1>2, <1>3, <1>5 DEF IsPiece
<1> QED
  BY <1>2, <1>3, <1>6 DEF p

\* Needed pairs, by the dimensions.
LEMMA NeededIs ==
  ASSUME NetGiven, NEW s \in DOMAIN net, NEW l \in DOMAIN net, NEW e \in Brought(s, l)
  PROVE  /\ ~Hidden(s, l) /\ ~Forgotten(s, l)
         /\ \E i \in 1..Parts(s), k \in 1..Parts(l) :
              /\ e[1] = NodesOf(s)[i] /\ e[2] = NodesOf(l)[k] /\ e[1] \in Range(NodesOf(s)) /\ e[2] \in Range(NodesOf(l))
              /\ net[s].pdim = net[l].pdim => i = k
<1>1. ~Hidden(s, l) /\ ~Forgotten(s, l)
  BY DEF Brought
<1>2. /\ e[1] \in Range(NodesOf(s)) /\ e[2] \in Range(NodesOf(l))
      /\ net[s].pdim = net[l].pdim => e[1].i = e[2].i
  BY <1>1 DEF Brought, Needed, Forgotten
<1>3. PICK i \in 1..Parts(s) : e[1] = NodesOf(s)[i]
  BY <1>2, LayerNodesAre
<1>4. PICK k \in 1..Parts(l) : e[2] = NodesOf(l)[k]
  BY <1>2, LayerNodesAre
<1>5. Parts(s) \in Nat /\ Parts(l) \in Nat /\ e[1].i = i - 1 /\ e[2].i = k - 1
  BY <1>3, <1>4, NodesOfIs
<1>6. e[1].i = e[2].i => i = k
  BY <1>5
<1> QED
  BY <1>1, <1>2, <1>3, <1>4, <1>6

\* The pieces for the j-th source of layer l.
LEMMA ConnectIs ==
  ASSUME NetGiven, NEW l \in DOMAIN net, NEW j \in 1..Len(net[l].srcs)
  PROVE  Linked(Connect(l, j), l, j)
<1> DEFINE s == net[l].srcs[j]
           p == net[l].pdim
           sp == net[s].pdim
           conn == net[l].conn
           dsts == NodesOf(l)
           srcs == NodesOf(s)
           via == <<l, j>>
<1>0. /\ s \in DOMAIN net /\ p \in {-1, 0, 1} /\ sp \in {-1, 0, 1} /\ conn \in {"one", "all"}
      /\ j \in Nat /\ l \in Nat /\ np \in Nat \ {0}
  <2>1. net[l].srcs \in Seq(DOMAIN net) /\ p \in {-1, 0, 1} /\ conn \in {"one", "all"} /\ l \in Nat
    BY LayerIs
  <2>2. s \in DOMAIN net /\ j \in Nat
    BY <2>1, ElementOfSeq, LenProperties
  <2>3. sp \in {-1, 0, 1}
    BY <2>2, LayerIs
  <2> QED
    BY <2>1, <2>2, <2>3 DEF NetGiven
<1>1. Connect(l, j) =
        CASE sp = -1 /\ p = -1 -> <<Piece(<< >>, <<<<srcs[1], dsts[1]>>>>)>>
          [] sp = -1 /\ (p = 0 \/ (p = 1 /\ conn = "one")) -> <<SliceNode(srcs[1], dsts, via)>>
          [] sp = -1 /\ p = 1 /\ conn = "all" -> <<SplitNode(srcs[1], dsts, via)>>
          [] sp # -1 /\ (p = -1 \/ (p = 1 /\ conn = "all" /\ sp = 0)) ->
               [k \in DOMAIN dsts |-> ConcateNodes(srcs, dsts[k], via)]
          [] Hidden(s, l) \/ Forgotten(s, l) -> << >>
          [] OTHER -> <<Piece(<< >>, [k \in 1..np |-> <<srcs[k], dsts[k]>>])>>
  BY DEF Connect
<1>2. /\ Hidden(s, l) <=> (sp = 1 /\ p = 0) \/ (sp = 0 /\ p = 1 /\ conn = "one")
      /\ Forgotten(s, l) <=> sp = 1 /\ p = 1 /\ conn = "all"
  BY DEF Hidden, Forgotten
<1>3. /\ Parts(s) = (IF sp = -1 THEN 1 ELSE np) /\ Parts(l) = (IF p = -1 THEN 1 ELSE np)
  BY DEF Parts
<1>4. /\ srcs \in Seq(NodeSet) /\ dsts \in Seq(NodeSet) /\ Len(srcs) = Parts(s) /\ Len(dsts) = Parts(l)
      /\ Range(srcs) \subseteq LayerNodes /\ Range(dsts) \subseteq LayerNodes
      /\ \A k \in 1..Parts(s) : srcs[k] \in Range(srcs) /\ srcs[k] \in NodeSet /\ srcs[k] \in LayerNodes
      /\ \A k \in 1..Parts(l) : dsts[k] \in Range(dsts) /\ dsts[k] \in NodeSet /\ dsts[k] \in LayerNodes /\ dsts[k].i = k - 1
  <2>1. /\ Range(srcs) = {srcs[k] : k \in 1..Parts(s)} /\ Range(srcs) \subseteq LayerNodes
        /\ Range(dsts) = {dsts[k] : k \in 1..Parts(l)} /\ Range(dsts) \subseteq LayerNodes
    BY <1>0, LayerNodesAre
  <2>2. /\ srcs \in Seq(NodeSet) /\ dsts \in Seq(NodeSet) /\ Len(srcs) = Parts(s) /\ Len(dsts) = Parts(l)
        /\ \A k \in 1..Parts(s) : srcs[k] \in NodeSet
        /\ \A k \in 1..Parts(l) : dsts[k] \in NodeSet /\ dsts[k].i = k - 1
    BY <1>0, NodesOfIs
  <2> QED
    BY <2>1, <2>2
<1>5. ASSUME NEW e \in Brought(s, l)
      PROVE  /\ ~Hidden(s, l) /\ ~Forgotten(s, l)
             /\ \E i \in 1..Parts(s), k \in 1..Parts(l) :
                  /\ e[1] = srcs[i] /\ e[2] = dsts[k] /\ e[1] \in Range(srcs) /\ e[2] \in Range(dsts)
                  /\ sp = p => i = k
  BY <1>0, NeededIs
<1>6. via \in Nat \X Nat
  BY <1>0
<1> HIDE DEF srcs, dsts, sp, p, conn, via
<1>7. \A x \in {"slice", "split", "concate"} : \A n : Between(x, n, via).kind = x /\ Between(x, n, via).via = via
  BY DEF Between, Node
<1>8. CASE sp = -1 /\ p = -1
  <2>1. 1 \in 1..Parts(s) /\ 1 \in 1..Parts(l) /\ \A i \in 1..Parts(s) : i = 1
    BY <1>3, <1>8
  <2>2. PICK e0 \in EdgeSet : e0 = <<srcs[1], dsts[1]>>
    BY <1>4, <2>1, EdgeType
  <2>3. <<e0>> \in Seq(EdgeSet) /\ Range(<<e0>>) = {e0} /\ e0[1] \in LayerNodes /\ e0[2] \in LayerNodes
    BY <1>4, <2>1, <2>2, SingleIs
  <2>4. PICK es : es = <<e0>>
    OBVIOUS
  <2>5. IsPiece(Piece(<< >>, es)) /\ Piece(<< >>, es).edges = es /\ Range(Piece(<< >>, es).nodes) = {}
    BY <2>3, <2>4, EdgesPiece
  <2>6. \A e \in Brought(s, l) : <<e[1], e[2]>> \in Range(es)
    BY <1>3, <1>5, <1>8, <2>2, <2>3, <2>4
  <2>7. \A e \in Brought(s, l) : Direct(Range(Piece(<< >>, es).edges), e[1], e[2])
    BY <2>5, <2>6 DEF Direct
  <2>8. Linked(<<Piece(<< >>, es)>>, l, j)
    BY <2>5, <2>7, LinkedOne
  <2>9. Connect(l, j) = <<Piece(<< >>, es)>>
    <3>1. Connect(l, j) = <<Piece(<< >>, <<<<srcs[1], dsts[1]>>>>)>>
      BY <1>1, <1>2, <1>8
    <3> QED
      BY <2>2, <2>4, <3>1, Zenon
  <2> QED
    BY <2>8, <2>9
<1>9. CASE sp = -1 /\ p # -1
  <2>1. 1 \in 1..Parts(s) /\ \A i \in 1..Parts(s) : i = 1
    BY <1>3, <1>9
  <2> DEFINE n == srcs[1]
             x == IF p = 0 \/ conn = "one" THEN "slice" ELSE "split"
             b == Between(x, n, via)
             q == IF p = 0 \/ conn = "one" THEN SliceNode(n, dsts, via) ELSE SplitNode(n, dsts, via)
  <2>2. n \in NodeSet /\ n \in LayerNodes
    BY <1>4, <2>1
  <2>3. HasNode(q, b, <<n, b>>, Outs(b, dsts)) /\ IsPiece(q) /\ b.kind \in {"slice", "split"} /\ b.via = via
    <3> HIDE DEF n
    <3>1. /\ HasNode(SliceNode(n, dsts, via), Between("slice", n, via), <<n, Between("slice", n, via)>>, Outs(Between("slice", n, via), dsts))
          /\ HasNode(SplitNode(n, dsts, via), Between("split", n, via), <<n, Between("split", n, via)>>, Outs(Between("split", n, via), dsts))
      BY <1>4, <1>6, <2>2, BetweenIs
    <3>2. IsPiece(SliceNode(n, dsts, via)) /\ IsPiece(SplitNode(n, dsts, via))
      BY <1>4, <1>6, <2>2, BetweenPieces
    <3> QED
      BY <1>7, <3>1, <3>2
  <2>4. Connect(l, j) = <<q>>
    <3> HIDE DEF n, b
    <3>1. CASE p = 0 \/ conn = "one"
      <4>1. Connect(l, j) = <<SliceNode(srcs[1], dsts, via)>>
        BY <1>0, <1>1, <1>2, <1>9, <3>1
      <4> QED
        BY <3>1, <4>1, Zenon DEF n
    <3>2. CASE ~(p = 0 \/ conn = "one")
      <4>1. Connect(l, j) = <<SplitNode(srcs[1], dsts, via)>>
        BY <1>0, <1>1, <1>2, <1>9, <3>2
      <4> QED
        BY <3>2, <4>1, Zenon DEF n
    <3> QED
      BY <3>1, <3>2
  <2> HIDE DEF b, q
  <2>5. b \in NodeSet /\ Range(q.nodes) = {b} /\ Range(q.edges) = {<<n, b>>} \cup Outs(b, dsts)
    BY <2>3 DEF HasNode
  <2>6. ASSUME NEW e \in Brought(s, l) PROVE Direct(Range(q.edges), e[1], e[2])
    <3>1. e[1] = n /\ e[2] \in Range(dsts)
      BY <1>5, <2>1
    <3>2. <<e[1], b>> \in Range(q.edges) /\ <<b, e[2]>> \in Range(q.edges)
      BY <2>5, <3>1 DEF Outs
    <3> QED
      BY <2>3, <2>5, <3>2 DEF Direct
  <2>7. Linked(<<q>>, l, j)
    BY <2>3, <2>5, <2>6, LinkedOne DEF via
  <2> QED
    BY <2>4, <2>7
<1>10. CASE sp # -1 /\ (p = -1 \/ (p = 1 /\ conn = "all" /\ sp = 0))
  <2> DEFINE ps == [k \in DOMAIN dsts |-> ConcateNodes(srcs, dsts[k], via)]
             co(k) == Between("concate", dsts[k], via)
  <2>1. Connect(l, j) = ps
    BY <1>0, <1>1, <1>2, <1>10
  <2>2. DOMAIN dsts = 1..Parts(l) /\ \A k \in 1..Parts(l) : ps[k] = ConcateNodes(srcs, dsts[k], via)
    BY <1>4, LenProperties
  <2>3. Along(ps, dsts)
    BY DEF Along
  <2> HIDE DEF ps
  <2>4. ASSUME NEW k \in 1..Parts(l)
        PROVE  /\ IsPiece(ps[k]) /\ HasNode(ps[k], co(k), <<co(k), dsts[k]>>, Ins(srcs, co(k)))
               /\ co(k).kind = "concate" /\ co(k).via = via /\ co(k).i = k - 1
    <3>1. IsPiece(ConcateNodes(srcs, dsts[k], via))
      BY <1>4, <1>6, BetweenPieces
    <3>2. HasNode(ConcateNodes(srcs, dsts[k], via), co(k), <<co(k), dsts[k]>>, Ins(srcs, co(k)))
      BY <1>4, <1>6, BetweenIs
    <3>3. co(k).i = k - 1
      BY <1>4 DEF Between, Node
    <3> QED
      BY <1>7, <2>2, <3>1, <3>2, <3>3
  <2> HIDE DEF co
  <2>5. ps \in Seq(GraphSet) /\ Len(ps) = Parts(l)
    <3>1. \A k \in 1..Len(dsts) : ps[k] \in GraphSet
      BY <1>4, <2>4 DEF IsPiece
    <3> QED
      <4>1. dsts \in Seq(NodeSet) /\ Len(dsts) = Parts(l)
        BY <1>4
      <4>2. ps \in Seq(GraphSet) /\ Len(ps) = Len(dsts)
        <5>1. PICK d, q : d = dsts /\ q = ps
          OBVIOUS
        <5>2. d \in Seq(NodeSet) /\ Along(q, d) /\ \A k \in 1..Len(d) : q[k] \in GraphSet
          BY <2>3, <3>1, <4>1, <5>1
        <5>3. q \in Seq(GraphSet) /\ Len(q) = Len(d)
          <6>m. Maps(q, d, NodeSet, GraphSet)
            BY <5>2 DEF Maps
          <6> QED
            BY <6>m, MapIs
        <5> QED
          BY <5>1, <5>3
      <4> QED
        BY <4>1, <4>2
  <2>6. \A k \in 1..Parts(l) : Range(ps[k].nodes) = {co(k)}
    BY <2>4 DEF HasNode
  <2>7. OnceBy(ps, Share)
    <3> SUFFICES ASSUME NEW a \in 1..Parts(l), NEW b \in 1..Parts(l), <<ps[a], ps[b]>> \in Share PROVE a = b
      BY <2>5 DEF OnceBy
    <3>1. Range(ps[a].nodes) \cap Range(ps[b].nodes) # {}
      BY DEF Share
    <3>2. co(a) = co(b)
      BY <2>6, <3>1
    <3>3. a - 1 = b - 1
      BY <2>4, <3>2
    <3> QED
      BY <1>0, <1>3, <3>3
  <2>8. ASSUME NEW e \in Brought(s, l) PROVE Direct(EdgesOf(ps), e[1], e[2])
    <3>1. PICK k \in 1..Parts(l) : e[2] = dsts[k] /\ e[1] \in Range(srcs)
      BY <1>5
    <3>2. Range(ps[k].edges) = {<<co(k), dsts[k]>>} \cup Ins(srcs, co(k)) /\ co(k) \in NodeSet
      BY <2>4 DEF HasNode
    <3>3. <<e[1], co(k)>> \in Range(ps[k].edges) /\ <<co(k), e[2]>> \in Range(ps[k].edges)
      BY <3>1, <3>2 DEF Ins
    <3>4. Range(ps[k].edges) \subseteq EdgesOf(ps)
      BY <2>5 DEF EdgesOf
    <3> QED
      BY <2>4, <3>2, <3>3, <3>4 DEF Direct
  <2>9. Linked(ps, l, j)
    BY <2>4, <2>5, <2>6, <2>7, <2>8 DEF Linked, via
  <2> QED
    BY <2>1, <2>9
<1>11. CASE Hidden(s, l) \/ Forgotten(s, l)
  <2>1. Connect(l, j) = << >>
    BY <1>0, <1>1, <1>2, <1>11
  <2>2. << >> \in Seq(GraphSet) /\ Len(<< >>) = 0
    BY EmptySeq
  <2>3. Brought(s, l) = {}
    BY <1>5, <1>11
  <2>4. OnceBy(<< >>, Share)
    BY <2>2 DEF OnceBy
  <2> QED
    BY <2>1, <2>2, <2>3, <2>4 DEF Linked
<1>12. CASE sp # -1 /\ ~(p = -1 \/ (p = 1 /\ conn = "all" /\ sp = 0)) /\ ~Hidden(s, l) /\ ~Forgotten(s, l)
  <2> DEFINE es == [k \in 1..np |-> <<srcs[k], dsts[k]>>]
  <2>1. sp = p /\ Parts(s) = np /\ Parts(l) = np
    BY <1>0, <1>2, <1>3, <1>12
  <2>2. Connect(l, j) = <<Piece(<< >>, es)>>
    BY <1>0, <1>1, <1>12
  <2>3. \A k \in 1..np : es[k] = <<srcs[k], dsts[k]>>
    OBVIOUS
  <2>4. \A k \in 1..np : es[k] \in EdgeSet
    BY <1>4, <2>1, EdgeType
  <2>5. es \in [1..np -> EdgeSet]
    BY <2>4
  <2> HIDE DEF es
  <2>6. es \in Seq(EdgeSet)
    BY <1>0, <2>5, SeqDef
  <2>7. Len(es) = np
    BY <1>0, <2>5, <2>6, LenProperties
  <2>8. Range(es) = {es[k] : k \in 1..np}
    BY <2>6, <2>7, RangeIs
  <2>9. \A e \in Range(es) : e[1] \in LayerNodes /\ e[2] \in LayerNodes
    BY <1>4, <2>1, <2>3, <2>8
  <2>10. IsPiece(Piece(<< >>, es)) /\ Piece(<< >>, es).edges = es /\ Range(Piece(<< >>, es).nodes) = {}
    BY <2>6, <2>9, EdgesPiece
  <2>11. ASSUME NEW e \in Brought(s, l) PROVE <<e[1], e[2]>> \in Range(es)
    <3>1. PICK k \in 1..np : e[1] = srcs[k] /\ e[2] = dsts[k]
      BY <1>5, <2>1
    <3> QED
      BY <2>3, <2>8, <3>1
  <2>12. \A e \in Brought(s, l) : Direct(Range(Piece(<< >>, es).edges), e[1], e[2])
    BY <2>10, <2>11 DEF Direct
  <2>13. Linked(<<Piece(<< >>, es)>>, l, j)
    BY <2>10, <2>12, LinkedOne
  <2> QED
    BY <2>2, <2>13
<1> QED
  BY <1>8, <1>9, <1>10, <1>11, <1>12

\* Edges from the same concate node.
FromConcate == {p \in EdgeSet \X EdgeSet : p[1][1] = p[2][1] /\ p[1][1].kind = "concate"}

\* Pieces without common nodes are added to layers.
LEMMA PiecesAdded ==
  ASSUME NEW P \in Seq(GraphSet), OnceBy(P, Share), \A k \in 1..Len(P) : IsPiece(P[k]),
         NEW ns \in Seq(NodeSet), Once(ns), \A n \in Range(ns) : n.kind = "layer",
         NEW g, g = AddAll(Piece(ns, << >>), P)
  PROVE  /\ g \in GraphSet /\ Once(g.nodes) /\ OnceBy(g.edges, FromConcate)
         /\ Range(g.nodes) = Range(ns) \cup UNION {Range(P[k].nodes) : k \in 1..Len(P)}
         /\ Range(g.edges) = EdgesOf(P)
<1> DEFINE N == [k \in DOMAIN P |-> P[k].nodes]
           E == [k \in DOMAIN P |-> P[k].edges]
           Eq == {<<x, x>> : x \in NodeSet}
<1>1. DOMAIN P = 1..Len(P) /\ Len(P) \in Nat /\ \A k \in 1..Len(P) : P[k] \in GraphSet
  BY LenProperties, ElementOfSeq
<1>2. \A k \in 1..Len(P) : /\ N[k] = P[k].nodes /\ E[k] = P[k].edges
                           /\ P[k].nodes \in Seq(NodeSet) /\ P[k].edges \in Seq(EdgeSet)
  BY <1>1 DEF GraphSet
<1>3. Along(N, P) /\ Along(E, P)
  BY DEF Along
<1>4. PICK g0 : g0 = Piece(ns, << >>) /\ g0 \in GraphSet /\ g0.nodes = ns /\ g0.edges = << >>
  <2>1. << >> \in Seq(EdgeSet)
    BY EmptySeq
  <2>2. \A a \in Seq(NodeSet), b \in Seq(EdgeSet) :
          /\ [nodes |-> a, edges |-> b] \in GraphSet
          /\ [nodes |-> a, edges |-> b].nodes = a /\ [nodes |-> a, edges |-> b].edges = b
    BY DEF GraphSet
  <2>3. PICK g0 : g0 = [nodes |-> ns, edges |-> << >>]
    OBVIOUS
  <2>4. g0 \in GraphSet /\ g0.nodes = ns /\ g0.edges = << >>
    BY <2>1, <2>2, <2>3
  <2> QED
    BY <2>3, <2>4 DEF Piece
<1>5. g.nodes = ns \o FlattenSeq(N) /\ g.edges = << >> \o FlattenSeq(E)
  BY <1>4 DEF AddAll, Piece
<1>6. /\ g \in GraphSet
      /\ Range(g.nodes) = Range(ns) \cup UNION {Range(P[k].nodes) : k \in 1..Len(P)}
      /\ Range(g.edges) = EdgesOf(P)
  <2>1. /\ g \in GraphSet
        /\ Range(g.nodes) = Range(g0.nodes) \cup UNION {Range(P[k].nodes) : k \in 1..Len(P)}
        /\ Range(g.edges) = Range(g0.edges) \cup UNION {Range(P[k].edges) : k \in 1..Len(P)}
    BY <1>4, AddAllIs, Zenon
  <2>2. Range(<< >>) = {}
    BY DEF Range
  <2> QED
    BY <1>4, <2>1, <2>2 DEF EdgesOf
<1> HIDE DEF N, E
<1>7. N \in Seq(Seq(NodeSet)) /\ Len(N) = Len(P)
  <2>1. PICK q : q = N
    OBVIOUS
  <2>2. Along(q, P) /\ \A k \in 1..Len(P) : q[k] \in Seq(NodeSet)
    BY <1>2, <1>3, <2>1
  <2>3. q \in Seq(Seq(NodeSet)) /\ Len(q) = Len(P)
    <3>m. Maps(q, P, GraphSet, Seq(NodeSet))
      BY <2>2 DEF Maps
    <3> QED
      BY <3>m, MapIs
  <2> QED
    BY <2>1, <2>3
<1>8. E \in Seq(Seq(EdgeSet)) /\ Len(E) = Len(P)
  <2>1. \A k \in 1..Len(P) : E[k] \in Seq(EdgeSet)
    BY <1>2
  <2> QED
    <3>m. Maps(E, P, GraphSet, Seq(EdgeSet))
      BY <1>3, <2>1 DEF Maps
    <3> QED
      BY <3>m, MapIs
<1>9. \A a, b \in 1..Len(P) : Range(P[a].nodes) \cap Range(P[b].nodes) # {} => a = b
  <2>1. \A p, q \in GraphSet : Range(p.nodes) \cap Range(q.nodes) # {} => <<p, q>> \in Share
    BY DEF Share
  <2> QED
    BY <1>1, <2>1 DEF OnceBy
<1>10. \A x, y : <<x, y>> \in Eq => x = y
  OBVIOUS
<1>11. FlattenSeq(N) \in Seq(NodeSet) /\ Range(FlattenSeq(N)) = UNION {Range(N[k]) : k \in 1..Len(N)}
  BY <1>7, FlattenIs
<1> HIDE DEF Eq
<1>12. OnceBy(FlattenSeq(N), Eq)
  <2>1. \A k \in 1..Len(N) : OnceBy(N[k], Eq)
    BY <1>2, <1>7, <1>10, OnceByEqual DEF IsPiece, Eq
  <2>2. NotAcross(N, Eq)
    <3> SUFFICES ASSUME NEW i \in 1..Len(P), NEW j \in 1..Len(P), i # j, NEW x \in Range(N[i]),
                        NEW y \in Range(N[j]), <<x, y>> \in Eq
                 PROVE  FALSE
      BY <1>7 DEF NotAcross
    <3>1. x = y
      BY <1>10
    <3>2. x \in Range(P[i].nodes) \cap Range(P[j].nodes)
      BY <1>2, <3>1
    <3> QED
      BY <1>9, <3>2
  <2> QED
    BY <1>7, <2>1, <2>2, FlattenOnceBy
<1>13. Once(g.nodes)
  <2>1. OnceBy(ns, Eq)
    BY OnceByEqual DEF Eq
  <2>2. \A x \in Range(FlattenSeq(N)) : x.kind # "layer"
    BY <1>2, <1>7, <1>11 DEF IsPiece
  <2>3. \A x \in Range(ns), y \in Range(FlattenSeq(N)) : ~(<<x, y>> \in Eq) /\ ~(<<y, x>> \in Eq)
    BY <1>10, <2>2
  <2>4. OnceBy(ns \o FlattenSeq(N), Eq)
    BY <1>11, <1>12, <2>1, <2>3, ConcatOnceBy
  <2>5. g.nodes \in Seq(NodeSet)
    BY <1>6 DEF GraphSet
  <2> QED
    BY <1>5, <2>4, <2>5, OnceByEqual DEF Eq
<1>14. OnceBy(g.edges, FromConcate)
  <2>0. \A e \in EdgeSet, f \in EdgeSet : <<e, f>> \in FromConcate <=> e[1] = f[1] /\ e[1].kind = "concate"
    BY DEF FromConcate
  <2>1. ASSUME NEW k \in 1..Len(E) PROVE OnceBy(E[k], FromConcate)
    <3>1. E[k] \in Seq(EdgeSet) /\ \A i \in 1..Len(E[k]) : E[k][i] \in EdgeSet
      BY <1>8, ElementOfSeq
    <3>2. \A i \in 1..Len(E[k]) : E[k][i][1].kind = "concate" => i = 1
      BY <1>2, <1>8 DEF IsPiece
    <3>3. ASSUME NEW i \in 1..Len(E[k]), NEW j \in 1..Len(E[k]), <<E[k][i], E[k][j]>> \in FromConcate
          PROVE  i = j
      <4>1. E[k][i][1] = E[k][j][1] /\ E[k][i][1].kind = "concate"
        BY <2>0, <3>1, <3>3
      <4>2. i = 1 /\ j = 1
        BY <3>2, <4>1
      <4> QED
        BY <4>2
    <3> QED
      BY <3>3 DEF OnceBy
  <2>2. NotAcross(E, FromConcate)
    <3> SUFFICES ASSUME NEW i \in 1..Len(P), NEW j \in 1..Len(P), i # j, NEW x \in Range(P[i].edges),
                        NEW y \in Range(P[j].edges), <<x, y>> \in FromConcate
                 PROVE  FALSE
      BY <1>2, <1>8 DEF NotAcross
    <3>1. ASSUME NEW k \in 1..Len(P), NEW e \in Range(P[k].edges), e[1].kind = "concate"
          PROVE  e[1] \in Range(P[k].nodes)
      <4>1. PICK a \in 1..Len(P[k].edges) : e = P[k].edges[a]
        BY <1>2, RangeIs
      <4> QED
        BY <3>1, <4>1 DEF IsPiece
    <3>2. x[1] = y[1] /\ x[1].kind = "concate"
      BY DEF FromConcate
    <3>3. x[1] \in Range(P[i].nodes) \cap Range(P[j].nodes)
      BY <3>1, <3>2
    <3> QED
      BY <1>9, <3>3
  <2>3. OnceBy(FlattenSeq(E), FromConcate) /\ FlattenSeq(E) \in Seq(EdgeSet)
    BY <1>8, <2>1, <2>2, FlattenOnceBy, FlattenIs
  <2>4. << >> \o FlattenSeq(E) = FlattenSeq(E)
    BY <2>3, ConcatEmptySeq
  <2> QED
    BY <1>5, <2>3, <2>4
<1> QED
  BY <1>6, <1>13, <1>14

\* So a concate node has at most one destination.
LEMMA ConcateOne ==
  ASSUME NEW g \in GraphSet, OnceBy(g.edges, FromConcate), NEW n \in NodeSet, n.kind = "concate"
  PROVE  Len(Dsts(g, n)) <= 1
<1> DEFINE E == g.edges
<1>1. E \in Seq(EdgeSet) /\ (\A k \in 1..Len(E) : E[k] \in EdgeSet) /\ Range(E) = {E[k] : k \in 1..Len(E)}
  BY RangeIs, ElementOfSeq DEF GraphSet
<1> HIDE DEF E
<1>2. ASSUME NEW i \in 1..Len(E), NEW j \in 1..Len(E), E[i][1] = n, E[j][1] = n PROVE i = j
  <2>1. <<E[i], E[j]>> \in FromConcate
    BY <1>1, <1>2 DEF FromConcate
  <2> QED
    BY <2>1 DEF OnceBy, E
<1>3. Once(Dsts(g, n)) /\ Dsts(g, n) \in Seq(NodeSet)
      /\ Range(Dsts(g, n)) = {m \in NodeSet : <<n, m>> \in Range(E)}
  <2>1. \A i, j \in 1..Len(E) : E[i] = E[j] /\ E[i][1] = n => i = j
    BY <1>2
  <2> QED
    BY <2>1, EndsIs DEF E
<1>4. ASSUME NEW a \in Range(Dsts(g, n)), NEW b \in Range(Dsts(g, n)) PROVE a = b
  <2>1. PICK i \in 1..Len(E) : E[i] = <<n, a>>
    BY <1>1, <1>3
  <2>2. PICK j \in 1..Len(E) : E[j] = <<n, b>>
    BY <1>1, <1>3
  <2>3. E[i][1] = n /\ E[j][1] = n
    BY <2>1, <2>2
  <2>4. E[i] = E[j]
    BY <1>2, <2>3
  <2> QED
    BY <2>1, <2>2, <2>4
<1>5. PICK x : Range(Dsts(g, n)) \subseteq {x}
  BY <1>4
<1> QED
  BY <1>3, <1>5, OnceOne

\* The pieces of a layer, and of all.
LayerLinks(l) == [j \in DOMAIN net[l].srcs |-> Connect(l, j)]
Links == [l \in DOMAIN net |-> FlattenSeq(LayerLinks(l))]

LEMMA ShareVia ==
  ASSUME NEW x, NEW y, NEW v, NEW w, \A n \in Range(x.nodes) : n.via = v, \A n \in Range(y.nodes) : n.via = w,
         <<x, y>> \in Share
  PROVE  v = w
BY DEF Share

LEMMA LayerLinksAre ==
  ASSUME NetGiven, NEW l \in DOMAIN net
  PROVE  /\ FlattenSeq(LayerLinks(l)) \in Seq(GraphSet) /\ OnceBy(FlattenSeq(LayerLinks(l)), Share)
         /\ \A p \in Range(FlattenSeq(LayerLinks(l))) :
              IsPiece(p) /\ \E j \in Nat : \A n \in Range(p.nodes) : n.via = <<l, j>>
         /\ \A j \in 1..Len(net[l].srcs) : Range(Connect(l, j)) \subseteq Range(FlattenSeq(LayerLinks(l)))
<1> DEFINE q == LayerLinks(l)
           s == net[l].srcs
<1>1. s \in Seq(DOMAIN net) /\ DOMAIN s = 1..Len(s) /\ Len(s) \in Nat
  BY LayerIs, LenProperties
<1>2. \A j \in 1..Len(s) : q[j] = Connect(l, j) /\ Linked(q[j], l, j)
  BY <1>1, ConnectIs DEF LayerLinks
<1>3. Along(q, s)
  BY DEF Along, LayerLinks
<1>4. PICK c, t : c = q /\ t = s
  OBVIOUS
<1>5. c \in Seq(Seq(GraphSet)) /\ Len(c) = Len(s)
  <2>1. \A j \in 1..Len(t) : c[j] \in Seq(GraphSet)
    BY <1>2, <1>4 DEF Linked
  <2>2. Along(c, t) /\ t \in Seq(DOMAIN net)
    BY <1>1, <1>3, <1>4
  <2>3. c \in Seq(Seq(GraphSet)) /\ Len(c) = Len(t)
    <3>m. Maps(c, t, DOMAIN net, Seq(GraphSet))
      BY <2>1, <2>2 DEF Maps
    <3> QED
      BY <3>m, MapIs
  <2> QED
    BY <1>4, <2>3
<1> HIDE DEF q
<1>6. \A j \in 1..Len(c) : /\ c[j] = Connect(l, j) /\ c[j] \in Seq(GraphSet) /\ OnceBy(c[j], Share) /\ j \in Nat
                           /\ Range(c[j]) = {c[j][k] : k \in 1..Len(c[j])}
                           /\ \A p \in Range(c[j]) : IsPiece(p) /\ \A n \in Range(p.nodes) : n.via = <<l, j>>
  <2>1. ASSUME NEW j \in 1..Len(c)
        PROVE  /\ c[j] = Connect(l, j) /\ c[j] \in Seq(GraphSet) /\ OnceBy(c[j], Share) /\ j \in Nat
               /\ Range(c[j]) = {c[j][k] : k \in 1..Len(c[j])}
               /\ \A p \in Range(c[j]) : IsPiece(p) /\ \A n \in Range(p.nodes) : n.via = <<l, j>>
    <3>1. c[j] = Connect(l, j) /\ Linked(c[j], l, j) /\ j \in Nat
      BY <1>1, <1>2, <1>4, <1>5
    <3>2. c[j] \in Seq(GraphSet)
      BY <3>1 DEF Linked
    <3>3. Range(c[j]) = {c[j][k] : k \in 1..Len(c[j])}
      BY <3>2, RangeIs
    <3> QED
      BY <3>1, <3>2, <3>3 DEF Linked
  <2> QED
    BY <2>1
<1>7. NotAcross(c, Share)
  <2> SUFFICES ASSUME NEW i \in 1..Len(c), NEW j \in 1..Len(c), i # j, NEW x \in Range(c[i]),
                      NEW y \in Range(c[j]), <<x, y>> \in Share
               PROVE  FALSE
    BY DEF NotAcross
  <2>1. (\A n \in Range(x.nodes) : n.via = <<l, i>>) /\ (\A n \in Range(y.nodes) : n.via = <<l, j>>)
    BY <1>6
  <2>2. <<l, i>> = <<l, j>>
    BY <2>1, ShareVia
  <2> QED
    BY <2>2
<1>8. FlattenSeq(c) \in Seq(GraphSet) /\ Range(FlattenSeq(c)) = UNION {Range(c[j]) : j \in 1..Len(c)}
  BY <1>5, FlattenIs
<1>9. OnceBy(FlattenSeq(c), Share)
  BY <1>5, <1>6, <1>7, FlattenOnceBy
<1>10. \A p \in Range(FlattenSeq(c)) : IsPiece(p) /\ \E j \in Nat : \A n \in Range(p.nodes) : n.via = <<l, j>>
  BY <1>6, <1>8
<1>11. \A j \in 1..Len(s) : Range(Connect(l, j)) \subseteq Range(FlattenSeq(c))
  BY <1>5, <1>6, <1>8
<1> QED
  BY <1>4, <1>8, <1>9, <1>10, <1>11 DEF q

LEMMA LinksAre ==
  ASSUME NetGiven
  PROVE  /\ FlattenSeq(Links) \in Seq(GraphSet) /\ OnceBy(FlattenSeq(Links), Share)
         /\ \A p \in Range(FlattenSeq(Links)) : IsPiece(p)
         /\ \A l \in DOMAIN net : \A j \in 1..Len(net[l].srcs) :
              Range(Connect(l, j)) \subseteq Range(FlattenSeq(Links))
<1>1. net \in Seq(Layers(Len(net))) /\ DOMAIN net = 1..Len(net) /\ Len(net) \in Nat
  BY LayerIs DEF NetGiven
<1>2. PICK c, t : c = Links /\ t = net
  OBVIOUS
<1>3. DOMAIN t = 1..Len(t) /\ \A l \in 1..Len(t) : c[l] = FlattenSeq(LayerLinks(l))
  BY <1>1, <1>2 DEF Links
<1>4. c \in Seq(Seq(GraphSet)) /\ Len(c) = Len(t)
  <2>1. \A l \in 1..Len(t) : c[l] \in Seq(GraphSet)
    BY <1>2, <1>3, LayerLinksAre
  <2>2. Along(c, t) /\ t \in Seq(Layers(Len(net)))
    BY <1>1, <1>2 DEF Along, Links
  <2> QED
    <3>m. Maps(c, t, Layers(Len(net)), Seq(GraphSet))
      BY <2>1, <2>2 DEF Maps
    <3> QED
      BY <3>m, MapIs
<1>5. \A l \in 1..Len(c) : OnceBy(c[l], Share)
  BY <1>2, <1>3, <1>4, LayerLinksAre
<1>6. NotAcross(c, Share)
  <2> SUFFICES ASSUME NEW a \in 1..Len(c), NEW b \in 1..Len(c), a # b, NEW x \in Range(c[a]),
                      NEW y \in Range(c[b]), <<x, y>> \in Share
               PROVE  FALSE
    BY DEF NotAcross
  <2>0. a \in DOMAIN net /\ b \in DOMAIN net /\ c[a] = FlattenSeq(LayerLinks(a)) /\ c[b] = FlattenSeq(LayerLinks(b))
    BY <1>2, <1>3, <1>4
  <2>1. PICK i : \A n \in Range(x.nodes) : n.via = <<a, i>>
    BY <2>0, LayerLinksAre
  <2>2. PICK j : \A n \in Range(y.nodes) : n.via = <<b, j>>
    BY <2>0, LayerLinksAre
  <2>3. <<a, i>> = <<b, j>>
    BY <2>1, <2>2, ShareVia
  <2> QED
    BY <2>3
<1>7. FlattenSeq(c) \in Seq(GraphSet) /\ Range(FlattenSeq(c)) = UNION {Range(c[l]) : l \in 1..Len(c)}
  BY <1>4, FlattenIs
<1>8. OnceBy(FlattenSeq(c), Share)
  BY <1>4, <1>5, <1>6, FlattenOnceBy
<1>9. \A p \in Range(FlattenSeq(c)) : IsPiece(p)
  BY <1>2, <1>3, <1>4, <1>7, LayerLinksAre
<1>10. ASSUME NEW l \in DOMAIN net, NEW j \in 1..Len(net[l].srcs)
       PROVE  Range(Connect(l, j)) \subseteq Range(FlattenSeq(c))
  <2>1. l \in 1..Len(c) /\ Range(Connect(l, j)) \subseteq Range(c[l])
    BY <1>2, <1>3, <1>4, LayerLinksAre
  <2> QED
    BY <1>7, <2>1
<1> QED
  BY <1>2, <1>7, <1>8, <1>9, <1>10

\* The nodes of all layers.
AllNodes == [l \in DOMAIN net |-> NodesOf(l)]

LEMMA AllNodesAre ==
  ASSUME NetGiven
  PROVE  /\ FlattenSeq(AllNodes) \in Seq(NodeSet) /\ Range(FlattenSeq(AllNodes)) = LayerNodes
         /\ Once(FlattenSeq(AllNodes))
<1> DEFINE Eq == {<<x, x>> : x \in NodeSet}
<1>0. \A x, y : <<x, y>> \in Eq => x = y
  OBVIOUS
<1> HIDE DEF Eq
<1>1. net \in Seq(Layers(Len(net))) /\ DOMAIN net = 1..Len(net) /\ Len(net) \in Nat
  BY LayerIs DEF NetGiven
<1>2. PICK c, t : c = AllNodes /\ t = net
  OBVIOUS
<1>3. DOMAIN t = 1..Len(t) /\ \A l \in 1..Len(t) : l \in DOMAIN net /\ c[l] = NodesOf(l)
  BY <1>1, <1>2 DEF AllNodes
<1>4. c \in Seq(Seq(NodeSet)) /\ Len(c) = Len(t)
  <2>1. \A l \in 1..Len(t) : c[l] \in Seq(NodeSet)
    BY <1>3, NodesOfIs
  <2>2. Along(c, t) /\ t \in Seq(Layers(Len(net)))
    BY <1>1, <1>2 DEF Along, AllNodes
  <2> QED
    <3>m. Maps(c, t, Layers(Len(net)), Seq(NodeSet))
      BY <2>1, <2>2 DEF Maps
    <3> QED
      BY <3>m, MapIs
<1>5. ASSUME NEW l \in 1..Len(c)
      PROVE  OnceBy(c[l], Eq) /\ \A n \in Range(c[l]) : n.l = l
  <2>1. l \in DOMAIN net /\ c[l] = NodesOf(l)
    BY <1>3, <1>4
  <2>2. /\ Parts(l) \in Nat /\ Len(NodesOf(l)) = Parts(l) /\ NodesOf(l) \in Seq(NodeSet)
        /\ \A k \in 1..Parts(l) : NodesOf(l)[k].l = l /\ NodesOf(l)[k].i = k - 1
    BY <2>1, NodesOfIs
  <2>3. Once(NodesOf(l))
    <3> SUFFICES ASSUME NEW i \in 1..Parts(l), NEW k \in 1..Parts(l), NodesOf(l)[i] = NodesOf(l)[k] PROVE i = k
      BY <2>2 DEF Once
    <3>1. i - 1 = k - 1
      BY <2>2
    <3> QED
      BY <2>2, <3>1
  <2>4. OnceBy(NodesOf(l), Eq)
    BY <2>2, <2>3, OnceByEqual DEF Eq
  <2>5. \A n \in Range(NodesOf(l)) : n.l = l
    BY <2>1, <2>2, LayerNodesAre
  <2> QED
    BY <2>1, <2>4, <2>5
<1>6. NotAcross(c, Eq)
  BY <1>0, <1>5 DEF NotAcross
<1>7. FlattenSeq(c) \in Seq(NodeSet) /\ Range(FlattenSeq(c)) = UNION {Range(c[l]) : l \in 1..Len(c)}
  BY <1>4, FlattenIs
<1>8. OnceBy(FlattenSeq(c), Eq)
  BY <1>4, <1>5, <1>6, FlattenOnceBy
<1>9. UNION {Range(c[l]) : l \in 1..Len(c)} = LayerNodes
  BY <1>2, <1>3, <1>4 DEF LayerNodes
<1>10. Once(FlattenSeq(c))
  BY <1>7, <1>8, OnceByEqual DEF Eq
<1> QED
  BY <1>2, <1>7, <1>9, <1>10

\* What the first sort starts from.
Joined(E) ==
  \A l \in DOMAIN net : \A s \in Range(net[l].srcs) : \A e \in Brought(s, l) : Direct(E, e[1], e[2])

IsFirst(g) ==
  /\ g \in GraphSet /\ Once(g.nodes) /\ Joined(Range(g.edges))
  /\ \A e \in Range(g.edges) : e[1] \in Range(g.nodes) /\ e[2] \in Range(g.nodes)
  /\ \A n \in NodeSet : n.kind = "concate" => Len(Dsts(g, n)) <= 1

LEMMA FirstGraphIs == NetGiven => IsFirst(FirstGraph)
<1> SUFFICES ASSUME NetGiven PROVE IsFirst(FirstGraph)
  OBVIOUS
<1>1. PICK P, ns : P = FlattenSeq(Links) /\ ns = FlattenSeq(AllNodes)
  OBVIOUS
<1>2. /\ P \in Seq(GraphSet) /\ OnceBy(P, Share) /\ \A p \in Range(P) : IsPiece(p)
      /\ \A l \in DOMAIN net : \A j \in 1..Len(net[l].srcs) : Range(Connect(l, j)) \subseteq Range(P)
  BY <1>1, LinksAre
<1>3. ns \in Seq(NodeSet) /\ Range(ns) = LayerNodes /\ Once(ns) /\ \A n \in Range(ns) : n.kind = "layer"
  BY <1>1, AllNodesAre, LayerNodesAre
<1>4. Range(P) = {P[k] : k \in 1..Len(P)} /\ \A k \in 1..Len(P) : IsPiece(P[k])
  BY <1>2, RangeIs
<1>5. PICK g : g = AddAll(Piece(ns, << >>), P)
  OBVIOUS
<1>6. FirstGraph = g
  BY <1>1, <1>5 DEF FirstGraph, Links, LayerLinks, AllNodes
<1>7. /\ g \in GraphSet /\ Once(g.nodes) /\ OnceBy(g.edges, FromConcate)
      /\ Range(g.nodes) = LayerNodes \cup UNION {Range(P[k].nodes) : k \in 1..Len(P)}
      /\ Range(g.edges) = EdgesOf(P)
  BY <1>2, <1>3, <1>4, <1>5, PiecesAdded
<1>8. \A e \in Range(g.edges) : e[1] \in Range(g.nodes) /\ e[2] \in Range(g.nodes)
  BY <1>4, <1>7 DEF EdgesOf, IsPiece
<1>9. \A n \in NodeSet : n.kind = "concate" => Len(Dsts(g, n)) <= 1
  BY <1>7, ConcateOne
<1>10. ASSUME NEW l \in DOMAIN net, NEW s \in Range(net[l].srcs), NEW e \in Brought(s, l)
       PROVE  Direct(Range(g.edges), e[1], e[2])
  <2>1. net[l].srcs \in Seq(DOMAIN net)
    BY LayerIs
  <2>2. PICK j \in 1..Len(net[l].srcs) : s = net[l].srcs[j]
    BY <2>1, RangeIs
  <2>3. Linked(Connect(l, j), l, j) /\ Range(Connect(l, j)) \subseteq Range(P)
    BY <1>2, ConnectIs
  <2>4. Direct(EdgesOf(Connect(l, j)), e[1], e[2]) /\ Connect(l, j) \in Seq(GraphSet)
    BY <2>2, <2>3 DEF Linked
  <2>5. EdgesOf(Connect(l, j)) \subseteq EdgesOf(P)
    <3> SUFFICES ASSUME NEW k \in 1..Len(Connect(l, j)), NEW x \in Range(Connect(l, j)[k].edges)
                 PROVE  x \in EdgesOf(P)
      BY DEF EdgesOf
    <3>1. Connect(l, j)[k] \in Range(Connect(l, j))
      BY <2>4, RangeIs
    <3>2. PICK i \in 1..Len(P) : Connect(l, j)[k] = P[i]
      BY <1>4, <2>3, <3>1
    <3> QED
      BY <3>2 DEF EdgesOf
  <2> QED
    BY <1>7, <2>4, <2>5 DEF Direct
<1>11. Joined(Range(g.edges))
  BY <1>10 DEF Joined
<1> QED
  BY <1>6, <1>7, <1>8, <1>9, <1>11 DEF IsFirst
-----------------------------------------------------------------------------
(***************************************************************************)
(* The second graph                                                        *)
(***************************************************************************)
\* Two sequences of distinct elements and the same length, one within the other.
LEMMA OnceCount ==
  ASSUME NEW S, NEW s \in Seq(S), Once(s)
  PROVE  IsFiniteSet(Range(s)) /\ Cardinality(Range(s)) = Len(s)
<1>1. Len(s) \in Nat /\ DOMAIN s = 1..Len(s) /\ s = [i \in 1..Len(s) |-> s[i]]
  BY LenProperties
<1>2. IsFiniteSet(1..Len(s)) /\ Cardinality(1..Len(s)) = Len(s)
  <2>1. PICK n \in Nat : n = Len(s)
    BY <1>1
  <2>2. 1 \in Int /\ n \in Int /\ (IF 1 > n THEN 0 ELSE n - 1 + 1) = n
    OBVIOUS
  <2>3. IsFiniteSet(1..n) /\ Cardinality(1..n) = n
    BY <2>2, FS_Interval
  <2> QED
    BY <2>1, <2>3
<1>3. s \in Bijection(1..Len(s), Range(s))
  <2>1. s \in [1..Len(s) -> Range(s)]
    BY <1>1, RangeIs
  <2>2. \A y \in Range(s) : \E i \in 1..Len(s) : s[i] = y
    BY RangeIs
  <2> QED
    BY <2>1, <2>2 DEF Bijection, Injection, Surjection, IsInjective, Once
<1>4. ExistsBijection(1..Len(s), Range(s))
  BY <1>3 DEF ExistsBijection
<1> QED
  BY <1>2, <1>4, FS_Bijection

LEMMA SameRange ==
  ASSUME NEW S, NEW s \in Seq(S), NEW t \in Seq(S), Once(s), Once(t), Range(s) \subseteq Range(t), Len(s) = Len(t)
  PROVE  Range(s) = Range(t)
<1>1. IsFiniteSet(Range(t)) /\ Cardinality(Range(t)) = Cardinality(Range(s))
  BY OnceCount
<1> QED
  BY <1>1, FS_Subset

\* No bridge is ever added.
LEMMA NoBridges ==
  ASSUME NEW g \in GraphSet
  PROVE  AddBridges(g) \in GraphSet /\ Range(AddBridges(g).edges) = Range(g.edges)
<1> DEFINE far == [k \in DOMAIN g.edges |-> NeedsBridge(g.edges[k][1], g.edges[k][2])]
           near == [k \in DOMAIN g.edges |-> ~far[k]]
           bridge == Keep(g.edges, far)
           stay == Keep(g.edges, near)
           ps == [k \in DOMAIN bridge |-> BridgeNodes(bridge[k][1], bridge[k][2])]
<1>1. g.edges \in Seq(EdgeSet) /\ g.nodes \in Seq(NodeSet) /\ DOMAIN g.edges = 1..Len(g.edges)
  BY LenProperties DEF GraphSet
<1>2. /\ far \in [1..Len(g.edges) -> BOOLEAN] /\ near \in [1..Len(g.edges) -> BOOLEAN]
      /\ \A k \in 1..Len(g.edges) : far[k] = FALSE /\ near[k] = TRUE
  BY <1>1 DEF NeedsBridge
<1>3. AddBridges(g) = AddAll(Piece(g.nodes, stay), ps)
  BY DEF AddBridges
<1>4. Along(ps, bridge)
  BY DEF Along
<1> HIDE DEF far, near
<1>5. /\ bridge \in Seq(EdgeSet) /\ stay \in Seq(EdgeSet)
      /\ Range(bridge) = {g.edges[k] : k \in {j \in 1..Len(g.edges) : far[j]}}
      /\ Range(stay) = {g.edges[k] : k \in {j \in 1..Len(g.edges) : near[j]}}
  <2>1. PICK E : E = g.edges
    OBVIOUS
  <2>2. /\ Keep(E, far) \in Seq(EdgeSet)
        /\ Range(Keep(E, far)) = {E[k] : k \in {j \in 1..Len(E) : far[j]}}
    BY <1>1, <1>2, <2>1, KeepIs
  <2>3. /\ Keep(E, near) \in Seq(EdgeSet)
        /\ Range(Keep(E, near)) = {E[k] : k \in {j \in 1..Len(E) : near[j]}}
    BY <1>1, <1>2, <2>1, KeepIs
  <2> QED
    BY <2>1, <2>2, <2>3, Zenon
<1>6. Range(bridge) = {} /\ Range(stay) = Range(g.edges)
  <2>1. Range(g.edges) = {g.edges[k] : k \in 1..Len(g.edges)}
    BY <1>1, RangeIs
  <2> QED
    BY <1>2, <1>5, <2>1
<1> HIDE DEF bridge, stay, ps
<1>7. Len(bridge) = 0
  <2>1. Len(bridge) \in Nat /\ Range(bridge) = {bridge[k] : k \in 1..Len(bridge)}
    BY <1>5, RangeIs, LenProperties
  <2> SUFFICES ASSUME Len(bridge) > 0 PROVE FALSE
    BY <2>1
  <2>2. 1 \in 1..Len(bridge)
    BY <2>1
  <2> QED
    BY <1>6, <2>1, <2>2
<1>8. PICK q, b : q = ps /\ b = bridge
  OBVIOUS
<1>9. q \in Seq(GraphSet) /\ Len(q) = 0
  <2>1. Along(q, b) /\ b \in Seq(EdgeSet)
    BY <1>4, <1>5, <1>8
  <2>2. \A k \in 1..Len(b) : q[k] \in GraphSet
    BY <1>7, <1>8
  <2>3. q \in Seq(GraphSet) /\ Len(q) = Len(b)
    <3>m. Maps(q, b, EdgeSet, GraphSet)
      BY <2>1, <2>2 DEF Maps
    <3> QED
      BY <3>m, MapIs
  <2> QED
    BY <1>7, <1>8, <2>3
<1>10. PICK h : h = Piece(g.nodes, stay)
  OBVIOUS
<1>11. h \in GraphSet /\ h.edges = stay
  BY <1>1, <1>5, <1>10 DEF GraphSet, Piece
<1>12. /\ AddAll(h, q) \in GraphSet
       /\ Range(AddAll(h, q).edges) = Range(h.edges) \cup UNION {Range(q[k].edges) : k \in 1..Len(q)}
  BY <1>9, <1>11, AddAllIs
<1>13. UNION {Range(q[k].edges) : k \in 1..Len(q)} = {}
  BY <1>9
<1> QED
  BY <1>3, <1>6, <1>8, <1>10, <1>11, <1>12, <1>13

LEMMA SplitType == \A n : NeedsSplit(n) \in BOOLEAN /\ (~NeedsSplit(n)) \in BOOLEAN
BY DEF NeedsSplit, OneToOne

\* Where the edges of the first graph have gone.
IsSplit(E2) ==
  \A a, b \in NodeSet : <<a, b>> \in Range(graph.edges) =>
    IF NeedsSplit(a)
    THEN \E m \in NodeSet : m.kind = "split" /\ <<a, m>> \in E2 /\ <<m, b>> \in E2
    ELSE <<a, b>> \in E2

LEMMA SplitsAre ==
  ASSUME graph \in GraphSet, order \in Seq(NodeSet), Range(order) = Range(graph.nodes),
         \A e \in Range(graph.edges) : e[1] \in Range(graph.nodes)
  PROVE  AddSplits \in GraphSet /\ IsSplit(Range(AddSplits.edges))
<1> DEFINE sb == [k \in DOMAIN order |-> NeedsSplit(order[k])]
           eb == [k \in DOMAIN graph.edges |-> ~NeedsSplit(graph.edges[k][1])]
           split == Keep(order, sb)
           stay == Keep(graph.edges, eb)
           piece(n) == SplitNode(n, Dsts(graph, n), <<0, 0>>)
           ps == [k \in DOMAIN split |-> piece(split[k])]
<1>1. /\ graph.edges \in Seq(EdgeSet) /\ DOMAIN graph.edges = 1..Len(graph.edges)
      /\ DOMAIN order = 1..Len(order)
  BY LenProperties DEF GraphSet
<1>2. /\ sb \in [1..Len(order) -> BOOLEAN] /\ eb \in [1..Len(graph.edges) -> BOOLEAN]
      /\ \A k \in 1..Len(order) : sb[k] <=> NeedsSplit(order[k])
      /\ \A k \in 1..Len(graph.edges) : eb[k] <=> ~NeedsSplit(graph.edges[k][1])
  BY <1>1, SplitType
<1>3. AddSplits = AddAll(Piece(order, stay), ps)
  BY DEF AddSplits
<1> HIDE DEF sb, eb
<1>4. /\ split \in Seq(NodeSet) /\ Range(split) = {order[k] : k \in {j \in 1..Len(order) : sb[j]}}
  BY <1>2, KeepIs
<1>5. stay \in Seq(EdgeSet) /\ Range(stay) = {graph.edges[k] : k \in {j \in 1..Len(graph.edges) : eb[j]}}
  BY <1>1, <1>2, KeepIs
<1> HIDE DEF split, stay
<1>6. Along(ps, split) /\ DOMAIN split = 1..Len(split)
  BY <1>4, LenProperties DEF Along
<1>7. \A k \in 1..Len(split) : ps[k] = piece(split[k]) /\ split[k] \in NodeSet /\ split[k] \in Range(split)
  <2>1. \A w \in Seq(NodeSet) : \A k \in 1..Len(w) : w[k] \in NodeSet /\ w[k] \in Range(w)
    BY ElementOfSeq, RangeIs
  <2>2. \A k \in 1..Len(split) : split[k] \in NodeSet /\ split[k] \in Range(split)
    BY <1>4, <2>1
  <2> QED
    BY <1>6, <2>2
<1> HIDE DEF ps
<1>8. ASSUME NEW n \in NodeSet
      PROVE  HasNode(piece(n), Between("split", n, <<0, 0>>), <<n, Between("split", n, <<0, 0>>)>>,
                     Outs(Between("split", n, <<0, 0>>), Dsts(graph, n)))
  <2>1. Dsts(graph, n) \in Seq(NodeSet) /\ <<0, 0>> \in Nat \X Nat
    BY EndsIs
  <2>2. PICK d, v : d = Dsts(graph, n) /\ v = <<0, 0>>
    OBVIOUS
  <2>3. HasNode(SplitNode(n, d, v), Between("split", n, v), <<n, Between("split", n, v)>>, Outs(Between("split", n, v), d))
    BY <2>1, <2>2, BetweenIs
  <2> QED
    BY <2>2, <2>3, Zenon
<1>9. PICK q, z : q = ps /\ z = split
  OBVIOUS
<1>10. q \in Seq(GraphSet) /\ Len(q) = Len(z)
  <2>1. Along(q, z) /\ z \in Seq(NodeSet)
    BY <1>4, <1>6, <1>9
  <2>2. \A k \in 1..Len(z) : q[k] \in GraphSet
    BY <1>7, <1>8, <1>9 DEF HasNode
  <2> QED
    <3>m. Maps(q, z, NodeSet, GraphSet)
      BY <2>1, <2>2 DEF Maps
    <3> QED
      BY <3>m, MapIs
<1>11. PICK h : h = Piece(order, stay)
  OBVIOUS
<1>12. h \in GraphSet /\ h.edges = stay
  BY <1>5, <1>11 DEF GraphSet, Piece
<1>13. /\ AddAll(h, q) \in GraphSet
       /\ Range(AddAll(h, q).edges) = Range(h.edges) \cup UNION {Range(q[k].edges) : k \in 1..Len(q)}
  BY <1>10, <1>12, AddAllIs
<1>14. AddSplits \in GraphSet /\ AddSplits = AddAll(h, q)
  BY <1>3, <1>9, <1>11, <1>13
<1>15. Range(stay) \subseteq Range(AddSplits.edges) /\ \A k \in 1..Len(q) : Range(q[k].edges) \subseteq Range(AddSplits.edges)
  BY <1>12, <1>13, <1>14
<1>16. ASSUME NEW a \in NodeSet, NEW b \in NodeSet, <<a, b>> \in Range(graph.edges)
       PROVE  IF NeedsSplit(a)
              THEN \E m \in NodeSet : /\ m.kind = "split" /\ <<a, m>> \in Range(AddSplits.edges)
                                      /\ <<m, b>> \in Range(AddSplits.edges)
              ELSE <<a, b>> \in Range(AddSplits.edges)
  <2>1. PICK k \in 1..Len(graph.edges) : graph.edges[k] = <<a, b>>
    BY <1>1, <1>16, RangeIs
  <2>2. graph.edges[k][1] = a /\ a \in Range(order)
    BY <1>16, <2>1
  <2>3. CASE ~NeedsSplit(a)
    <3>1. <<a, b>> \in Range(stay)
      BY <1>2, <1>5, <2>1, <2>2, <2>3
    <3> QED
      BY <1>15, <2>3, <3>1
  <2>4. CASE NeedsSplit(a)
    <3>1. PICK i \in 1..Len(order) : order[i] = a
      BY <2>2, RangeIs
    <3>2. a \in Range(split)
      BY <1>2, <1>4, <2>4, <3>1
    <3>3. PICK i2 \in 1..Len(split) : split[i2] = a
      <4>1. PICK w \in Seq(NodeSet) : w = split
        BY <1>4
      <4>2. \E j \in 1..Len(w) : w[j] = a
        BY <3>2, <4>1, RangeIs
      <4> QED
        BY <4>1, <4>2
    <3> DEFINE m == Between("split", a, <<0, 0>>)
    <3>4. HasNode(piece(a), m, <<a, m>>, Outs(m, Dsts(graph, a))) /\ m.kind = "split"
      BY <1>8 DEF Between, Node
    <3>5. i2 \in 1..Len(q) /\ q[i2] = piece(a)
      BY <1>7, <1>9, <1>10, <3>3
    <3>6. b \in Range(Dsts(graph, a))
      BY <1>16, EndsIs
    <3> HIDE DEF m
    <3>7. m \in NodeSet /\ <<a, m>> \in Range(q[i2].edges) /\ <<m, b>> \in Range(q[i2].edges)
      BY <3>4, <3>5, <3>6 DEF HasNode, Outs
    <3> QED
      BY <1>15, <2>4, <3>4, <3>5, <3>7
  <2> QED
    BY <2>3, <2>4
<1> QED
  BY <1>14, <1>16 DEF IsSplit

\* Data goes from a to b through at most two inserted nodes of g.
Goes(g, a, b) ==
  \/ b \in Range(Dsts(g, a))
  \/ \E m \in Range(Dsts(g, a)) :
       /\ m.kind # "layer"
       /\ \/ b \in Range(Dsts(g, m))
          \/ \E n \in Range(Dsts(g, m)) : n.kind # "layer" /\ b \in Range(Dsts(g, n))

Delivers(g) == \A l \in DOMAIN net : \A s \in Range(net[l].srcs) : \A e \in Brought(s, l) : Goes(g, e[1], e[2])

LEMMA NeededNodes ==
  ASSUME NetGiven, NEW l \in DOMAIN net, NEW s \in Range(net[l].srcs), NEW e \in Brought(s, l)
  PROVE  e[1] \in NodeSet /\ e[2] \in NodeSet
<1>1. s \in DOMAIN net
  BY LayerIs, RangeIs
<1>2. e[1] \in Range(NodesOf(s)) /\ e[2] \in Range(NodesOf(l))
  BY <1>1, NeededIs
<1> QED
  BY <1>1, <1>2, LayerNodesAre

\* The split nodes keep the layers connected.
LEMMA SecondDelivers ==
  ASSUME NetGiven, IsFirst(graph), NEW g \in GraphSet, IsSplit(Range(g.edges))
  PROVE  Delivers(g)
<1> SUFFICES ASSUME NEW l \in DOMAIN net, NEW s \in Range(net[l].srcs), NEW e \in Brought(s, l)
             PROVE  Goes(g, e[1], e[2])
  BY DEF Delivers
<1> DEFINE a == e[1]
           b == e[2]
           E == Range(graph.edges)
           F == Range(g.edges)
<1>1. a \in NodeSet /\ b \in NodeSet
  BY NeededNodes
<1>2. Direct(E, a, b)
  BY DEF IsFirst, Joined
<1>3. \A n, m \in NodeSet : <<n, m>> \in F => m \in Range(Dsts(g, n))
  BY EndsIs
<1>4. \A n, m \in NodeSet : <<n, m>> \in E =>
        \/ NeedsSplit(n) /\ \E x \in NodeSet : x.kind = "split" /\ <<n, x>> \in F /\ <<x, m>> \in F
        \/ ~NeedsSplit(n) /\ <<n, m>> \in F
  BY DEF IsSplit
<1> HIDE DEF a, b, E, F
<1>5. CASE <<a, b>> \in E
  <2>1. CASE <<a, b>> \in F
    BY <1>1, <1>3, <2>1 DEF Goes, a, b
  <2>2. CASE \E x \in NodeSet : x.kind = "split" /\ <<a, x>> \in F /\ <<x, b>> \in F
    <3>1. PICK x \in NodeSet : x.kind = "split" /\ <<a, x>> \in F /\ <<x, b>> \in F
      BY <2>2
    <3>2. x \in Range(Dsts(g, a)) /\ b \in Range(Dsts(g, x)) /\ x.kind # "layer"
      BY <1>1, <1>3, <3>1
    <3> QED
      BY <3>2 DEF Goes, a, b
  <2> QED
    BY <1>1, <1>4, <1>5, <2>1, <2>2
<1>6. CASE \E m \in NodeSet : m.kind \in {"slice", "split", "concate"} /\ <<a, m>> \in E /\ <<m, b>> \in E
  <2>1. PICK m \in NodeSet : m.kind \in {"slice", "split", "concate"} /\ <<a, m>> \in E /\ <<m, b>> \in E
    BY <1>6
  <2>2. ~NeedsSplit(m)
    <3>1. m.kind = "concate" => ~(Len(Dsts(graph, m)) > 1)
      <4>1. m.kind = "concate" => Len(Dsts(graph, m)) <= 1 /\ Len(Dsts(graph, m)) \in Nat
        BY EndsIs, LenProperties DEF IsFirst
      <4> QED
        BY <4>1
    <3> QED
      BY <2>1, <3>1 DEF NeedsSplit, OneToOne
  <2>3. <<m, b>> \in F /\ m.kind # "layer" /\ b \in Range(Dsts(g, m))
    BY <1>1, <1>3, <1>4, <2>1, <2>2
  <2>4. CASE <<a, m>> \in F
    <3>1. m \in Range(Dsts(g, a))
      BY <1>1, <1>3, <2>4
    <3> QED
      BY <2>3, <3>1 DEF Goes, a, b
  <2>5. CASE \E x \in NodeSet : x.kind = "split" /\ <<a, x>> \in F /\ <<x, m>> \in F
    <3>1. PICK x \in NodeSet : x.kind = "split" /\ <<a, x>> \in F /\ <<x, m>> \in F
      BY <2>5
    <3>2. x \in Range(Dsts(g, a)) /\ m \in Range(Dsts(g, x)) /\ x.kind # "layer"
      BY <1>1, <1>3, <3>1
    <3> QED
      BY <2>3, <3>2 DEF Goes, a, b
  <2> QED
    BY <1>1, <1>4, <2>1, <2>4, <2>5
<1> QED
  BY <1>2, <1>5, <1>6 DEF Direct

\* Nodes are sorted once, and come from the graph.
InSort ==
  /\ Once(queue) /\ Once(order) /\ Range(queue) \cap Range(order) = {}
  /\ Range(queue) \cup Range(order) \subseteq Range(graph.nodes)

NetType == NetGiven /\ graph \in GraphSet /\ queue \in Seq(NodeSet) /\ order \in Seq(NodeSet)

\* Init has stopped at a connection it fails on.
NoneHidden == \A l \in DOMAIN net : \A s \in Range(net[l].srcs) : ~Hidden(s, l)

BuildInv ==
  /\ NetType
  /\ pass = "first" => IsFirst(graph) /\ InSort
  /\ pass \in {"second", "built"} => Delivers(graph)
  /\ pass # "crashed" => NoneHidden

LEMMA RootsAre ==
  ASSUME NEW g \in GraphSet
  PROVE  /\ Roots(g) \in Seq(NodeSet) /\ Range(Roots(g)) \subseteq Range(g.nodes)
         /\ Once(g.nodes) => Once(Roots(g))
<1> DEFINE b == [k \in DOMAIN g.nodes |-> Srcs(g, g.nodes[k]) = << >>]
<1>1. g.nodes \in Seq(NodeSet) /\ DOMAIN g.nodes = 1..Len(g.nodes)
  BY LenProperties DEF GraphSet
<1>2. b \in [1..Len(g.nodes) -> BOOLEAN]
  BY <1>1
<1>3. Roots(g) = Keep(g.nodes, b)
  BY DEF Roots
<1> HIDE DEF b
<1>4. PICK ns : ns = g.nodes
  OBVIOUS
<1>5. /\ Keep(ns, b) \in Seq(NodeSet) /\ Range(Keep(ns, b)) = {ns[k] : k \in {j \in 1..Len(ns) : b[j]}}
      /\ (\A i, j \in 1..Len(ns) : b[i] /\ b[j] /\ ns[i] = ns[j] => i = j) => Once(Keep(ns, b))
  BY <1>1, <1>2, <1>4, KeepIs
<1>6. Range(ns) = {ns[k] : k \in 1..Len(ns)}
  BY <1>1, <1>4, RangeIs
<1>7. Range(Keep(ns, b)) \subseteq Range(ns)
  BY <1>5, <1>6
<1>8. Once(ns) => Once(Keep(ns, b))
  BY <1>5 DEF Once
<1> QED
  BY <1>3, <1>4, <1>5, <1>7, <1>8

LEMMA NewDstsAre ==
  ASSUME graph \in GraphSet, NEW n \in NodeSet
  PROVE  /\ NewDsts(n) \in Seq(NodeSet) /\ Once(NewDsts(n)) /\ Range(NewDsts(n)) \subseteq Range(Dsts(graph, n))
         /\ Range(NewDsts(n)) \cap (Range(queue) \cup Range(order)) = {}
<1> DEFINE new(d, k) == d[k] \notin Range(queue) \cup Range(order) /\ \A j \in 1..(k - 1) : d[j] # d[k]
<1>1. PICK d : d = Dsts(graph, n) /\ d \in Seq(NodeSet)
  BY EndsIs
<1>2. PICK b : b = [k \in DOMAIN d |-> new(d, k)]
  OBVIOUS
<1>3. NewDsts(n) = Keep(d, b)
  BY <1>1, <1>2 DEF NewDsts
<1>4. Len(d) \in Nat /\ DOMAIN d = 1..Len(d) /\ Range(d) = {d[k] : k \in 1..Len(d)}
  BY <1>1, LenProperties, RangeIs
<1>5. b \in [1..Len(d) -> BOOLEAN] /\ \A k \in 1..Len(d) : b[k] <=> new(d, k)
  BY <1>2, <1>4
<1>6. /\ Keep(d, b) \in Seq(NodeSet) /\ Range(Keep(d, b)) = {d[k] : k \in {j \in 1..Len(d) : b[j]}}
      /\ (\A i, j \in 1..Len(d) : b[i] /\ b[j] /\ d[i] = d[j] => i = j) => Once(Keep(d, b))
  BY <1>1, <1>5, KeepIs
<1>7. \A i, j \in 1..Len(d) : b[i] /\ b[j] /\ d[i] = d[j] => i = j
  <2> SUFFICES ASSUME NEW i \in 1..Len(d), NEW j \in 1..Len(d), b[i], b[j], d[i] = d[j], i < j PROVE FALSE
    BY <1>4
  <2>1. i \in 1..(j - 1)
    BY <1>4
  <2> QED
    BY <1>5, <2>1
<1>8. Range(Keep(d, b)) \subseteq Range(d) /\ Range(Keep(d, b)) \cap (Range(queue) \cup Range(order)) = {}
  BY <1>4, <1>5, <1>6
<1> QED
  BY <1>1, <1>3, <1>6, <1>7, <1>8

LEMMA SameNet ==
  ASSUME net' = net, np' = np
  PROVE  /\ NodeSet' = NodeSet /\ EdgeSet' = EdgeSet /\ GraphSet' = GraphSet /\ (NetGiven' <=> NetGiven)
         /\ \A g : (IsFirst(g)' <=> IsFirst(g)) /\ (Delivers(g)' <=> Delivers(g))
         /\ NoneHidden' <=> NoneHidden
<1>1. NodeSet' = NodeSet
  BY DEF NodeSet
<1>2. EdgeSet' = EdgeSet
  BY <1>1 DEF EdgeSet
<1>3. GraphSet' = GraphSet
  BY <1>1, <1>2 DEF GraphSet
<1>4. \A l : Parts(l)' = Parts(l)
  BY DEF Parts
<1>5. \A l : NodesOf(l)' = NodesOf(l)
  BY <1>4 DEF NodesOf
<1>6. \A s, l : (Hidden(s, l)' <=> Hidden(s, l)) /\ (Forgotten(s, l)' <=> Forgotten(s, l))
  BY DEF Hidden, Forgotten
<1>7. \A s, l : Brought(s, l)' = Brought(s, l)
  BY <1>5, <1>6 DEF Brought, Needed
<1>8. \A E, a, b : Direct(E, a, b)' <=> Direct(E, a, b)
  BY <1>1 DEF Direct
<1>9. \A E : Joined(E)' <=> Joined(E)
  BY <1>7, <1>8 DEF Joined
<1>10. \A g : IsFirst(g)' <=> IsFirst(g)
  BY <1>1, <1>3, <1>9 DEF IsFirst
<1>11. \A g : Delivers(g)' <=> Delivers(g)
  BY <1>7 DEF Delivers
<1>12. NetGiven' <=> NetGiven
  BY DEF NetGiven
<1>13. NoneHidden' <=> NoneHidden
  BY <1>6 DEF NoneHidden
<1> QED
  BY <1>1, <1>2, <1>3, <1>10, <1>11, <1>12, <1>13

LEMMA HeadIs ==
  ASSUME NEW S, NEW q \in Seq(S), q # << >>
  PROVE  /\ Head(q) \in S /\ Tail(q) \in Seq(S) /\ Range(q) = {Head(q)} \cup Range(Tail(q))
         /\ Once(q) => Once(Tail(q)) /\ Head(q) \notin Range(Tail(q))
<1> DEFINE t == Tail(q)
<1>1. /\ Len(q) \in Nat \ {0} /\ Head(q) = q[1] /\ Head(q) \in S /\ t \in Seq(S) /\ Len(t) = Len(q) - 1
      /\ \A i \in 1..Len(t) : t[i] = q[i + 1]
  BY HeadTailProperties, LenProperties, EmptySeq
<1> HIDE DEF t
<1>2. Range(q) = {q[i] : i \in 1..Len(q)} /\ Range(t) = {t[i] : i \in 1..Len(t)}
  BY <1>1, RangeIs
<1>3. \A i \in 1..Len(q) : i = 1 \/ (i - 1 \in 1..Len(t) /\ q[i] = t[i - 1])
  BY <1>1
<1>4. 1 \in 1..Len(q) /\ \A i \in 1..Len(t) : i + 1 \in 1..Len(q) /\ i + 1 # 1
  BY <1>1
<1>5. Range(q) = {Head(q)} \cup Range(t)
  <2>1. ASSUME NEW x \in Range(q) PROVE x \in {Head(q)} \cup Range(t)
    BY <1>1, <1>2, <1>3
  <2>2. ASSUME NEW x \in Range(t) PROVE x \in Range(q)
    BY <1>1, <1>2, <1>4
  <2> QED
    BY <1>1, <1>2, <1>4, <2>1, <2>2
<1>6. ASSUME Once(q) PROVE Once(t) /\ Head(q) \notin Range(t)
  <2>1. \A i, j \in 1..Len(t) : t[i] = t[j] => i + 1 = j + 1
    BY <1>1, <1>4, <1>6 DEF Once
  <2>2. \A i, j \in 1..Len(t) : i + 1 = j + 1 => i = j
    BY <1>1
  <2>3. \A i \in 1..Len(t) : t[i] # q[1]
    BY <1>1, <1>4, <1>6 DEF Once
  <2> QED
    BY <1>1, <1>2, <2>1, <2>2, <2>3 DEF Once
<1> QED
  BY <1>1, <1>5, <1>6 DEF t

LEMMA ConcatOnce ==
  ASSUME NEW S, NEW s \in Seq(S), NEW t \in Seq(S), Once(s), Once(t), Range(s) \cap Range(t) = {}
  PROVE  Once(s \o t)
<1> DEFINE Eq == {<<x, x>> : x \in S}
<1>1. \A x, y : <<x, y>> \in Eq => x = y
  OBVIOUS
<1>2. OnceBy(s, Eq) /\ OnceBy(t, Eq)
  BY OnceByEqual
<1>3. s \o t \in Seq(S)
  BY ConcatProperties
<1> HIDE DEF Eq
<1>4. \A x \in Range(s), y \in Range(t) : ~(<<x, y>> \in Eq) /\ ~(<<y, x>> \in Eq)
  BY <1>1
<1>5. OnceBy(s \o t, Eq)
  BY <1>2, <1>4, ConcatOnceBy
<1> QED
  BY <1>3, <1>5, OnceByEqual DEF Eq

\* A turn of the loop.
LEMMA BuildVisit ==
  ASSUME BuildInv, Visit
  PROVE  BuildInv'
<1> DEFINE n == Head(queue)
           t == Tail(queue)
<1>0. /\ net' = net /\ np' = np /\ graph' = graph /\ pass' = pass /\ queue # << >> /\ NetType
      /\ graph \in GraphSet /\ queue \in Seq(NodeSet) /\ order \in Seq(NodeSet)
  BY DEF Visit, BuildInv, NetType
<1>1. /\ n \in NodeSet /\ t \in Seq(NodeSet) /\ Range(queue) = {n} \cup Range(t)
      /\ Once(queue) => Once(t) /\ n \notin Range(t)
  BY <1>0, HeadIs
<1>2. \/ queue' = t \o NewDsts(n) /\ order' = Append(order, n)
      \/ queue' = Append(t, n) /\ order' = order
  BY DEF Visit
<1> HIDE DEF n, t
<1>3. /\ NewDsts(n) \in Seq(NodeSet) /\ Once(NewDsts(n)) /\ Range(NewDsts(n)) \subseteq Range(Dsts(graph, n))
      /\ Range(NewDsts(n)) \cap (Range(queue) \cup Range(order)) = {}
  BY <1>0, <1>1, NewDstsAre
<1>4. CASE queue' = t \o NewDsts(n) /\ order' = Append(order, n)
  <2>1. queue' \in Seq(NodeSet) /\ Range(queue') = Range(t) \cup Range(NewDsts(n))
    BY <1>1, <1>3, <1>4, ConcatProperties, RangeConcatenation
  <2>2. order' \in Seq(NodeSet) /\ Range(order') = Range(order) \cup {n}
    BY <1>0, <1>1, <1>4, AppendProperties, AppendOnce
  <2>3. ASSUME pass = "first" PROVE InSort'
    <3>1. IsFirst(graph) /\ InSort
      BY <2>3 DEF BuildInv
    <3>2. n \in Range(queue) /\ n \notin Range(order)
      BY <1>1, <3>1 DEF InSort
    <3>3. Once(order')
      BY <1>0, <1>1, <1>4, <3>1, <3>2, AppendOnce DEF InSort
    <3>4. Once(queue')
      BY <1>1, <1>3, <1>4, <3>1, ConcatOnce DEF InSort
    <3>5. Range(NewDsts(n)) \subseteq Range(graph.nodes)
      <4>1. \A m \in Range(Dsts(graph, n)) : <<n, m>> \in Range(graph.edges)
        BY <1>0, <1>1, EndsIs
      <4>2. \A m : <<n, m>> \in Range(graph.edges) => m \in Range(graph.nodes)
        BY <3>1 DEF IsFirst
      <4> QED
        BY <1>3, <4>1, <4>2
    <3>6. Range(queue') \cap Range(order') = {}
      BY <1>1, <1>3, <2>1, <2>2, <3>1, <3>2 DEF InSort
    <3>7. Range(queue') \cup Range(order') \subseteq Range(graph.nodes)
      BY <1>1, <2>1, <2>2, <3>1, <3>2, <3>5 DEF InSort
    <3> QED
      BY <1>0, <3>3, <3>4, <3>6, <3>7 DEF InSort
  <2> QED
    BY <1>0, <2>1, <2>2, <2>3, SameNet DEF BuildInv, NetType
<1>5. CASE queue' = Append(t, n) /\ order' = order
  <2>1. queue' \in Seq(NodeSet) /\ Range(queue') = Range(queue)
    BY <1>1, <1>5, AppendProperties, AppendOnce
  <2>2. Once(queue) => Once(queue')
    BY <1>1, <1>5, AppendOnce
  <2> QED
    BY <1>0, <1>5, <2>1, <2>2, SameNet DEF BuildInv, NetType, InSort
<1> QED
  BY <1>2, <1>4, <1>5

\* The end of a sort: after the first one all nodes are in order, so all that
\* need a split node get one.
LEMMA BuildEndSort ==
  ASSUME BuildInv, EndSort
  PROVE  BuildInv'
<1>0. net' = net /\ np' = np /\ pass \in {"first", "second"} /\ NetType
  BY DEF EndSort, BuildInv
<1>1. CASE pass' \in {"crashed", "built"} /\ UNCHANGED <<graph, queue, order>>
  <2>1. pass' = "built" => pass = "second"
    BY <1>0, <1>1 DEF EndSort, BeginSort
  <2> QED
    BY <1>0, <1>1, <2>1, SameNet DEF BuildInv, NetType
<1>2. CASE pass = "first" /\ Len(order) = Len(graph.nodes)
  <2>1. PICK h : h = AddSplits
    OBVIOUS
  <2>2. PICK g : g = AddBridges(h)
    OBVIOUS
  <2>3. graph' = g /\ pass' = "second" /\ queue' = Roots(g) /\ order' = << >>
    BY <1>2, <2>1, <2>2 DEF EndSort, BeginSort
  <2>4. IsFirst(graph) /\ InSort /\ order \in Seq(NodeSet) /\ graph.nodes \in Seq(NodeSet) /\ graph \in GraphSet
    BY <1>2 DEF BuildInv, NetType, GraphSet
  <2>5. Range(order) = Range(graph.nodes)
    BY <1>2, <2>4, SameRange DEF InSort, IsFirst
  <2>6. h \in GraphSet /\ IsSplit(Range(h.edges))
    BY <2>1, <2>4, <2>5, SplitsAre DEF IsFirst
  <2>7. g \in GraphSet /\ Range(g.edges) = Range(h.edges)
    BY <2>2, <2>6, NoBridges
  <2>8. Delivers(g)
    BY <1>0, <2>4, <2>6, <2>7, SecondDelivers DEF NetType
  <2>9. Roots(g) \in Seq(NodeSet) /\ << >> \in Seq(NodeSet)
    BY <2>7, RootsAre, EmptySeq
  <2>10. NetType'
    BY <1>0, <2>3, <2>7, <2>9, SameNet DEF NetType
  <2>11. Delivers(g)'
    BY <1>0, <2>8, SameNet
  <2>12. NoneHidden'
    BY <1>0, <1>2, SameNet DEF BuildInv
  <2> QED
    BY <2>3, <2>10, <2>11, <2>12 DEF BuildInv
<1> QED
  BY <1>0, <1>1, <1>2 DEF EndSort

LEMMA BuildStep == BuildInv /\ [Next]_vars => BuildInv'
<1> SUFFICES ASSUME BuildInv, [Next]_vars PROVE BuildInv'
  OBVIOUS
<1>1. CASE Visit
  BY <1>1, BuildVisit
<1>2. CASE EndSort
  BY <1>2, BuildEndSort
<1>3. CASE UNCHANGED netVars
  <2>1. net' = net /\ np' = np /\ graph' = graph /\ queue' = queue /\ order' = order /\ pass' = pass
    BY <1>3 DEF netVars
  <2> QED
    BY <2>1, SameNet DEF BuildInv, NetType, InSort
<1> QED
  BY <1>1, <1>2, <1>3 DEF Next, BuildNet, NetStep, StartSlicing, SliceAndPartition, vars

LEMMA BuildInit == Init => BuildInv
<1> SUFFICES ASSUME Init PROVE BuildInv
  OBVIOUS
<1>1. NetGiven /\ graph = FirstGraph /\ queue = Roots(graph) /\ order = << >> /\ pass \in {"first", "crashed"}
      /\ (pass # "crashed" => NoneHidden)
  <2>1. PICK in \in Inputs : NetInit(in.net, in.conf.nw) /\ SliceInit(in.conf)
    BY DEF Init
  <2>2. in.net \in Seq(Layers(Len(in.net))) /\ in.conf.nw \in Nat \ {0}
    BY InputsAssumption, ConfigType
  <2> QED
    BY <2>1, <2>2 DEF NetInit, NetGiven, NoneHidden
<1>2. IsFirst(graph)
  BY <1>1, FirstGraphIs
<1>3. graph \in GraphSet /\ Once(graph.nodes)
  BY <1>2 DEF IsFirst
<1>4. queue \in Seq(NodeSet) /\ Range(queue) \subseteq Range(graph.nodes) /\ Once(queue)
  BY <1>1, <1>3, RootsAre
<1>5. order \in Seq(NodeSet) /\ Range(order) = {} /\ Once(order)
  BY <1>1, EmptySeq DEF Range, Once
<1>6. InSort
  BY <1>4, <1>5 DEF InSort
<1> QED
  BY <1>1, <1>2, <1>3, <1>4, <1>5, <1>6 DEF BuildInv, NetType

\* For every net and number of partitions: once it is built, each partition of
\* a layer is reached by the data it needs of each source, a source that
\* CreateGraph forgets apart, through the slice, concate and split nodes of
\* both passes; no edge is lost when a node with
\* several destinations hands them to its split node, because the first sort
\* has put every node in order.
THEOREM SetupConnectionsKept == Spec => []ConnectionsKept
<1>1. BuildInv => ConnectionsKept
  <2> SUFFICES ASSUME BuildInv, pass = "built",
                      NEW l \in DOMAIN net, NEW s \in Range(net[l].srcs), ~Forgotten(s, l),
                      NEW e \in Needed(s, l)
               PROVE  Arrives(e[1], e[2])
    BY DEF ConnectionsKept
  <2>1. ~Hidden(s, l)
    BY DEF BuildInv, NoneHidden
  <2>2. e \in Brought(s, l)
    BY <2>1 DEF Brought
  <2>3. Goes(graph, e[1], e[2])
    BY <2>2 DEF BuildInv, Delivers
  <2> QED
    BY <2>3 DEF Goes, Arrives, Inserted
<1>2. Spec => Init /\ [][Next]_vars
  BY PTL DEF Spec
<1> QED
  BY <1>1, <1>2, BuildInit, BuildStep, PTL
-----------------------------------------------------------------------------
(***************************************************************************)
(* The number of boxes                                                     *)
(***************************************************************************)
LEMMA DividesType == \A a, b : Divides(a, b) \in BOOLEAN
BY DEF Divides

LEMMA GcdIs ==
  ASSUME NEW a \in Nat \ {0}, NEW b \in Nat \ {0}
  PROVE  gcd(a, b) \in 1..a
<1> DEFINE S == {d \in 1..a : Divides(d, a) /\ Divides(d, b)}
           T == {a - d : d \in S}
<1>1. a - 1 \in T
  <2>1. 1 \in 1..a /\ Divides(1, a) /\ Divides(1, b)
    BY DEF Divides
  <2> QED
    BY <2>1
<1>2. T \subseteq Nat
  OBVIOUS
<1>3. PICK m \in T : \A y \in T : ~(<<y, m>> \in Less)
  BY <1>1, <1>2, LessWellFounded, WFMin
<1>4. PICK d \in S : m = a - d
  BY <1>3
<1>5. ASSUME NEW e \in (d + 1)..a, Divides(e, a), Divides(e, b) PROVE FALSE
  <2>1. e \in S /\ a - e \in T
    BY <1>4, <1>5
  <2>2. a - e \in Nat /\ m \in Nat /\ a - e < m
    BY <1>2, <1>4, <2>1
  <2> QED
    BY <1>3, <2>1, <2>2 DEF Less
<1>6. \E g \in 1..a : /\ Divides(g, a) /\ Divides(g, b)
                      /\ \A e \in (g + 1)..a : ~(Divides(e, a) /\ Divides(e, b))
  BY <1>4, <1>5
<1> QED
  BY <1>6 DEF gcd

LEMMA LcmIs ==
  ASSUME NEW a \in Nat \ {0}, NEW b \in Nat \ {0}
  PROVE  LeastCommonMultiple(a, b) \in Nat \ {0}
<1>1. PICK g : g = gcd(a, b)
  OBVIOUS
<1>2. g \in 1..a
  BY <1>1, GcdIs
<1>3. PICK q : q = a \div g
  OBVIOUS
<1>4. q \in Nat /\ q # 0
  <2>1. g \in Nat \ {0} /\ q \in Nat
    BY <1>2, <1>3, Multiple
  <2>2. q # 0
    BY <1>2, <1>3, <2>1
  <2> QED
    BY <2>1, <2>2
<1>5. q * b \in Nat \ {0}
  BY <1>4
<1> QED
  BY <1>1, <1>3, <1>5 DEF LeastCommonMultiple

\* The average of num boxes, rounded up by the remainder, is enough for all.
LEMMA AverageIs ==
  ASSUME NEW t \in Nat, NEW n \in Nat \ {0}
  PROVE  Average(t, n) \in Nat /\ t <= n * Average(t, n)
<1>1. PICK q, r : q = t \div n /\ r = t % n
  OBVIOUS
<1>2. q \in Nat /\ r \in Nat /\ t = q * n + r
  <2>1. q \in Nat /\ r \in Nat
    BY <1>1
  <2> QED
    BY <1>1, <2>1, Division
<1>3. n * (q + r) = q * n + r * n /\ r <= r * n
  BY <1>2
<1>4. t <= n * (q + r)
  <2>1. q * n \in Nat /\ r * n \in Nat
    BY <1>2
  <2> QED
    BY <1>2, <1>3, <2>1
<1> QED
  BY <1>1, <1>2, <1>4 DEF Average

LEMMA TenthIs ==
  ASSUME NEW a \in Nat, NEW d, d = a \div 10
  PROVE  d \in Nat /\ 10 * d <= a /\ d <= a
OBVIOUS
-----------------------------------------------------------------------------
(***************************************************************************)
(* Slices                                                                  *)
(***************************************************************************)
Pos == Nat \ {0}

\* What is left of the parameters, and the slices made, add up to their sizes.
Sliced(p) == Sum(slices[p]) = sizes[p]

InSlice ==
  /\ sizes = << >> => rest = << >> /\ slices = << >>
  /\ sizes # << >> =>
       /\ rest # << >> /\ slices # << >> /\ Len(slices) + Len(rest) = Len(sizes) + 1
       /\ \A p \in 1..(Len(slices) - 1) : Sliced(p)
       /\ Sum(slices[Len(slices)]) + rest[1] = sizes[Len(slices)]
       /\ \A k \in 2..Len(rest) : rest[k] = sizes[Len(slices) + k - 1]

\* nbox boxes are full but for a tenth, and the last one is filled so far.
Filled(a, d) == /\ capacity <= a
                /\ Total - Sum(rest) >= nbox * (a - d) + (a - capacity)

InBoxes == /\ Filled(Avg(Lcm), Diff(Lcm))
           /\ Lcm <= 11 => nbox <= Lcm

SliceInv ==
  /\ conf \in Config /\ sizes \in Seq(Nat) /\ rest \in Seq(Nat) /\ slices \in Seq(Seq(Pos))
  /\ capacity \in Nat /\ nbox \in Nat
  /\ phase \in {"net", "slice", "group", "server", "done", "fatal"}
  /\ phase = "net" => nbox = 0
  /\ phase = "slice" => InSlice /\ InBoxes
  /\ phase \in {"group", "server", "done", "fatal"} =>
       Len(slices) = Len(sizes) /\ \A p \in 1..Len(sizes) : Sliced(p)
  /\ phase = "fatal" => Lcm > 11

LEMMA BoxesAre ==
  ASSUME conf \in Config
  PROVE  Lcm \in Nat \ {0}
BY ConfigType, LcmIs DEF Lcm

LEMMA SizesOf ==
  ASSUME sizes \in Seq(Nat)
  PROVE  /\ Total \in Nat
         /\ \A n \in Nat \ {0} : /\ Avg(n) \in Nat /\ Total <= n * Avg(n)
                                 /\ Diff(n) \in Nat /\ 10 * Diff(n) <= Avg(n) /\ Diff(n) <= Avg(n)
<1>1. Total \in Nat
  BY SumNat DEF Total
<1>2. ASSUME NEW n \in Nat \ {0}
      PROVE  /\ Avg(n) \in Nat /\ Total <= n * Avg(n)
             /\ Diff(n) \in Nat /\ 10 * Diff(n) <= Avg(n) /\ Diff(n) <= Avg(n)
  <2>1. PICK a, d : a = Avg(n) /\ d = Diff(n)
    OBVIOUS
  <2>2. a \in Nat /\ Total <= n * a
    BY <1>1, <2>1, AverageIs DEF Avg
  <2>3. d = a \div 10
    BY <2>1 DEF Diff
  <2>4. d \in Nat /\ 10 * d <= a /\ d <= a
    BY <2>2, <2>3, TenthIs
  <2> QED
    BY <2>1, <2>2, <2>4
<1> QED
  BY <1>1, <1>2

\* A turn of the loop cuts x in two, and a box is closed only if what is left
\* of x does not fit it.
LEMMA CutIs ==
  ASSUME NEW x \in Nat \ {0}, capacity \in Nat, nbox \in Nat,
         NEW a \in Nat, NEW d \in Nat, a = Avg(Lcm), d = Diff(Lcm), d <= a, capacity <= a
  PROVE  LET t == Cut(x)
         IN  /\ t.size \in Nat /\ t.x \in Nat /\ t.size + t.x = x
             /\ t.capacity \in Nat /\ t.capacity <= a /\ t.nbox \in Nat
             /\ \/ t.nbox = nbox /\ t.size + t.capacity >= capacity
                \/ t.nbox = nbox + 1 /\ t.capacity = a /\ t.size + d >= capacity /\ x > capacity + d
<1>1. CASE capacity >= x
  <2>1. Cut(x) = [size |-> x, x |-> 0, capacity |-> capacity - x, nbox |-> nbox]
    BY <1>1 DEF Cut
  <2> QED
    BY <1>1, <2>1
<1>2. CASE capacity < x /\ capacity + d >= x
  <2>1. Cut(x) = [size |-> x, x |-> 0, capacity |-> 0, nbox |-> nbox]
    BY <1>2 DEF Cut
  <2> QED
    BY <1>2, <2>1
<1>3. CASE capacity + d < x /\ capacity >= d
  <2>1. Cut(x) = [size |-> capacity, x |-> x - capacity, capacity |-> a, nbox |-> nbox + 1]
    BY <1>3 DEF Cut
  <2> QED
    BY <1>3, <2>1
<1>4. CASE capacity + d < x /\ capacity < d
  <2>1. Cut(x) = [size |-> 0, x |-> x, capacity |-> a, nbox |-> nbox + 1]
    BY <1>4 DEF Cut
  <2> QED
    BY <1>4, <2>1
<1> QED
  BY <1>1, <1>2, <1>3, <1>4

\* A box more than there are would hold more than all parameters.
LEMMA NoBoxMore ==
  ASSUME NEW n \in Nat, NEW l \in Nat \ {0}, NEW a \in Nat, NEW d \in Nat, NEW c \in Nat, NEW x \in Nat,
         NEW t \in Nat, l <= 11, 10 * d <= a, t <= l * a, n <= l,
         t - x >= n * (a - d) + (a - c), x > c + d
  PROVE  n + 1 <= l
<1> SUFFICES ASSUME n = l PROVE FALSE
  OBVIOUS
<1>1. l * (a - d) = l * a - l * d /\ l * d \in Nat /\ l * a \in Nat
  OBVIOUS
<1>2. l * d <= 11 * d
  BY Times
<1> QED
  BY <1>1, <1>2

\* The first of a sequence replaced.
FirstAs(s, x) == <<x>> \o Tail(s)

LEMMA FirstReplaced ==
  ASSUME NEW s \in Seq(Nat), s # << >>, NEW x \in Nat, NEW t, t = FirstAs(s, x)
  PROVE  /\ t \in Seq(Nat) /\ Len(t) = Len(s) /\ t # << >> /\ t[1] = x
         /\ \A k \in 2..Len(s) : t[k] = s[k]
         /\ Sum(t) = x + Sum(Tail(s)) /\ Sum(s) = s[1] + Sum(Tail(s)) /\ Sum(Tail(s)) \in Nat
<1> DEFINE r == Tail(s)
<1>1. r \in Seq(Nat) /\ Len(r) = Len(s) - 1 /\ \A k \in 1..Len(r) : r[k] = s[k + 1]
  BY HeadTailProperties
<1>2. Len(s) \in Nat \ {0} /\ Len(r) \in Nat
  BY <1>1, LenProperties
<1> HIDE DEF r
<1>3. <<x>> \in Seq(Nat) /\ Len(<<x>>) = 1 /\ <<x>>[1] = x
  OBVIOUS
<1>4. t = <<x>> \o r
  BY DEF r, FirstAs
<1>5. /\ t \in Seq(Nat) /\ Len(t) = 1 + Len(r)
      /\ t[1] = x /\ \A k \in 2..Len(t) : t[k] = r[k - 1]
  BY <1>1, <1>3, <1>4, ConcatProperties
<1>6. \A k \in 2..Len(s) : t[k] = s[k]
  <2>1. \A k \in 2..Len(s) : k \in 2..Len(t) /\ k - 1 \in 1..Len(r) /\ (k - 1) + 1 = k
    BY <1>1, <1>2, <1>5
  <2> QED
    BY <1>1, <1>5, <2>1
<1>7. r \in Seq(Int) /\ Sum(r) \in Nat /\ s \in Seq(Int) /\ t \in Seq(Int)
  BY <1>1, <1>5, SumNat
<1>8. \A k \in 1..Len(r) : t[k + 1] = r[k]
  <2>1. \A k \in 1..Len(r) : k + 1 \in 2..Len(t) /\ (k + 1) - 1 = k
    BY <1>2, <1>5
  <2> QED
    BY <1>5, <2>1
<1>9. Sum(t) = t[1] + Sum(r)
  <2>1. Len(t) = Len(r) + 1
    BY <1>2, <1>5
  <2> QED
    BY <1>7, <1>8, <2>1, SumFirst
<1>10. Sum(s) = s[1] + Sum(r)
  <2>1. Len(s) = Len(r) + 1 /\ \A k \in 1..Len(r) : s[k + 1] = r[k]
    BY <1>1, <1>2
  <2> QED
    BY <1>7, <2>1, SumFirst
<1>11. t # << >>
  <2>1. Len(t) # 0
    BY <1>2, <1>5
  <2> QED
    BY <2>1, EmptySeq
<1> QED
  BY <1>1, <1>2, <1>5, <1>6, <1>7, <1>9, <1>10, <1>11 DEF r

\* The last of the slices grows by one.
Grown(s, z) == IF z = 0 THEN s ELSE [s EXCEPT ![Len(s)] = Append(@, z)]

LEMMA LastGrown ==
  ASSUME NEW s \in Seq(Seq(Pos)), s # << >>, NEW z \in Nat, NEW t, t = Grown(s, z)
  PROVE  /\ t \in Seq(Seq(Pos)) /\ Len(t) = Len(s) /\ t # << >> /\ Len(s) \in Nat \ {0}
         /\ \A p \in 1..(Len(s) - 1) : t[p] = s[p]
         /\ Sum(t[Len(s)]) = Sum(s[Len(s)]) + z /\ Sum(s[Len(s)]) \in Nat
<1> DEFINE n == Len(s)
<1>1. n \in Nat \ {0} /\ DOMAIN s = 1..n /\ n \in 1..n
  BY LenProperties, EmptySeq
<1>2. s[n] \in Seq(Pos)
  BY <1>1, ElementOfSeq
<1>3. s[n] \in Seq(Nat) /\ s[n] \in Seq(Int) /\ Sum(s[n]) \in Nat
  <2>1. s[n] \in Seq(Nat)
    BY <1>2 DEF Pos
  <2> QED
    BY <2>1, SumNat
<1>4. CASE z = 0
  BY <1>1, <1>3, <1>4 DEF Grown
<1>5. CASE z # 0
  <2>1. t = [s EXCEPT ![n] = Append(s[n], z)]
    BY <1>1, <1>5 DEF Grown
  <2>2. Append(s[n], z) \in Seq(Pos)
    BY <1>2, <1>5, AppendProperties DEF Pos
  <2>3. /\ t \in Seq(Seq(Pos)) /\ Len(t) = n
        /\ t[n] = Append(s[n], z) /\ \A p \in 1..(n - 1) : t[p] = s[p]
    <3>1. PICK u : u = Append(s[n], z)
      OBVIOUS
    <3>2. t = [s EXCEPT ![n] = u] /\ u \in Seq(Pos)
      BY <2>1, <2>2, <3>1
    <3>3. /\ t \in Seq(Seq(Pos)) /\ Len(t) = n
          /\ \A j \in 1..n : t[j] = IF j = n THEN u ELSE s[j]
      BY <1>1, <3>2, ExceptSeq
    <3>4. \A p \in 1..(n - 1) : p \in 1..n /\ p # n
      <4>1. n \in Nat
        BY <1>1
      <4> HIDE DEF n
      <4> QED
        BY <4>1
    <3> QED
      BY <1>1, <3>1, <3>3, <3>4
  <2>5. Sum(t[n]) = Sum(s[n]) + z
    <3>1. PICK v : v = s[n]
      OBVIOUS
    <3>2. v \in Seq(Int) /\ z \in Int /\ t[n] = Append(v, z)
      BY <1>3, <2>3, <3>1
    <3>3. Sum(Append(v, z)) = Sum(v) + z
      BY <3>2, SumAppend
    <3> QED
      BY <3>1, <3>2, <3>3
  <2>6. t # << >>
    BY <1>1, <2>3, EmptySeq
  <2> QED
    BY <1>1, <1>3, <2>3, <2>5, <2>6
<1> QED
  BY <1>4, <1>5

\* conf and sizes, and all that is computed from them, stay.
LEMMA SameSizes ==
  ASSUME conf' = conf, sizes' = sizes
  PROVE  /\ Lcm' = Lcm /\ Total' = Total
         /\ \A n : (Avg(n))' = Avg(n) /\ (Diff(n))' = Diff(n)
         /\ (Avg(Lcm))' = Avg(Lcm) /\ (Diff(Lcm))' = Diff(Lcm)
BY DEF Lcm, Total, Avg, Diff

LEMMA SliceTurn ==
  ASSUME SliceInv, Slice
  PROVE  SliceInv'
<1>0. /\ conf \in Config /\ sizes \in Seq(Nat) /\ rest \in Seq(Nat) /\ slices \in Seq(Seq(Pos))
      /\ capacity \in Nat /\ nbox \in Nat /\ InSlice /\ InBoxes /\ phase = "slice"
      /\ rest # << >> /\ Head(rest) > 0
      /\ conf' = conf /\ sizes' = sizes /\ phase' = phase
  BY DEF SliceInv, Slice
<1>1. PICK x, a, d, l : x = Head(rest) /\ a = Avg(Lcm) /\ d = Diff(Lcm) /\ l = Lcm
  OBVIOUS
<1>2. l \in Nat \ {0} /\ a \in Nat /\ d \in Nat /\ 10 * d <= a /\ d <= a /\ Total \in Nat /\ Total <= l * a
  BY <1>0, <1>1, BoxesAre, SizesOf
<1>3. Len(rest) \in Nat \ {0} /\ x = rest[1] /\ x \in Nat \ {0}
  <2>1. Len(rest) \in Nat \ {0} /\ x = rest[1] /\ x \in Nat
    BY <1>0, <1>1, HeadTailProperties, LenProperties, EmptySeq
  <2> QED
    BY <1>0, <1>1, <2>1
<1>4. /\ sizes # << >> /\ slices # << >> /\ Len(slices) + Len(rest) = Len(sizes) + 1
      /\ (\A p \in 1..(Len(slices) - 1) : Sliced(p))
      /\ Sum(slices[Len(slices)]) + rest[1] = sizes[Len(slices)]
      /\ \A k \in 2..Len(rest) : rest[k] = sizes[Len(slices) + k - 1]
  BY <1>0 DEF InSlice
<1>5. /\ capacity <= a /\ Total - Sum(rest) >= nbox * (a - d) + (a - capacity)
      /\ l <= 11 => nbox <= l
  BY <1>0, <1>1 DEF InBoxes, Filled
<1>6. PICK t : t = Cut(x)
  OBVIOUS
<1>7. /\ t.size \in Nat /\ t.x \in Nat /\ t.size + t.x = x
      /\ t.capacity \in Nat /\ t.capacity <= a /\ t.nbox \in Nat
      /\ \/ t.nbox = nbox /\ t.size + t.capacity >= capacity
         \/ t.nbox = nbox + 1 /\ t.capacity = a /\ t.size + d >= capacity /\ x > capacity + d
  BY <1>0, <1>1, <1>2, <1>3, <1>5, <1>6, CutIs
<1>8. /\ rest' = <<t.x>> \o Tail(rest) /\ capacity' = t.capacity /\ nbox' = t.nbox
      /\ slices' = Grown(slices, t.size)
  BY <1>1, <1>6 DEF Slice, Grown
<1>9. PICK y, z, c, n : y = t.x /\ z = t.size /\ c = t.capacity /\ n = t.nbox
  OBVIOUS
<1>10. /\ rest' \in Seq(Nat) /\ Len(rest') = Len(rest) /\ rest' # << >> /\ rest'[1] = y
       /\ \A k \in 2..Len(rest) : rest'[k] = rest[k]
       /\ Sum(rest') = y + Sum(Tail(rest)) /\ Sum(rest) = x + Sum(Tail(rest)) /\ Sum(Tail(rest)) \in Nat
  <2>1. PICK r, u : r = rest /\ u = rest'
    OBVIOUS
  <2>2. r \in Seq(Nat) /\ r # << >> /\ y \in Nat /\ u = FirstAs(r, y)
    BY <1>0, <1>7, <1>8, <1>9, <2>1 DEF FirstAs
  <2>3. /\ u \in Seq(Nat) /\ Len(u) = Len(r) /\ u # << >> /\ u[1] = y
        /\ \A k \in 2..Len(r) : u[k] = r[k]
        /\ Sum(u) = y + Sum(Tail(r)) /\ Sum(r) = r[1] + Sum(Tail(r)) /\ Sum(Tail(r)) \in Nat
    BY <2>2, FirstReplaced
  <2> QED
    BY <1>3, <2>1, <2>3
<1>11. /\ slices' \in Seq(Seq(Pos)) /\ Len(slices') = Len(slices) /\ slices' # << >> /\ Len(slices) \in Nat \ {0}
       /\ \A p \in 1..(Len(slices) - 1) : slices'[p] = slices[p]
       /\ Sum(slices'[Len(slices)]) = Sum(slices[Len(slices)]) + z /\ Sum(slices[Len(slices)]) \in Nat
  <2>1. PICK r, u : r = slices /\ u = slices'
    OBVIOUS
  <2>2. r \in Seq(Seq(Pos)) /\ r # << >> /\ z \in Nat /\ u = Grown(r, z)
    BY <1>0, <1>4, <1>7, <1>8, <1>9, <2>1
  <2>3. /\ u \in Seq(Seq(Pos)) /\ Len(u) = Len(r) /\ u # << >> /\ Len(r) \in Nat \ {0}
        /\ \A p \in 1..(Len(r) - 1) : u[p] = r[p]
        /\ Sum(u[Len(r)]) = Sum(r[Len(r)]) + z /\ Sum(r[Len(r)]) \in Nat
    BY <2>2, LastGrown
  <2> QED
    BY <2>1, <2>3
<1>12. InSlice'
  <2>1. Sum(slices'[Len(slices)]) + rest'[1] = sizes[Len(slices)]
    <3>1. PICK p, q, w : p = Sum(slices'[Len(slices)]) /\ q = Sum(slices[Len(slices)]) /\ w = sizes[Len(slices)]
      OBVIOUS
    <3>2. p = q + z /\ q \in Nat /\ q + x = w /\ z \in Nat /\ y \in Nat /\ z + y = x /\ rest'[1] = y
      BY <1>3, <1>4, <1>7, <1>9, <1>10, <1>11, <3>1
    <3>3. p + y = w
      BY <3>2
    <3> QED
      BY <3>1, <3>2, <3>3
  <2>2. \A p \in 1..(Len(slices) - 1) : Sliced(p)'
    BY <1>0, <1>4, <1>11 DEF Sliced
  <2> QED
    BY <1>0, <1>4, <1>10, <1>11, <2>1, <2>2 DEF InSlice
<1>13. c <= a /\ Total - Sum(rest') >= n * (a - d) + (a - c)
  <2>1. PICK s : s = Sum(Tail(rest))
    OBVIOUS
  <2>2. s \in Nat /\ Sum(rest) = x + s /\ Sum(rest') = y + s
    BY <1>10, <2>1
  <2>3. (nbox + 1) * (a - d) = nbox * (a - d) + (a - d) /\ nbox * (a - d) \in Nat
    BY <1>0, <1>2, Times
  <2>4. PICK m, k, g, h : m = nbox * (a - d) /\ k = nbox /\ g = capacity /\ h = n * (a - d)
    OBVIOUS
  <2>5. Total - (x + s) >= m + (a - g) /\ m \in Nat /\ k \in Nat /\ g \in Nat
    BY <1>0, <1>5, <2>2, <2>3, <2>4
  <2>6. CASE n = k /\ z + c >= g
    <3>1. h = m
      BY <2>4, <2>6
    <3>2. Total - (y + s) >= m + (a - c)
      BY <1>2, <1>7, <1>9, <2>2, <2>5, <2>6
    <3> QED
      BY <1>7, <1>9, <2>2, <2>4, <3>1, <3>2
  <2>7. CASE n = k + 1 /\ c = a /\ z + d >= g
    <3>1. h = m + (a - d)
      BY <2>3, <2>4, <2>7
    <3>2. Total - (y + s) >= m + (a - d) + (a - c)
      BY <1>2, <1>7, <1>9, <2>2, <2>5, <2>7
    <3> QED
      BY <1>7, <1>9, <2>2, <2>4, <3>1, <3>2
  <2> QED
    BY <1>7, <1>9, <2>4, <2>6, <2>7
<1>14. l <= 11 => n <= l
  <2> SUFFICES ASSUME l <= 11 PROVE n <= l
    OBVIOUS
  <2>1. CASE n = nbox
    BY <1>5, <2>1
  <2>2. CASE n = nbox + 1 /\ x > capacity + d
    <3>1. Sum(rest) \in Nat /\ x <= Sum(rest)
      BY <1>3, <1>10
    <3>2. Total - x >= nbox * (a - d) + (a - capacity)
      <4>1. nbox * (a - d) \in Nat
        BY <1>0, <1>2, Times
      <4> QED
        BY <1>0, <1>2, <1>3, <1>5, <3>1, <4>1
    <3>3. nbox <= l
      BY <1>5
    <3>4. nbox + 1 <= l
      BY <1>0, <1>2, <1>3, <2>2, <3>2, <3>3, NoBoxMore
    <3> QED
      BY <2>2, <3>4
  <2> QED
    BY <1>7, <1>9, <2>1, <2>2
<1>15. InBoxes'
  BY <1>0, <1>1, <1>8, <1>9, <1>13, <1>14, SameSizes DEF InBoxes, Filled
<1> QED
  BY <1>0, <1>7, <1>8, <1>10, <1>11, <1>12, <1>15 DEF SliceInv

\* One more sequence of slices, an empty one.
LEMMA OneMore ==
  ASSUME NEW s \in Seq(Seq(Pos)), NEW t, t = Append(s, << >>)
  PROVE  /\ t \in Seq(Seq(Pos)) /\ Len(t) = Len(s) + 1 /\ t # << >> /\ Len(s) \in Nat
         /\ \A p \in 1..Len(s) : t[p] = s[p]
         /\ Sum(t[Len(s) + 1]) = 0
<1>1. << >> \in Seq(Pos)
  BY EmptySeq
<1>2. /\ t \in Seq(Seq(Pos)) /\ Len(t) = Len(s) + 1 /\ (\A p \in 1..Len(s) : t[p] = s[p])
      /\ t[Len(s) + 1] = << >> /\ Len(s) \in Nat
  BY <1>1, AppendProperties, LenProperties
<1>3. t # << >>
  BY <1>2, EmptySeq
<1> QED
  BY <1>2, <1>3, SumEmpty

LEMMA NextParamTurn ==
  ASSUME SliceInv, NextParam
  PROVE  SliceInv'
<1>0. /\ conf \in Config /\ sizes \in Seq(Nat) /\ rest \in Seq(Nat) /\ slices \in Seq(Seq(Pos))
      /\ capacity \in Nat /\ nbox \in Nat /\ InSlice /\ InBoxes /\ phase = "slice"
      /\ rest # << >> => Head(rest) = 0
      /\ conf' = conf /\ sizes' = sizes /\ capacity' = capacity /\ nbox' = nbox
      /\ Len(rest) \in Nat /\ Len(slices) \in Nat
  BY LenProperties DEF SliceInv, NextParam
<1>1. CASE Len(rest) > 1
  <2>1. rest' = Tail(rest) /\ slices' = Append(slices, << >>) /\ phase' = "slice" /\ rest # << >>
    BY <1>0, <1>1, EmptySeq DEF NextParam
  <2>2. PICK r, u, s, t : r = rest /\ u = rest' /\ s = slices /\ t = slices'
    OBVIOUS
  <2>3. r \in Seq(Nat) /\ r # << >> /\ u = Tail(r) /\ Head(r) = 0 /\ s \in Seq(Seq(Pos)) /\ t = Append(s, << >>)
    BY <1>0, <2>1, <2>2
  <2>4. u \in Seq(Nat) /\ Len(u) = Len(r) - 1 /\ r[1] = 0 /\ \A k \in 1..Len(u) : u[k] = r[k + 1]
    BY <2>3, HeadTailProperties
  <2>5. Len(r) \in Nat /\ Len(r) > 1 /\ u # << >> /\ Len(u) \in Nat \ {0}
    <3>1. Len(r) \in Nat /\ Len(r) > 1
      BY <1>0, <1>1, <2>2
    <3>2. Len(u) \in Nat /\ Len(u) # 0
      BY <2>4, <3>1
    <3> QED
      BY <3>1, <3>2, EmptySeq
  <2>6. Sum(r) = Sum(u)
    <3>1. PICK v : v = FirstAs(r, 0)
      OBVIOUS
    <3>2. Sum(r) = r[1] + Sum(u) /\ Sum(u) \in Nat
      BY <2>3, <3>1, FirstReplaced
    <3> QED
      BY <2>4, <3>2
  <2>7. /\ t \in Seq(Seq(Pos)) /\ Len(t) = Len(s) + 1 /\ t # << >> /\ Len(s) \in Nat
        /\ \A p \in 1..Len(s) : t[p] = s[p]
        /\ Sum(t[Len(s) + 1]) = 0
    BY <2>3, OneMore
  <2>8. /\ sizes # << >> /\ s # << >> /\ Len(s) + Len(r) = Len(sizes) + 1
        /\ (\A p \in 1..(Len(s) - 1) : Sum(s[p]) = sizes[p])
        /\ Sum(s[Len(s)]) + r[1] = sizes[Len(s)]
        /\ \A k \in 2..Len(r) : r[k] = sizes[Len(s) + k - 1]
    BY <1>0, <2>1, <2>2 DEF InSlice, Sliced
  <2>9. ASSUME NEW p \in 1..Len(s) PROVE Sum(t[p]) = sizes[p]
    <3>1. CASE p # Len(s)
      <4>1. p \in 1..(Len(s) - 1)
        BY <2>7, <3>1
      <4> QED
        BY <2>7, <2>8, <4>1
    <3>2. CASE p = Len(s)
      <4>1. s[p] \in Seq(Pos)
        BY <2>3, ElementOfSeq
      <4>2. s[p] \in Seq(Nat)
        BY <4>1 DEF Pos
      <4>3. Sum(s[p]) \in Nat
        BY <4>2, SumNat
      <4> QED
        BY <2>4, <2>7, <2>8, <3>2, <4>3
    <3> QED
      BY <3>1, <3>2
  <2>10. u[1] = sizes[Len(t)] /\ u[1] \in Nat
    <3>1. 1 \in 1..Len(u) /\ 2 \in 2..Len(r) /\ 1 + 1 = 2 /\ Len(s) + 2 - 1 = Len(t)
      BY <2>4, <2>5, <2>7
    <3> QED
      BY <2>4, <2>8, <3>1, ElementOfSeq
  <2>11. ASSUME NEW k \in 2..Len(u) PROVE u[k] = sizes[Len(t) + k - 1]
    <3>1. k \in 1..Len(u) /\ k + 1 \in 2..Len(r) /\ Len(s) + (k + 1) - 1 = Len(t) + k - 1
      BY <2>4, <2>5, <2>7
    <3> QED
      BY <2>4, <2>8, <3>1
  <2>12. Len(t) + Len(u) = Len(sizes) + 1
    <3>1. Len(sizes) \in Nat
      BY <1>0, LenProperties
    <3> QED
      <4>1. PICK a, b, c, d, e : a = Len(t) /\ b = Len(u) /\ c = Len(s) /\ d = Len(r) /\ e = Len(sizes)
        OBVIOUS
      <4>2. a = c + 1 /\ b = d - 1 /\ c + d = e + 1 /\ c \in Nat /\ d \in Nat /\ e \in Nat
        BY <2>4, <2>5, <2>7, <2>8, <3>1, <4>1
      <4>3. a + b = e + 1
        BY <4>2
      <4> QED
        BY <4>1, <4>3
  <2>13. InSlice'
    <3>1. Len(t) - 1 = Len(s)
      BY <2>7
    <3>2. \A p \in 1..(Len(t) - 1) : Sliced(p)'
      BY <1>0, <2>2, <2>9, <3>1 DEF Sliced
    <3>3. Sum(t[Len(t)]) + u[1] = sizes[Len(t)]
      BY <2>7, <2>10
    <3> QED
      BY <1>0, <2>2, <2>5, <2>7, <2>8, <2>11, <2>12, <3>2, <3>3 DEF InSlice
  <2>14. InBoxes'
    BY <1>0, <2>2, <2>6, SameSizes DEF InBoxes, Filled
  <2> QED
    BY <1>0, <2>1, <2>2, <2>4, <2>7, <2>13, <2>14 DEF SliceInv
<1>2. CASE Len(rest) <= 1
  <2>1. rest' = << >> /\ slices' = slices /\ phase' = IF nbox <= Lcm THEN "group" ELSE "fatal"
    BY <1>0, <1>2 DEF NextParam
  <2>2. Len(slices) = Len(sizes) /\ \A p \in 1..Len(sizes) : Sliced(p)
    <3>1. CASE sizes = << >>
      BY <1>0, <3>1 DEF InSlice
    <3>2. CASE sizes # << >>
      <4>1. /\ rest # << >> /\ slices # << >> /\ Len(slices) + Len(rest) = Len(sizes) + 1
            /\ (\A p \in 1..(Len(slices) - 1) : Sliced(p))
            /\ Sum(slices[Len(slices)]) + rest[1] = sizes[Len(slices)]
        BY <1>0, <3>2 DEF InSlice
      <4>2. Len(sizes) \in Nat \ {0} /\ Len(rest) = 1 /\ rest[1] = 0
        <5>1. Len(sizes) \in Nat /\ Len(sizes) # 0 /\ Len(rest) # 0
          BY <1>0, <3>2, <4>1, EmptySeq, LenProperties
        <5>2. Len(rest) = 1
          <6>1. PICK n : n = Len(rest)
            OBVIOUS
          <6>2. n \in Nat /\ n # 0 /\ n <= 1
            BY <1>0, <1>2, <5>1, <6>1
          <6> QED
            BY <6>1, <6>2
        <5>3. rest[1] = Head(rest)
          BY <1>0, <4>1, HeadTailProperties
        <5> QED
          BY <1>0, <4>1, <5>1, <5>2, <5>3
      <4>3. Len(slices) = Len(sizes) /\ Len(slices) \in 1..Len(slices)
        BY <1>0, <4>1, <4>2
      <4>4. Sliced(Len(slices))
        <5>1. slices[Len(slices)] \in Seq(Pos)
          BY <1>0, <4>3, ElementOfSeq
        <5>2. slices[Len(slices)] \in Seq(Nat)
          BY <5>1 DEF Pos
        <5>3. Sum(slices[Len(slices)]) \in Nat
          BY <5>2, SumNat
        <5> QED
          BY <4>1, <4>2, <5>3 DEF Sliced
      <4>5. ASSUME NEW p \in 1..Len(sizes) PROVE Sliced(p)
        <5>1. p = Len(slices) \/ p \in 1..(Len(slices) - 1)
          BY <4>2, <4>3
        <5> QED
          BY <4>1, <4>4, <5>1
      <4> QED
        BY <4>3, <4>5
    <3> QED
      BY <3>1, <3>2
  <2>3. \A p \in 1..Len(sizes) : Sliced(p)'
    BY <1>0, <2>1, <2>2 DEF Sliced
  <2>4. phase' = "fatal" => Lcm > 11
    BY <1>0, <2>1, BoxesAre DEF InBoxes
  <2>5. rest' \in Seq(Nat)
    BY <2>1, EmptySeq
  <2>6. Lcm' = Lcm
    BY <1>0, SameSizes
  <2> QED
    BY <1>0, <2>1, <2>2, <2>3, <2>4, <2>5, <2>6 DEF SliceInv
<1> QED
  BY <1>0, <1>1, <1>2

LEMMA ParamSizesType ==
  ASSUME NetType
  PROVE  ParamSizes \in Seq(Nat)
<1> DEFINE b == [k \in DOMAIN order |-> LET n == order[k] IN
                   n.kind = "layer" /\ net[n.l].size > 0 /\ (net[n.l].pdim = 0 => n.i = 0)]
<1>1. order \in Seq(NodeSet) /\ DOMAIN order = 1..Len(order) /\ NetGiven
  BY LenProperties DEF NetType
<1>2. b \in [1..Len(order) -> BOOLEAN]
  BY <1>1
<1>3. Owners = Keep(order, b)
  BY DEF Owners
<1> HIDE DEF b
<1>4. PICK o : o = Owners
  OBVIOUS
<1>5. o \in Seq(NodeSet)
  BY <1>1, <1>2, <1>3, <1>4, KeepIs
<1>6. Len(o) \in Nat /\ DOMAIN o = 1..Len(o)
  BY <1>5, LenProperties
<1>7. ASSUME NEW k \in 1..Len(o)
      PROVE  (LET n == net[o[k].l] IN IF n.pdim = 1 THEN n.size \div np ELSE n.size) \in Nat
  <2>1. o[k] \in NodeSet
    BY <1>5, ElementOfSeq
  <2>2. o[k].l \in DOMAIN net
    BY <2>1 DEF NodeSet
  <2>3. net[o[k].l].size \in Nat
    BY <1>1, <2>2, LayerIs
  <2>4. PICK z, m : z = net[o[k].l].size /\ m = np
    OBVIOUS
  <2>5. z \in Nat /\ m \in Nat \ {0}
    BY <1>1, <2>3, <2>4 DEF NetGiven
  <2>6. z \div m \in Nat
    BY <2>5, Multiple
  <2> QED
    BY <2>3, <2>4, <2>6
<1> DEFINE e == [k \in 1..Len(o) |-> LET n == net[o[k].l] IN IF n.pdim = 1 THEN n.size \div np ELSE n.size]
<1>8. e \in [1..Len(o) -> Nat]
  BY <1>7
<1>9. ParamSizes = e
  BY <1>4, <1>6 DEF ParamSizes
<1> HIDE DEF e
<1> QED
  BY <1>6, <1>8, <1>9, IsASeq

LEMMA SliceBegins ==
  ASSUME SliceInv, NEW s \in Seq(Nat), SliceParams(s)
  PROVE  SliceInv'
<1>0. /\ conf \in Config /\ conf' = conf /\ nbox = 0 /\ nbox' = 0 /\ phase' = "slice"
      /\ sizes' = s /\ rest' = s /\ slices' = IF s = << >> THEN << >> ELSE << << >> >>
      /\ capacity' = Average(Sum(s), Lcm) /\ Len(s) \in Nat
  BY LenProperties DEF SliceInv, SliceParams
<1>1. Lcm \in Nat \ {0} /\ Lcm' = Lcm
  BY <1>0, BoxesAre DEF Lcm
<1>2. PICK a, t : a = Average(Sum(s), Lcm) /\ t = Sum(s)
  OBVIOUS
<1>3. t \in Nat /\ a \in Nat
  BY <1>1, <1>2, SumNat, AverageIs
<1>4. slices' \in Seq(Seq(Pos))
  <2>1. << >> \in Seq(Seq(Pos)) /\ << << >> >> \in Seq(Seq(Pos))
    BY EmptySeq
  <2> QED
    BY <1>0, <2>1
<1>5. InSlice'
  <2>1. CASE s = << >>
    BY <1>0, <2>1 DEF InSlice
  <2>2. CASE s # << >>
    <3>1. PICK u : u = slices'
      OBVIOUS
    <3>2. u = << << >> >> /\ u # << >> /\ Len(u) = 1 /\ u[1] = << >>
      BY <1>0, <2>2, <3>1
    <3>3. Sum(u[Len(u)]) + s[1] = s[Len(u)]
      <4>1. s[1] \in Nat
        BY <2>2, ElementOfSeq, LenProperties, EmptySeq
      <4> QED
        BY <3>2, <4>1, SumEmpty
    <3>4. 1..(Len(u) - 1) = {} /\ Len(u) + Len(s) = Len(s) + 1 /\ \A k \in 2..Len(s) : Len(u) + k - 1 = k
      BY <1>0, <3>2
    <3> QED
      BY <1>0, <2>2, <3>1, <3>2, <3>3, <3>4 DEF InSlice
  <2> QED
    BY <2>1, <2>2
<1>6. InBoxes'
  <2>1. Total' = t /\ Avg(Lcm)' = a /\ Diff(Lcm)' = a \div 10 /\ Sum(rest)' = t /\ capacity' = a
    BY <1>0, <1>1, <1>2 DEF Total, Avg, Diff
  <2>2. PICK d : d = a \div 10
    OBVIOUS
  <2>3. d \in Nat /\ d <= a
    BY <1>3, <2>2, TenthIs
  <2>4. a <= a /\ t - t >= 0 * (a - d) + (a - a)
    BY <1>3, <2>3
  <2>5. Filled(a, d)'
    BY <1>0, <2>1, <2>4 DEF Filled
  <2> QED
    BY <1>0, <1>1, <2>1, <2>2, <2>5 DEF InBoxes
<1> QED
  BY <1>0, <1>2, <1>3, <1>4, <1>5, <1>6 DEF SliceInv

LEMMA SliceInit0 == Init => SliceInv
<1> SUFFICES ASSUME Init PROVE SliceInv
  OBVIOUS
<1>1. PICK in \in Inputs : NetInit(in.net, in.conf.nw) /\ SliceInit(in.conf)
  BY DEF Init
<1>2. in.conf \in Config
  BY InputsAssumption
<1> QED
  BY <1>1, <1>2, EmptySeq DEF SliceInit, SliceInv

LEMMA SliceStepInv == BuildInv /\ SliceInv /\ [Next]_vars => SliceInv'
<1> SUFFICES ASSUME BuildInv, SliceInv, [Next]_vars PROVE SliceInv'
  OBVIOUS
<1>1. CASE Slice
  BY <1>1, SliceTurn
<1>2. CASE NextParam
  BY <1>2, NextParamTurn
<1>3. CASE StartSlicing
  <2>1. PICK s : s = ParamSizes
    OBVIOUS
  <2>2. s \in Seq(Nat)
    BY <2>1, ParamSizesType DEF BuildInv
  <2> QED
    BY <1>3, <2>1, <2>2, SliceBegins DEF StartSlicing
<1>4. CASE /\ UNCHANGED <<conf, sizes, rest, slices, capacity, nbox>>
           /\ \/ phase' = phase
              \/ phase \in {"group", "server"} /\ phase' \in {"server", "done"}
  <2>1. /\ conf' = conf /\ sizes' = sizes /\ rest' = rest /\ slices' = slices /\ capacity' = capacity
        /\ nbox' = nbox
    BY <1>4
  <2>2. Lcm' = Lcm /\ Total' = Total /\ (Avg(Lcm))' = Avg(Lcm) /\ (Diff(Lcm))' = Diff(Lcm)
    BY <2>1, SameSizes
  <2>3. \A p : Sliced(p)' <=> Sliced(p)
    BY <2>1 DEF Sliced
  <2>4. (InSlice => InSlice') /\ (InBoxes => InBoxes')
    BY <2>1, <2>2, <2>3 DEF InSlice, InBoxes, Filled
  <2> QED
    BY <1>4, <2>1, <2>2, <2>3, <2>4 DEF SliceInv
<1>5. CASE AssignSlice
  BY <1>4, <1>5 DEF AssignSlice
<1>6. CASE EndPartition
  BY <1>4, <1>6 DEF EndPartition
<1>7. CASE UNCHANGED sliceVars
  BY <1>4, <1>7 DEF sliceVars
<1> QED
  BY <1>1, <1>2, <1>3, <1>5, <1>6, <1>7 DEF Next, BuildNet, SliceAndPartition, SliceStep, vars

\* The slices of a parameter that Param::Slice cuts off add up to it, and none
\* is empty, for every number of boxes and every sizes.
THEOREM SetupSlicesCover == Spec => []SlicesCover
<1>1. SliceInv => SlicesCover
  <2> SUFFICES ASSUME SliceInv, phase \notin {"net", "slice", "fatal"}, NEW p \in DOMAIN sizes
               PROVE  Sum(slices[p]) = sizes[p] /\ \A k \in DOMAIN slices[p] : slices[p][k] > 0
    BY DEF SlicesCover
  <2>1. Len(slices) = Len(sizes) /\ (\A q \in 1..Len(sizes) : Sliced(q)) /\ slices \in Seq(Seq(Pos))
    BY DEF SliceInv
  <2>2. p \in 1..Len(sizes)
    BY LenProperties DEF SliceInv
  <2>3. slices[p] \in Seq(Pos)
    BY <2>1, <2>2, ElementOfSeq
  <2>4. PICK s : s = slices[p]
    OBVIOUS
  <2>5. DOMAIN s = 1..Len(s) /\ \A k \in 1..Len(s) : s[k] \in Pos
    BY <2>3, <2>4, LenProperties, ElementOfSeq
  <2>6. \A k \in DOMAIN s : s[k] > 0
    BY <2>5 DEF Pos
  <2> QED
    BY <2>1, <2>2, <2>4, <2>6 DEF Sliced
<1>2. Spec => Init /\ [][Next]_vars
  BY PTL DEF Spec
<1> QED
  BY <1>1, <1>2, BuildInit, BuildStep, SliceInit0, SliceStepInv, PTL

\* For up to eleven boxes the assertion at the end of Slice holds whatever the
\* sizes of the parameters: each box is closed with less than a tenth of it
\* free and the assertion allows one box more than the parameters fill, so the
\* room lost in eleven boxes does not add up to another box.
THEOREM SetupNoFatal == Spec => []NoFatal
<1>1. SliceInv => NoFatal
  BY BoxesAre DEF SliceInv, NoFatal
<1>2. Spec => Init /\ [][Next]_vars
  BY PTL DEF Spec
<1> QED
  BY <1>1, <1>2, BuildInit, BuildStep, SliceInit0, SliceStepInv, PTL
-----------------------------------------------------------------------------
(***************************************************************************)
(* Boxes                                                                   *)
(***************************************************************************)
\* What box b holds of the slices f larger than d that s has assigned.
Counted(f, s, d, b) == [k \in DOMAIN s |-> IF s[k] = b /\ f[k] > d THEN f[k] ELSE 0]
LoadOf(f, s, d, b) == Sum(Counted(f, s, d, b))

Assigns(f, s) == f \in Seq(Pos) /\ s \in Seq(Nat) /\ Len(s) <= Len(f)

LEMMA CountedIs ==
  ASSUME NEW f, NEW s, Assigns(f, s), NEW d \in Nat, NEW b \in Nat
  PROVE  LET c == Counted(f, s, d, b)
         IN  /\ c \in Seq(Nat) /\ c \in Seq(Int) /\ Len(c) = Len(s) /\ Sum(c) \in Nat
             /\ \A k \in 1..Len(s) : c[k] = IF s[k] = b /\ f[k] > d THEN f[k] ELSE 0
<1> DEFINE c == Counted(f, s, d, b)
<1>0. f \in Seq(Pos) /\ s \in Seq(Nat) /\ Len(s) <= Len(f)
  BY DEF Assigns
<1>1. Len(s) \in Nat /\ DOMAIN s = 1..Len(s) /\ Len(f) \in Nat
  BY <1>0, LenProperties
<1>2. \A k \in 1..Len(s) : f[k] \in Nat
  <2>1. ASSUME NEW k \in 1..Len(s) PROVE f[k] \in Nat
    <3>1. k \in 1..Len(f)
      BY <1>0, <1>1
    <3>2. f[k] \in Pos
      BY <1>0, <3>1, ElementOfSeq
    <3> QED
      BY <3>2 DEF Pos
  <2> QED
    BY <2>1
<1>3. c = [k \in 1..Len(s) |-> IF s[k] = b /\ f[k] > d THEN f[k] ELSE 0]
  BY <1>1 DEF Counted
<1> HIDE DEF c
<1>4. c \in [1..Len(s) -> Nat]
  BY <1>2, <1>3
<1>5. c \in Seq(Nat) /\ Len(c) = Len(s)
  <2>1. c \in Seq(Nat)
    BY <1>1, <1>4, IsASeq
  <2>2. PICK m, n : m = Len(c) /\ n = Len(s)
    OBVIOUS
  <2>3. m \in Nat /\ n \in Nat /\ 1..m = 1..n
    BY <1>1, <1>4, <2>1, <2>2, LenProperties
  <2>4. m = n
    BY <2>3
  <2> QED
    BY <2>1, <2>2, <2>4
<1>6. c \in Seq(Int) /\ Sum(c) \in Nat
  BY <1>5, SumNat
<1> QED
  BY <1>3, <1>5, <1>6 DEF c

LEMMA LoadNone ==
  ASSUME NEW f \in Seq(Pos), NEW d \in Nat, NEW b \in Nat
  PROVE  Assigns(f, << >>) /\ LoadOf(f, << >>, d, b) = 0
<1>1. Assigns(f, << >>)
  BY EmptySeq, LenProperties DEF Assigns
<1>2. PICK c : c = Counted(f, << >>, d, b)
  OBVIOUS
<1>3. c \in Seq(Int) /\ Len(c) = 0
  BY <1>1, <1>2, CountedIs, EmptySeq
<1>4. c = << >>
  BY <1>3, EmptySeq
<1> QED
  BY <1>1, <1>2, <1>4, SumEmpty DEF LoadOf

\* s goes on with i.
Longer(s, t, i) == /\ t \in Seq(Nat) /\ Len(t) = Len(s) + 1
                   /\ (\A k \in 1..Len(s) : t[k] = s[k]) /\ t[Len(s) + 1] = i

\* x is the next slice.
NextIs(f, s, x) == Len(s) < Len(f) /\ x = f[Len(s) + 1]

Adds(f, s, d, i, t, x) ==
  /\ Assigns(f, t) /\ x \in Nat /\ x > 0
  /\ \A b \in Nat : /\ LoadOf(f, s, d, b) \in Nat /\ LoadOf(f, t, d, b) \in Nat
                    /\ LoadOf(f, t, d, b) = LoadOf(f, s, d, b) + IF i = b /\ x > d THEN x ELSE 0

LEMMA LongerIs ==
  ASSUME NEW s \in Seq(Nat), NEW i \in Nat
  PROVE  Longer(s, Append(s, i), i)
BY AppendProperties DEF Longer

LEMMA LoadMore ==
  ASSUME NEW f, NEW s, Assigns(f, s), NEW d \in Nat, NEW i \in Nat, NEW t, Longer(s, t, i),
         NEW x, NextIs(f, s, x)
  PROVE  Adds(f, s, d, i, t, x)
<1>0. /\ f \in Seq(Pos) /\ s \in Seq(Nat) /\ Len(s) < Len(f) /\ Len(s) \in Nat /\ Len(f) \in Nat
      /\ x = f[Len(s) + 1]
  BY LenProperties DEF Assigns, NextIs
<1>1. t \in Seq(Nat) /\ Len(t) = Len(s) + 1 /\ (\A k \in 1..Len(s) : t[k] = s[k]) /\ t[Len(s) + 1] = i
  BY DEF Longer
<1>2. Assigns(f, t)
  BY <1>0, <1>1 DEF Assigns
<1>3. x \in Nat /\ x > 0
  <2>1. Len(s) + 1 \in 1..Len(f)
    BY <1>0
  <2>2. x \in Pos
    BY <1>0, <2>1, ElementOfSeq
  <2> QED
    BY <2>2 DEF Pos
<1>4. ASSUME NEW b \in Nat
      PROVE  /\ LoadOf(f, s, d, b) \in Nat /\ LoadOf(f, t, d, b) \in Nat
             /\ LoadOf(f, t, d, b) = LoadOf(f, s, d, b) + IF i = b /\ x > d THEN x ELSE 0
  <2>1. PICK c, e : c = Counted(f, s, d, b) /\ e = Counted(f, t, d, b)
    OBVIOUS
  <2>2. /\ c \in Seq(Int) /\ Len(c) = Len(s) /\ Sum(c) \in Nat
        /\ \A k \in 1..Len(s) : c[k] = IF s[k] = b /\ f[k] > d THEN f[k] ELSE 0
    BY <2>1, CountedIs
  <2>3. /\ e \in Seq(Int) /\ Len(e) = Len(t) /\ Sum(e) \in Nat
        /\ \A k \in 1..Len(t) : e[k] = IF t[k] = b /\ f[k] > d THEN f[k] ELSE 0
    BY <1>2, <2>1, CountedIs
  <2>4. \A k \in 1..Len(s) : k \in 1..Len(t)
    BY <1>0, <1>1
  <2>5. \A k \in 1..Len(c) : e[k] = c[k]
    BY <1>1, <2>2, <2>3, <2>4
  <2>6. Len(t) \in 1..Len(t) /\ Len(e) = Len(c) + 1
    BY <1>0, <1>1, <2>2, <2>3
  <2>7. e[Len(e)] = IF i = b /\ x > d THEN x ELSE 0
    BY <1>0, <1>1, <2>3, <2>6
  <2>8. Sum(e) = Sum(c) + e[Len(e)]
    BY <2>2, <2>3, <2>5, <2>6, SumLonger
  <2> QED
    BY <2>1, <2>2, <2>3, <2>7, <2>8 DEF LoadOf
<1> QED
  BY <1>2, <1>3, <1>4 DEF Adds

\* No box below the bound holds more than its share and a tenth.
Even(f, s, a, d) == Assigns(f, s) /\ \A b \in 0..(MaxBox - 1) : LoadOf(f, s, d, b) <= a + d

\* Box i, of which c is left, is the last one; those behind it are empty.
Filling(f, s, a, d, c, i) ==
  /\ Assigns(f, s) /\ c \in Nat /\ c <= a /\ i \in Nat /\ i <= MaxBox
  /\ \A b \in 0..(MaxBox - 1) :
       LoadOf(f, s, d, b) <= IF b > i THEN 0 ELSE IF b = i /\ c > 0 THEN a - c ELSE a + d

LEMMA FillingEven ==
  ASSUME NEW f, NEW s, NEW a \in Nat, NEW d \in Nat, NEW c, NEW i, Filling(f, s, a, d, c, i)
  PROVE  Even(f, s, a, d)
<1>0. Assigns(f, s) /\ c \in Nat /\ i \in Nat
  BY DEF Filling
<1>1. ASSUME NEW b \in 0..(MaxBox - 1)
      PROVE  LoadOf(f, s, d, b) <= a + d
  <2>1. PICK l : l = LoadOf(f, s, d, b)
    OBVIOUS
  <2>2. l \in Nat /\ b \in Nat
    BY <1>0, <2>1, MaxBoxAssumption, CountedIs DEF LoadOf
  <2>3. l <= IF b > i THEN 0 ELSE IF b = i /\ c > 0 THEN a - c ELSE a + d
    BY <2>1 DEF Filling
  <2> QED
    BY <1>0, <2>1, <2>2, <2>3
<1> QED
  BY <1>0, <1>1 DEF Even

LEMMA FillingNone ==
  ASSUME NEW f \in Seq(Pos), NEW a \in Nat, NEW d \in Nat
  PROVE  Filling(f, << >>, a, d, a, 0)
<1>1. \A b \in 0..(MaxBox - 1) : b \in Nat /\ LoadOf(f, << >>, d, b) = 0
  BY MaxBoxAssumption, LoadNone
<1>2. Assigns(f, << >>)
  <2>1. 0 \in Nat
    OBVIOUS
  <2> QED
    BY <2>1, LoadNone
<1> QED
  BY <1>1, <1>2, MaxBoxAssumption DEF Filling

LEMMA FillingMore ==
  ASSUME NEW f, NEW s, NEW a \in Nat, NEW d \in Nat, NEW c, NEW i, Filling(f, s, a, d, c, i),
         NEW x, NextIs(f, s, x), c + d >= x
  PROVE  Filling(f, Append(s, i), a, d, IF c >= x THEN c - x ELSE 0, i)
<1>0. Assigns(f, s) /\ c \in Nat /\ c <= a /\ i \in Nat /\ i <= MaxBox
  BY DEF Filling
<1>1. PICK t, e : t = Append(s, i) /\ e = IF c >= x THEN c - x ELSE 0
  OBVIOUS
<1>2. /\ Assigns(f, t) /\ x \in Nat /\ x > 0
      /\ \A b \in Nat : /\ LoadOf(f, s, d, b) \in Nat /\ LoadOf(f, t, d, b) \in Nat
                        /\ LoadOf(f, t, d, b) = LoadOf(f, s, d, b) + IF i = b /\ x > d THEN x ELSE 0
  <2>1. Longer(s, t, i)
    BY <1>0, <1>1, LongerIs DEF Assigns
  <2>2. Assigns(f, s) /\ i \in Nat
    BY <1>0
  <2>3. Adds(f, s, d, i, t, x)
    BY <2>1, <2>2, LoadMore, Zenon
  <2> QED
    BY <2>3 DEF Adds
<1>3. x \in Nat /\ x > 0
  BY <1>2
<1>4. e \in Nat /\ e <= a
  BY <1>0, <1>1, <1>3
<1>5. ASSUME NEW b \in 0..(MaxBox - 1)
      PROVE  LoadOf(f, t, d, b) <= IF b > i THEN 0 ELSE IF b = i /\ e > 0 THEN a - e ELSE a + d
  <2>0. b \in Nat
    BY MaxBoxAssumption
  <2>1. PICK l, m : l = LoadOf(f, s, d, b) /\ m = LoadOf(f, t, d, b)
    OBVIOUS
  <2>2. l \in Nat /\ m \in Nat /\ m = l + IF i = b /\ x > d THEN x ELSE 0
    BY <1>2, <2>0, <2>1
  <2>3. l <= IF b > i THEN 0 ELSE IF b = i /\ c > 0 THEN a - c ELSE a + d
    BY <2>1 DEF Filling
  <2>4. m <= IF b > i THEN 0 ELSE IF b = i /\ e > 0 THEN a - e ELSE a + d
    BY <1>0, <1>1, <1>3, <2>0, <2>2, <2>3
  <2> QED
    BY <2>1, <2>4
<1>6. Filling(f, t, a, d, e, i)
  BY <1>0, <1>2, <1>4, <1>5 DEF Filling
<1> QED
  BY <1>1, <1>6

LEMMA FillingNew ==
  ASSUME NEW f, NEW s, NEW a \in Nat, NEW d \in Nat, NEW c, NEW i, Filling(f, s, a, d, c, i)
  PROVE  Filling(f, s, a, d, a, IF i < MaxBox THEN i + 1 ELSE i)
<1>0. Assigns(f, s) /\ c \in Nat /\ c <= a /\ i \in Nat /\ i <= MaxBox
  BY DEF Filling
<1>1. PICK j : j = IF i < MaxBox THEN i + 1 ELSE i
  OBVIOUS
<1>2. j \in Nat /\ j <= MaxBox /\ (j = i + 1 \/ (j = i /\ i = MaxBox))
  BY <1>0, <1>1, MaxBoxAssumption
<1>3. ASSUME NEW b \in 0..(MaxBox - 1)
      PROVE  LoadOf(f, s, d, b) <= IF b > j THEN 0 ELSE IF b = j /\ a > 0 THEN a - a ELSE a + d
  <2>0. b \in Nat /\ b < MaxBox
    BY MaxBoxAssumption
  <2>1. PICK l : l = LoadOf(f, s, d, b)
    OBVIOUS
  <2>2. l \in Nat
    BY <1>0, <2>0, <2>1, CountedIs DEF LoadOf
  <2>3. l <= IF b > i THEN 0 ELSE IF b = i /\ c > 0 THEN a - c ELSE a + d
    BY <2>1 DEF Filling
  <2>4. l <= IF b > j THEN 0 ELSE IF b = j /\ a > 0 THEN a - a ELSE a + d
    BY <1>0, <1>2, <2>0, <2>2, <2>3, MaxBoxAssumption
  <2> QED
    BY <2>1, <2>4
<1>4. Filling(f, s, a, d, a, j)
  BY <1>0, <1>2, <1>3 DEF Filling
<1> QED
  BY <1>1, <1>4

LEMMA FlatIs == SliceInv => Flat \in Seq(Pos)
BY FlattenIs DEF SliceInv, Flat

\* What PartitionSlices has done for num boxes, and is doing.
Shared(s, num) == Even(Flat, s, Avg(num), Diff(num))
Sharing(s, num) == Filling(Flat, s, Avg(num), Diff(num), box, boxid)

BoxInv ==
  /\ slice2box = [group |-> slice2box.group, server |-> slice2box.server]
  /\ phase \in {"net", "slice", "group"} => slice2box.server = << >>
  /\ phase \in {"net", "slice"} => slice2box.group = << >>
  /\ phase = "group" => Sharing(slice2box.group, conf.nsg)
  /\ phase = "server" => Shared(slice2box.group, conf.nsg) /\ Sharing(slice2box.server, conf.ns)
  /\ phase = "done" => Shared(slice2box.group, conf.nsg) /\ Shared(slice2box.server, conf.ns)

LEMMA SharesOf ==
  ASSUME SliceInv, NEW n \in {conf.nsg, conf.ns}
  PROVE  n \in Nat \ {0} /\ Avg(n) \in Nat /\ Diff(n) \in Nat
<1>1. n \in Nat \ {0}
  BY ConfigType DEF SliceInv
<1> QED
  BY <1>1, SizesOf DEF SliceInv

\* The slices and all that is computed from them stay.
LEMMA SameFlat ==
  ASSUME conf' = conf, sizes' = sizes, slices' = slices
  PROVE  /\ Flat' = Flat
         /\ \A n : (Avg(n))' = Avg(n) /\ (Diff(n))' = Diff(n)
         /\ \A s, n : Shared(s, n)' <=> Shared(s, n)
<1>1. Flat' = Flat /\ \A n : (Avg(n))' = Avg(n) /\ (Diff(n))' = Diff(n)
  BY SameSizes DEF Flat
<1> QED
  BY <1>1 DEF Shared

\* A turn of PartitionSlices for num boxes.
LEMMA AssignTurn ==
  ASSUME SliceInv, AssignSlice, NEW s, NEW n, n = NumBoxes, s = Assigned, n \in {conf.nsg, conf.ns},
         Sharing(s, n)
  PROVE  \/ slice2box' = slice2box /\ Sharing(s, n)'
         \/ slice2box' = [slice2box EXCEPT ![phase] = Append(@, boxid')] /\ Sharing(Append(s, boxid), n)'
<1>0. conf' = conf /\ sizes' = sizes /\ slices' = slices /\ Len(s) < Len(Flat)
  BY DEF AssignSlice
<1>1. PICK f, a, d, c, i, x : /\ f = Flat /\ a = Avg(n) /\ d = Diff(n) /\ c = box /\ i = boxid
                              /\ x = Flat[Len(s) + 1]
  OBVIOUS
<1>2. f' = f /\ Flat' = f /\ Avg(n)' = a /\ Diff(n)' = d
  BY <1>0, <1>1, SameFlat
<1>3. a \in Nat /\ d \in Nat /\ Filling(f, s, a, d, c, i) /\ NextIs(f, s, x)
  BY <1>0, <1>1, SharesOf DEF Sharing, NextIs
<1>4. CASE Fits(x)
  <2>1. /\ slice2box' = [slice2box EXCEPT ![phase] = Append(@, i)]
        /\ box' = (IF c >= x THEN c - x ELSE 0) /\ boxid' = i
    BY <1>1, <1>4 DEF AssignSlice
  <2>2. c + d >= x
    BY <1>1, <1>4 DEF Fits
  <2>3. Filling(f, Append(s, i), a, d, IF c >= x THEN c - x ELSE 0, i)
    BY <1>3, <2>2, FillingMore
  <2> QED
    BY <1>1, <1>2, <2>1, <2>3 DEF Sharing
<1>5. CASE ~Fits(x)
  <2>1. slice2box' = slice2box /\ box' = a /\ boxid' = IF i < MaxBox THEN i + 1 ELSE i
    BY <1>1, <1>5 DEF AssignSlice, NewBox
  <2>2. Filling(f, s, a, d, a, IF i < MaxBox THEN i + 1 ELSE i)
    BY <1>3, FillingNew
  <2> QED
    BY <1>2, <2>1, <2>2 DEF Sharing
<1> QED
  BY <1>4, <1>5

LEMMA BoxStep == SliceInv /\ SliceInv' /\ BoxInv /\ [Next]_vars => BoxInv'
<1> SUFFICES ASSUME SliceInv, SliceInv', BoxInv, [Next]_vars PROVE BoxInv'
  OBVIOUS
<1>1. CASE AssignSlice
  <2>0. conf' = conf /\ sizes' = sizes /\ slices' = slices /\ phase' = phase /\ phase \in {"group", "server"}
    BY <1>1 DEF AssignSlice
  <2>1. PICK n, s : n = NumBoxes /\ s = Assigned
    OBVIOUS
  <2>2. CASE phase = "group"
    <3>1. n = conf.nsg /\ s = slice2box.group /\ Sharing(s, n)
      BY <2>1, <2>2 DEF NumBoxes, Assigned, BoxInv
    <3>2. \/ slice2box' = slice2box /\ Sharing(s, n)'
          \/ slice2box' = [slice2box EXCEPT ![phase] = Append(@, boxid')] /\ Sharing(Append(s, boxid), n)'
      BY <1>1, <2>1, <3>1, AssignTurn
    <3>3. Sharing(slice2box.group, n)' /\ slice2box'.server = slice2box.server
          /\ slice2box' = [group |-> slice2box'.group, server |-> slice2box'.server]
      <4>1. CASE slice2box' = slice2box /\ Sharing(s, n)'
        BY <3>1, <4>1 DEF BoxInv
      <4>2. CASE /\ slice2box' = [slice2box EXCEPT ![phase] = Append(@, boxid')]
                 /\ Sharing(Append(s, boxid), n)'
        <5>1. slice2box' = [group |-> Append(s, boxid'), server |-> slice2box.server]
          BY <2>2, <3>1, <4>2 DEF BoxInv
        <5>2. slice2box'.group = Append(s, boxid') /\ slice2box'.server = slice2box.server
          BY <5>1
        <5> QED
          BY <4>2, <5>1, <5>2
      <4> QED
        BY <3>2, <4>1, <4>2
    <3> QED
      BY <2>0, <2>2, <3>1, <3>3 DEF BoxInv
  <2>3. CASE phase = "server"
    <3>1. n = conf.ns /\ s = slice2box.server /\ Sharing(s, n)
      BY <2>1, <2>3 DEF NumBoxes, Assigned, BoxInv
    <3>2. \/ slice2box' = slice2box /\ Sharing(s, n)'
          \/ slice2box' = [slice2box EXCEPT ![phase] = Append(@, boxid')] /\ Sharing(Append(s, boxid), n)'
      BY <1>1, <2>1, <3>1, AssignTurn
    <3>3. Sharing(slice2box.server, n)' /\ slice2box'.group = slice2box.group
          /\ slice2box' = [group |-> slice2box'.group, server |-> slice2box'.server]
      <4>1. CASE slice2box' = slice2box /\ Sharing(s, n)'
        BY <3>1, <4>1 DEF BoxInv
      <4>2. CASE /\ slice2box' = [slice2box EXCEPT ![phase] = Append(@, boxid')]
                 /\ Sharing(Append(s, boxid), n)'
        <5>1. slice2box' = [group |-> slice2box.group, server |-> Append(s, boxid')]
          BY <2>3, <3>1, <4>2 DEF BoxInv
        <5>2. slice2box'.server = Append(s, boxid') /\ slice2box'.group = slice2box.group
          BY <5>1
        <5> QED
          BY <4>2, <5>1, <5>2
      <4> QED
        BY <3>2, <4>1, <4>2
    <3>4. Shared(slice2box.group, conf.nsg)'
      BY <2>0, <2>3, <3>3, SameFlat DEF BoxInv
    <3> QED
      BY <2>0, <2>3, <3>1, <3>3, <3>4 DEF BoxInv
  <2> QED
    BY <2>0, <2>2, <2>3
<1>2. CASE EndPartition
  <2>0. /\ conf' = conf /\ sizes' = sizes /\ slices' = slices /\ slice2box' = slice2box
        /\ box' = Avg(conf.ns) /\ boxid' = 0
        /\ \/ phase = "group" /\ phase' = "server"
           \/ phase = "server" /\ phase' = "done"
    BY <1>2 DEF EndPartition
  <2>1. Flat' = Flat /\ (\A n : (Avg(n))' = Avg(n) /\ (Diff(n))' = Diff(n)) /\ Flat \in Seq(Pos)
    BY <2>0, SameFlat, FlatIs
  <2>2. /\ conf.nsg \in {conf.nsg, conf.ns} /\ conf.ns \in {conf.nsg, conf.ns}
    OBVIOUS
  <2>3. ASSUME NEW s, NEW n \in {conf.nsg, conf.ns}, Sharing(s, n)
        PROVE  Shared(s, n)
    BY <2>3, SharesOf, FillingEven DEF Sharing, Shared
  <2>4. CASE phase = "group"
    <3>1. Shared(slice2box.group, conf.nsg) /\ slice2box.server = << >>
      BY <2>2, <2>3, <2>4 DEF BoxInv
    <3>2. Filling(Flat, << >>, Avg(conf.ns), Diff(conf.ns), Avg(conf.ns), 0)
      BY <2>1, <2>2, SharesOf, FillingNone
    <3>3. Sharing(<< >>, conf.ns)'
      BY <2>0, <2>1, <3>2 DEF Sharing
    <3>4. Shared(slice2box.group, conf.nsg)'
      BY <2>0, <2>1, <3>1 DEF Shared
    <3> QED
      BY <2>0, <2>4, <3>1, <3>3, <3>4 DEF BoxInv
  <2>5. CASE phase = "server"
    <3>1. Shared(slice2box.group, conf.nsg) /\ Shared(slice2box.server, conf.ns)
      BY <2>2, <2>3, <2>5 DEF BoxInv
    <3>2. Shared(slice2box.group, conf.nsg)' /\ Shared(slice2box.server, conf.ns)'
      BY <2>0, <2>1, <3>1 DEF Shared
    <3> QED
      BY <2>0, <2>5, <3>2 DEF BoxInv
  <2> QED
    BY <2>0, <2>4, <2>5
<1>3. CASE NextParam
  <2>0. phase = "slice" /\ slice2box' = slice2box /\ slice2box.group = << >> /\ slice2box.server = << >>
    BY <1>3 DEF NextParam, BoxInv
  <2>1. CASE phase' = "slice" \/ phase' = "fatal"
    BY <2>0, <2>1 DEF BoxInv
  <2>2. CASE phase' = "group"
    <3>1. box' = Avg(conf.nsg) /\ boxid' = 0 /\ conf' = conf /\ sizes' = sizes /\ slices' = slices
      BY <1>3, <2>0, <2>2 DEF NextParam
    <3>2. Flat' = Flat /\ (\A n : (Avg(n))' = Avg(n) /\ (Diff(n))' = Diff(n)) /\ Flat \in Seq(Pos)
      BY <3>1, SameFlat, FlatIs
    <3>3. conf.nsg \in {conf.nsg, conf.ns}
      OBVIOUS
    <3>4. Filling(Flat, << >>, Avg(conf.nsg), Diff(conf.nsg), Avg(conf.nsg), 0)
      BY <3>2, <3>3, SharesOf, FillingNone
    <3>5. Sharing(<< >>, conf.nsg)'
      BY <3>1, <3>2, <3>4 DEF Sharing
    <3> QED
      BY <2>0, <2>2, <3>1, <3>5 DEF BoxInv
  <2> QED
    BY <1>3, <2>0, <2>1, <2>2 DEF NextParam
<1>4. CASE phase \in {"net", "slice"} /\ phase' = "slice" /\ slice2box' = slice2box
  BY <1>4 DEF BoxInv
<1>5. CASE UNCHANGED sliceVars
  <2>1. /\ conf' = conf /\ sizes' = sizes /\ slices' = slices /\ slice2box' = slice2box /\ phase' = phase
        /\ box' = box /\ boxid' = boxid
    BY <1>5 DEF sliceVars
  <2>2. Flat' = Flat /\ \A n : (Avg(n))' = Avg(n) /\ (Diff(n))' = Diff(n)
    BY <2>1, SameFlat
  <2> QED
    BY <2>1, <2>2 DEF BoxInv, Shared, Sharing
<1>6. CASE StartSlicing
  BY <1>4, <1>6 DEF StartSlicing, SliceParams
<1>7. CASE Slice
  BY <1>4, <1>7 DEF Slice
<1> QED
  BY <1>1, <1>2, <1>3, <1>5, <1>6, <1>7 DEF Next, BuildNet, SliceAndPartition, SliceStep, vars

\* No server group and no server below the bound gets more of the large slices
\* than its share and a tenth, however the sizes are cut: a box that is full
\* takes no slice larger than a tenth of it.
THEOREM SetupBalanced == Spec => []Balanced
<1>1. SliceInv /\ BoxInv => Balanced
  <2> SUFFICES ASSUME SliceInv, BoxInv, phase = "done", NEW b \in 0..(MaxBox - 1)
               PROVE  /\ Load(slice2box.group, conf.nsg, b) <= Avg(conf.nsg) + Diff(conf.nsg)
                      /\ Load(slice2box.server, conf.ns, b) <= Avg(conf.ns) + Diff(conf.ns)
    BY DEF Balanced
  <2>1. \A s, n : Load(s, n, b) = LoadOf(Flat, s, Diff(n), b)
    BY DEF Load, LoadOf, Counted
  <2> QED
    BY <2>1 DEF BoxInv, Shared, Even
<1>2. Init => BoxInv
  BY DEF Init, SliceInit, BoxInv
<1>3. Spec => Init /\ [][Next]_vars
  BY PTL DEF Spec
<1> QED
  BY <1>1, <1>2, <1>3, BuildInit, BuildStep, SliceInit0, SliceStepInv, BoxStep, PTL
=============================================================================
