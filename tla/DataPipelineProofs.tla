------------------------- MODULE DataPipelineProofs -------------------------
(***************************************************************************)
(* The shard keeps what its writers have flushed, each record once: for    *)
(* any keys, lengths, buffers and number of programs, and wherever they    *)
(* crash.  The layers that read it get every whole record in turn, for any *)
(* size of the reader's buffer, of a batch and of what is skipped first.   *)
(***************************************************************************)
EXTENDS DataPipeline, SequenceTheorems, FiniteSetTheorems, WellFoundedInduction, TLAPS

(***************************************************************************)
(* Induction and recursion over the natural numbers.                       *)
(***************************************************************************)
Less == {p \in Nat \X Nat : p[1] < p[2]}

LEMMA LessWellFounded == IsWellFoundedOn(Less, Nat)
BY NatLessThanWellFounded DEF OpToRel, Less

LEMMA Induction ==
  ASSUME NEW S, 0 \in S, \A n \in Nat : n \in S => n + 1 \in S
  PROVE  Nat \subseteq S
<1> DEFINE T == Nat \ S
<1> SUFFICES ASSUME T # {} PROVE FALSE
  OBVIOUS
<1>1. PICK x \in T : \A y \in T : ~(<<y, x>> \in Less)
  BY LessWellFounded, WFMin
<1>2. x # 0 /\ x - 1 \in Nat /\ x - 1 < x
  OBVIOUS
<1>3. <<x - 1, x>> \in Less
  BY <1>2 DEF Less
<1>4. x - 1 \in S
  BY <1>1, <1>2, <1>3
<1> QED BY <1>2, <1>4

\* The same from 0 up to a bound.
LEMMA InductionTo ==
  ASSUME NEW N \in Nat, NEW S, 0 \in S, \A n \in 0..(N - 1) : n \in S => n + 1 \in S
  PROVE  \A n \in 0..N : n \in S
<1> DEFINE T == {n \in Nat : n <= N => n \in S}
<1>1. 0 \in T
  OBVIOUS
<1>2. \A n \in Nat : n \in T => n + 1 \in T
  OBVIOUS
<1> HIDE DEF T
<1>3. Nat \subseteq T
  BY <1>1, <1>2, Induction
<1> QED
  BY <1>3 DEF T

\* f is the recursive function over 0..N that begins with b and goes on by F.
Steps(N, V, F) == F \in [1..N -> [V -> V]]
Runs(f, N, V, b, F) == f \in [0..N -> V] /\ f[0] = b /\ \A n \in 1..N : f[n] = F[n][f[n - 1]]

\* Such a function exists.
LEMMA Recursion ==
  ASSUME NEW N \in Nat, NEW V, NEW b \in V, NEW F, Steps(N, V, F)
  PROVE  \E f : Runs(f, N, V, b, F)
<1>0. F \in [1..N -> [V -> V]]
  BY DEF Steps
<1> DEFINE Is(f, m) == f[0] = b /\ \A n \in 1..m : f[n] = F[n][f[n - 1]]
           S == {m \in 0..N : \E f \in [0..m -> V] : Is(f, m)}
<1>1. 0 \in S
  <2> DEFINE f == [n \in 0..0 |-> b]
  <2>1. f \in [0..0 -> V] /\ Is(f, 0)
    OBVIOUS
  <2>2. 0 \in 0..N
    OBVIOUS
  <2> HIDE DEF f
  <2> QED BY <2>1, <2>2
<1>2. ASSUME NEW m \in 0..(N - 1), m \in S
      PROVE  m + 1 \in S
  <2>1. PICK f \in [0..m -> V] : Is(f, m)
    BY <1>2
  <2> DEFINE g == [n \in 0..(m + 1) |-> IF n = m + 1 THEN F[m + 1][f[m]] ELSE f[n]]
  <2>2. m + 1 \in 1..N /\ m \in 0..m /\ f[m] \in V /\ m + 1 \in 0..N
    OBVIOUS
  <2>3. g \in [0..(m + 1) -> V] /\ g[0] = b
    BY <1>0, <2>1, <2>2
  <2>4. ASSUME NEW n \in 1..(m + 1)
        PROVE  g[n] = F[n][g[n - 1]]
    <3>1. CASE n = m + 1
      <4>1. n - 1 = m /\ g[m] = f[m]
        BY <3>1
      <4> QED BY <3>1, <4>1
    <3>2. CASE n # m + 1
      <4>1. n \in 1..m /\ g[n] = f[n] /\ n - 1 \in 0..m /\ g[n - 1] = f[n - 1]
        BY <3>2
      <4> QED BY <2>1, <4>1
    <3> QED BY <3>1, <3>2
  <2>5. Is(g, m + 1)
    BY <2>3, <2>4
  <2> HIDE DEF g
  <2> QED BY <2>2, <2>3, <2>5
<1> HIDE DEF S
<1>3. \A n \in 0..N : n \in S
  BY <1>1, <1>2, InductionTo
<1>4. PICK f \in [0..N -> V] : Is(f, N)
  BY <1>3 DEF S
<1> QED BY <1>4 DEF Runs

(***************************************************************************)
(* Cells and tuples.                                                       *)
(***************************************************************************)
\* Lengths a reader has room for.
Small == {n \in Nat : n <= ReadCapacity}

CellSet == {Zero} \cup ({"len"} \X Small) \cup ({"key", "val"} \X Key \X Nat)

LEMMA MaxIs == \A a, b \in Nat : Max({a, b}) = IF a >= b THEN a ELSE b
<1>1. ASSUME NEW a \in Nat, NEW b \in Nat PROVE Max({a, b}) = IF a >= b THEN a ELSE b
  <2> DEFINE m == IF a >= b THEN a ELSE b
  <2>1. m \in {a, b} /\ \A y \in {a, b} : m >= y
    OBVIOUS
  <2>2. \A x \in {a, b} : (\A y \in {a, b} : x >= y) => x = m
    OBVIOUS
  <2>3. Max({a, b}) = CHOOSE x \in {a, b} : \A y \in {a, b} : x >= y
    BY DEF Max
  <2> QED
    BY <2>1, <2>2, <2>3
<1> QED
  BY <1>1

LEMMA LengthsOf ==
  /\ TooLarge \in Nat
  /\ \A k \in Key : /\ keyLen[k] \in Nat \ {0} /\ valLen[k] \in Nat \ {0}
                    /\ keyLen[k] < TooLarge /\ valLen[k] < TooLarge
                    /\ keyLen[k] \in Small /\ valLen[k] \in Small
<1>1. ASSUME NEW k \in Key
      PROVE  /\ keyLen[k] \in Nat \ {0} /\ valLen[k] \in Nat \ {0}
             /\ keyLen[k] < TooLarge /\ valLen[k] < TooLarge
             /\ keyLen[k] \in Small /\ valLen[k] \in Small
  <2>1. keyLen[k] \in Nat \ {0} /\ valLen[k] \in Nat \ {0} /\ keyLen[k] + valLen[k] + 2 <= Capacity
    BY ShardAssumption
  <2>2. Capacity \in Nat /\ TooLarge \in Nat /\ Capacity < TooLarge
    BY ShardAssumption
  <2>3. ReadCapacity \in Nat /\ Max({keyLen[k], valLen[k]}) <= ReadCapacity
    BY PipelineAssumption
  <2>4. Max({keyLen[k], valLen[k]}) = IF keyLen[k] >= valLen[k] THEN keyLen[k] ELSE valLen[k]
    BY <2>1, MaxIs
  <2>5. keyLen[k] <= ReadCapacity /\ valLen[k] <= ReadCapacity
    BY <2>1, <2>3, <2>4
  <2> QED
    BY <2>1, <2>2, <2>5 DEF Small
<1> QED
  BY <1>1, ShardAssumption

\* A cell is a length a reader has room for, or text.
LEMMA LenOfKinds == \A c \in CellSet : LenOf(c) \in Small \/ LenOf(c) = TooLarge
<1>1. ASSUME NEW c \in CellSet PROVE LenOf(c) \in Small \/ LenOf(c) = TooLarge
  <2>1. CASE c = Zero
    <3>1. c[1] # "len"
      BY <2>1 DEF Zero
    <3>2. LenOf(c) = 0
      BY <2>1, <3>1 DEF LenOf
    <3> QED
      BY <3>2, PipelineAssumption DEF Small
  <2>2. CASE c \in {"len"} \X Small
    <3>1. c[1] = "len" /\ c[2] \in Small
      BY <2>2
    <3>2. Zero[1] = "zero"
      BY DEF Zero
    <3>3. c # Zero
      BY <3>1, <3>2
    <3> QED
      BY <3>1, <3>3 DEF LenOf
  <2>3. CASE c \in {"key", "val"} \X Key \X Nat
    <3>1. c[1] # "len" /\ c[1] # "zero"
      BY <2>3
    <3>2. c # Zero
      BY <3>1 DEF Zero
    <3> QED
      BY <3>1, <3>2 DEF LenOf
  <2> QED
    BY <1>1, <2>1, <2>2, <2>3 DEF CellSet
<1> QED
  BY <1>1

LEMMA LenOfType == \A c \in CellSet : LenOf(c) \in Nat
BY LenOfKinds, LengthsOf DEF Small

LEMMA LenOfLen == \A n \in Small : <<"len", n>> \in CellSet /\ LenOf(<<"len", n>>) = n
<1>1. ASSUME NEW n \in Small PROVE <<"len", n>> \in CellSet /\ LenOf(<<"len", n>>) = n
  <2>1. PICK c : c = <<"len", n>>
    OBVIOUS
  <2>2. c[1] = "len" /\ c[2] = n
    BY <2>1
  <2>3. LenOf(c) = n
    <3>1. Zero[1] = "zero"
      BY DEF Zero
    <3>2. c # Zero
      BY <2>2, <3>1
    <3> QED
      BY <2>2, <3>2 DEF LenOf
  <2>4. c \in {"len"} \X Small
    BY <2>1
  <2> QED
    BY <2>1, <2>3, <2>4 DEF CellSet
<1> QED
  BY <1>1

\* Keys and values are text.
LEMMA LenOfText ==
  ASSUME NEW k \in Key, NEW i \in Nat
  PROVE  LenOf(<<"key", k, i>>) = TooLarge /\ LenOf(<<"val", k, i>>) = TooLarge
<1>1. ASSUME NEW s \in {"key", "val"} PROVE LenOf(<<s, k, i>>) = TooLarge
  <2>1. PICK c : c = <<s, k, i>>
    OBVIOUS
  <2>2. c[1] # "len" /\ c[1] # "zero"
    BY <2>1
  <2>3. c # Zero
    BY <2>2 DEF Zero
  <2> QED
    BY <2>1, <2>2, <2>3 DEF LenOf
<1> QED
  BY <1>1

\* A sequence given by its elements.
LEMMA SeqFrom ==
  ASSUME NEW n \in Nat, NEW S, NEW f \in [1..n -> S]
  PROVE  f \in Seq(S) /\ Len(f) = n
<1>1. f \in Seq(S)
  BY IsASeq
<1>2. PICK m : m = Len(f)
  OBVIOUS
<1>3. m \in Nat /\ 1..m = 1..n
  BY <1>1, <1>2, LenProperties
<1>4. m = n
  BY <1>3
<1> QED
  BY <1>1, <1>2, <1>4

\* c is s followed by t.
Joined(c, s, t) == /\ Len(c) = Len(s) + Len(t) /\ Len(s) \in Nat /\ Len(t) \in Nat
                   /\ \A i \in 1..Len(s) : c[i] = s[i]
                   /\ \A i \in 1..Len(t) : c[Len(s) + i] = t[i]

LEMMA JoinedIs ==
  ASSUME NEW S, NEW s \in Seq(S), NEW t \in Seq(S)
  PROVE  s \o t \in Seq(S) /\ Joined(s \o t, s, t)
<1>1. PICK c, m, n : c = s \o t /\ m = Len(s) /\ n = Len(t)
  OBVIOUS
<1>2. /\ c \in Seq(S) /\ m \in Nat /\ n \in Nat /\ Len(c) = m + n
      /\ \A i \in 1..(m + n) : c[i] = IF i <= m THEN s[i] ELSE t[i - m]
  BY <1>1, ConcatProperties, LenProperties
<1>3. /\ \A i \in 1..m : i \in 1..(m + n) /\ i <= m
      /\ \A i \in 1..n : m + i \in 1..(m + n) /\ ~(m + i <= m) /\ (m + i) - m = i
  BY <1>2
<1>4. (\A i \in 1..m : c[i] = s[i]) /\ \A i \in 1..n : c[m + i] = t[i]
  BY <1>2, <1>3
<1> QED
  BY <1>1, <1>2, <1>4 DEF Joined

LEMMA KeyCellsIs ==
  ASSUME NEW k \in Key
  PROVE  /\ KeyCells(k) \in Seq(CellSet) /\ Len(KeyCells(k)) = keyLen[k]
         /\ \A i \in 1..keyLen[k] : KeyCells(k)[i] = <<"key", k, i>>
<1> DEFINE f == [i \in 1..keyLen[k] |-> <<"key", k, i>>]
<1>1. keyLen[k] \in Nat
  BY LengthsOf
<1>2. \A i \in 1..keyLen[k] : <<"key", k, i>> \in CellSet
  BY <1>1 DEF CellSet
<1>3. f \in [1..keyLen[k] -> CellSet]
  BY <1>2
<1>4. KeyCells(k) = f
  BY DEF KeyCells
<1>5. \A i \in 1..keyLen[k] : f[i] = <<"key", k, i>>
  OBVIOUS
<1> HIDE DEF f
<1> QED
  BY <1>1, <1>3, <1>4, <1>5, SeqFrom

\* The cells of a tuple, one after the other.
LEMMA CellsIs ==
  ASSUME NEW k \in Key, NEW a, NEW b, a = keyLen[k], b = valLen[k]
  PROVE  /\ Cells(k) \in Seq(CellSet) /\ Len(Cells(k)) = a + b + 2
         /\ Cells(k)[1] = <<"len", a>> /\ Cells(k)[a + 2] = <<"len", b>>
         /\ \A i \in 1..a : Cells(k)[i + 1] = <<"key", k, i>>
         /\ \A i \in 1..b : Cells(k)[a + 2 + i] = <<"val", k, i>>
<1>0. a \in Nat \ {0} /\ b \in Nat \ {0} /\ a \in Small /\ b \in Small
  BY LengthsOf
<1>1. PICK u, v, w, z : u = << <<"len", a>> >> /\ v = KeyCells(k) /\ w = << <<"len", b>> >>
                     /\ z = [i \in 1..b |-> <<"val", k, i>>]
  OBVIOUS
<1>2. u \in Seq(CellSet) /\ Len(u) = 1 /\ u[1] = <<"len", a>>
  <2>1. <<"len", a>> \in CellSet
    BY <1>0, LenOfLen
  <2> QED
    BY <1>1, <2>1
<1>3. w \in Seq(CellSet) /\ Len(w) = 1 /\ w[1] = <<"len", b>>
  <2>1. <<"len", b>> \in CellSet
    BY <1>0, LenOfLen
  <2> QED
    BY <1>1, <2>1
<1>4. v \in Seq(CellSet) /\ Len(v) = a /\ \A i \in 1..a : v[i] = <<"key", k, i>>
  BY <1>1, KeyCellsIs
<1>5. z \in Seq(CellSet) /\ Len(z) = b /\ \A i \in 1..b : z[i] = <<"val", k, i>>
  <2>1. \A i \in 1..b : <<"val", k, i>> \in CellSet
    BY <1>0 DEF CellSet
  <2>2. z \in [1..b -> CellSet] /\ \A i \in 1..b : z[i] = <<"val", k, i>>
    BY <1>1, <2>1
  <2> QED
    BY <1>0, <2>2, SeqFrom
<1>6. Cells(k) = u \o v \o w \o z
  BY <1>1 DEF Cells, KeyCells
<1>7. PICK p, q : p = u \o v /\ q = p \o w
  OBVIOUS
<1>8. /\ p \in Seq(CellSet) /\ Len(p) = 1 + a /\ p[1] = <<"len", a>>
      /\ \A i \in 1..a : p[1 + i] = <<"key", k, i>>
  <2>1. p \in Seq(CellSet) /\ Joined(p, u, v)
    BY <1>2, <1>4, <1>7, JoinedIs
  <2>2. 1 \in 1..1 /\ Len(p) = 1 + a /\ p[1] = u[1] /\ \A i \in 1..a : p[1 + i] = v[i]
    BY <1>2, <1>4, <2>1 DEF Joined
  <2> QED
    BY <1>2, <1>4, <2>1, <2>2
<1>9. /\ q \in Seq(CellSet) /\ Len(q) = 1 + a + 1 /\ q[1 + a + 1] = <<"len", b>>
      /\ \A i \in 1..(1 + a) : q[i] = p[i]
  <2>1. q \in Seq(CellSet) /\ Joined(q, p, w)
    BY <1>3, <1>7, <1>8, JoinedIs
  <2> QED
    BY <1>3, <1>8, <2>1 DEF Joined
<1>10. PICK c : c = Cells(k)
  OBVIOUS
<1>11. /\ c \in Seq(CellSet) /\ Len(c) = 1 + a + 1 + b
       /\ \A i \in 1..(1 + a + 1) : c[i] = q[i]
       /\ \A i \in 1..b : c[1 + a + 1 + i] = z[i]
  <2>1. c = q \o z
    BY <1>6, <1>7, <1>10
  <2>2. c \in Seq(CellSet) /\ Joined(c, q, z)
    BY <1>5, <1>9, <2>1, JoinedIs
  <2> QED
    BY <1>5, <1>9, <2>2 DEF Joined
<1>12. /\ 1 \in 1..(a + 2) /\ 1 \in 1..(1 + a) /\ a + 2 \in 1..(a + 2) /\ 1 + a + 1 = a + 2
       /\ 1 + a + 1 + b = a + b + 2
       /\ \A i \in 1..a : i + 1 = 1 + i /\ i + 1 \in 1..(a + 2) /\ i + 1 \in 1..(1 + a)
  BY <1>0
<1>13. c[1] = <<"len", a>>
  BY <1>8, <1>9, <1>11, <1>12
<1>14. c[a + 2] = <<"len", b>>
  BY <1>9, <1>11, <1>12
<1>15. ASSUME NEW i \in 1..a PROVE c[i + 1] = <<"key", k, i>>
  <2>1. PICK j : j = i + 1
    OBVIOUS
  <2>2. j \in 1..(1 + a + 1) /\ j \in 1..(1 + a) /\ j = 1 + i
    BY <1>12, <2>1
  <2>3. c[j] = q[j] /\ q[j] = p[j]
    BY <1>9, <1>11, <2>2
  <2>4. p[j] = <<"key", k, i>>
    BY <1>8, <2>2
  <2> QED
    BY <2>1, <2>3, <2>4
<1>16. ASSUME NEW i \in 1..b PROVE c[a + 2 + i] = <<"val", k, i>>
  BY <1>5, <1>11, <1>12
<1>17. c \in Seq(CellSet) /\ Len(c) = a + b + 2
  BY <1>11, <1>12
<1> QED
  BY <1>10, <1>13, <1>14, <1>15, <1>16, <1>17

(***************************************************************************)
(* Reading the tuples one after another.                                   *)
(***************************************************************************)
LEMMA HeaderIs ==
  ASSUME NEW f \in Seq(CellSet), NEW p \in Nat, HasHeader(f, p)
  PROVE  /\ Len(f) \in Nat /\ p + 1 \in 1..Len(f) /\ ValStart(f, p) \in 1..Len(f)
         /\ LenOf(f[p + 1]) \in Nat /\ KeyEnd(f, p) = p + 1 + LenOf(f[p + 1])
         /\ ValStart(f, p) = p + 2 + LenOf(f[p + 1])
         /\ LenOf(f[ValStart(f, p)]) \in Nat /\ ValEnd(f, p) = ValStart(f, p) + LenOf(f[ValStart(f, p)])
         /\ ValEnd(f, p) \in Nat /\ p + 2 <= ValStart(f, p) /\ ValStart(f, p) <= ValEnd(f, p)
<1>1. Len(f) \in Nat /\ p < Len(f) /\ ValStart(f, p) <= Len(f)
  BY LenProperties DEF HasHeader
<1>2. p + 1 \in 1..Len(f)
  BY <1>1
<1>3. PICK l : l = LenOf(f[p + 1])
  OBVIOUS
<1>4. l \in Nat
  BY <1>2, <1>3, LenOfType, ElementOfSeq
<1>5. KeyEnd(f, p) = p + 1 + l /\ ValStart(f, p) = p + 2 + l
  BY <1>3, <1>4 DEF KeyEnd, ValStart
<1>6. PICK v : v = ValStart(f, p)
  OBVIOUS
<1>7. v \in 1..Len(f) /\ p + 2 <= v
  BY <1>1, <1>4, <1>5, <1>6
<1>8. PICK m : m = LenOf(f[v])
  OBVIOUS
<1>9. m \in Nat
  BY <1>7, <1>8, LenOfType, ElementOfSeq
<1>10. ValEnd(f, p) = v + m /\ v + m \in Nat /\ v <= v + m
  BY <1>6, <1>7, <1>8, <1>9 DEF ValEnd
<1> QED
  BY <1>1, <1>2, <1>3, <1>4, <1>5, <1>6, <1>7, <1>8, <1>9, <1>10

LEMMA HeaderType == \A f, p : HasHeader(f, p) \in BOOLEAN
BY DEF HasHeader

\* Behind the tuple at p, if there is one.
After(f, p) == IF HasHeader(f, p) THEN ValEnd(f, p) ELSE p

LEMMA AfterIs ==
  ASSUME NEW f \in Seq(CellSet), NEW p \in Nat
  PROVE  After(f, p) \in Nat /\ After(f, p) >= p
<1>1. CASE HasHeader(f, p)
  <2>1. PICK v, e : v = ValStart(f, p) /\ e = ValEnd(f, p)
    OBVIOUS
  <2>2. Len(f) \in Nat /\ v \in 1..Len(f) /\ e \in Nat /\ p + 2 <= v /\ v <= e
    BY <1>1, <2>1, HeaderIs
  <2>3. e >= p
    BY <2>2
  <2> QED
    BY <1>1, <2>1, <2>2, <2>3 DEF After
<1>2. CASE ~HasHeader(f, p)
  BY <1>2 DEF After
<1> QED
  BY <1>1, <1>2

LEMMA OffsetsIs ==
  ASSUME NEW f \in Seq(CellSet)
  PROVE  /\ Len(f) \in Nat /\ Offsets(f) \in [0..Len(f) -> Nat] /\ Offsets(f)[0] = 0
         /\ \A n \in 1..Len(f) : Offsets(f)[n] = After(f, Offsets(f)[n - 1])
<1> DEFINE N == Len(f)
           F == [n \in 1..N |-> [p \in Nat |-> After(f, p)]]
           Is(at) == at = [n \in 0..N |-> IF n = 0 THEN 0 ELSE After(f, at[n - 1])]
<1>1. N \in Nat /\ 0 \in Nat
  BY LenProperties
<1>2. Steps(N, Nat, F)
  BY AfterIs DEF Steps
<1>3. \A n \in 1..N : \A p \in Nat : F[n][p] = After(f, p)
  OBVIOUS
<1> HIDE DEF F, N
<1>4. PICK g : Runs(g, N, Nat, 0, F)
  BY <1>1, <1>2, Recursion
<1>5. g \in [0..N -> Nat] /\ g[0] = 0 /\ \A n \in 1..N : g[n] = F[n][g[n - 1]]
  BY <1>4 DEF Runs
<1>6. ASSUME NEW n \in 1..N PROVE g[n] = After(f, g[n - 1])
  <2>1. n - 1 \in 0..N
    BY <1>1
  <2>2. g[n - 1] \in Nat
    BY <1>5, <2>1
  <2> QED
    BY <1>3, <1>5, <2>2
<1>7. Is(g)
  <2>1. ASSUME NEW n \in 0..N PROVE g[n] = IF n = 0 THEN 0 ELSE After(f, g[n - 1])
    <3>1. n = 0 \/ n \in 1..N
      BY <1>1
    <3> QED
      BY <1>5, <1>6, <3>1
  <2> QED
    BY <1>5, <2>1
<1>8. Is(Offsets(f))
  <2>1. Offsets(f) = CHOOSE at : Is(at)
    BY DEF Offsets, N, After
  <2> HIDE DEF Is
  <2> QED
    BY <1>7, <2>1
<1>9. PICK o : o = Offsets(f)
  OBVIOUS
<1>10. DOMAIN o = 0..N /\ o[0] = 0 /\ \A n \in 1..N : o[n] = After(f, o[n - 1])
  <2>1. DOMAIN o = 0..N /\ \A n \in 0..N : o[n] = IF n = 0 THEN 0 ELSE After(f, o[n - 1])
    BY <1>8, <1>9
  <2>2. 0 \in 0..N /\ \A n \in 1..N : n \in 0..N /\ n # 0
    BY <1>1
  <2> QED
    BY <2>1, <2>2
<1>11. \A n \in 0..N : n \in {m \in 0..N : o[m] \in Nat}
  <2> DEFINE S == {m \in 0..N : o[m] \in Nat}
  <2>1. 0 \in S
    BY <1>1, <1>10
  <2>2. ASSUME NEW n \in 0..(N - 1), n \in S PROVE n + 1 \in S
    <3>1. n + 1 \in 1..N /\ n + 1 \in 0..N /\ (n + 1) - 1 = n
      BY <1>1
    <3>2. o[n] \in Nat
      BY <2>2
    <3>3. o[n + 1] = After(f, o[n])
      BY <1>10, <3>1
    <3> QED
      BY <3>1, <3>2, <3>3, AfterIs
  <2> HIDE DEF S
  <2> QED
    BY <1>1, <2>1, <2>2, InductionTo DEF S
<1>12. o \in [0..N -> Nat]
  <2>1. o = [n \in 0..N |-> o[n]]
    BY <1>8, <1>9, <1>10
  <2> QED
    BY <1>11, <2>1
<1> QED
  BY <1>1, <1>9, <1>10, <1>12 DEF N

\* Reading from the start comes to w behind n tuples.
Reached(f, n, w) ==
  /\ n \in 0..Len(f) /\ Offsets(f)[n] = w
  /\ \A m \in 0..(n - 1) : HasHeader(f, Offsets(f)[m])

LEMMA ReachedStart == ASSUME NEW f \in Seq(CellSet) PROVE Reached(f, 0, 0)
<1>1. Len(f) \in Nat /\ Offsets(f)[0] = 0
  BY OffsetsIs
<1> QED
  BY <1>1 DEF Reached

\* One tuple more.
LEMMA ReachedNext ==
  ASSUME NEW f \in Seq(CellSet), NEW n, NEW m, Reached(f, n, Offsets(f)[n]), m \in 0..(n - 1)
  PROVE  /\ n \in Nat /\ m \in Nat /\ Offsets(f)[m] \in Nat /\ Offsets(f)[m + 1] \in Nat
         /\ HasHeader(f, Offsets(f)[m]) /\ Offsets(f)[m + 1] = ValEnd(f, Offsets(f)[m])
         /\ Offsets(f)[m] + 2 <= ValStart(f, Offsets(f)[m]) /\ ValStart(f, Offsets(f)[m]) \in 1..Len(f)
         /\ ValStart(f, Offsets(f)[m]) <= Offsets(f)[m + 1]
<1>1. n \in 0..Len(f) /\ HasHeader(f, Offsets(f)[m]) /\ Len(f) \in Nat
  BY OffsetsIs DEF Reached
<1>2. n \in Nat /\ m \in Nat /\ m \in 0..Len(f) /\ m + 1 \in 1..Len(f) /\ m + 1 \in 0..Len(f) /\ (m + 1) - 1 = m
  BY <1>1
<1>3. PICK p, q : p = Offsets(f)[m] /\ q = Offsets(f)[m + 1]
  OBVIOUS
<1>4. p \in Nat /\ q \in Nat /\ q = After(f, p) /\ HasHeader(f, p)
  BY <1>1, <1>2, <1>3, OffsetsIs
<1>5. q = ValEnd(f, p)
  BY <1>4 DEF After
<1>6. p + 2 <= ValStart(f, p) /\ ValStart(f, p) \in 1..Len(f) /\ ValStart(f, p) <= q
  BY <1>4, <1>5, HeaderIs
<1> QED
  BY <1>2, <1>3, <1>4, <1>5, <1>6

\* The tuples are before w, and each takes two cells or more.
LEMMA ReachedBounds ==
  ASSUME NEW f \in Seq(CellSet), NEW n, NEW w, Reached(f, n, w)
  PROVE  /\ n \in Nat /\ w \in Nat /\ Len(f) \in Nat /\ 2 * n <= w /\ 2 * n <= Len(f)
         /\ \A m \in 0..n : Offsets(f)[m] \in Nat /\ 2 * m <= Offsets(f)[m] /\ Offsets(f)[m] <= w
<1>0. n \in 0..Len(f) /\ Len(f) \in Nat /\ w = Offsets(f)[n] /\ n \in Nat /\ Reached(f, n, Offsets(f)[n])
  BY OffsetsIs DEF Reached
<1> DEFINE O == Offsets(f)
           S == {m \in 0..n : O[m] \in Nat /\ 2 * m <= O[m] /\ (m > 0 => 2 * m <= Len(f))}
           T == {m \in 0..n : O[n - m] \in Nat /\ O[n - m] <= w}
<1>1. 0 \in S
  BY <1>0, OffsetsIs
<1>2. ASSUME NEW m \in 0..(n - 1), m \in S PROVE m + 1 \in S
  <2>1. PICK p, q, v, l : p = O[m] /\ q = O[m + 1] /\ v = ValStart(f, p) /\ l = Len(f)
    OBVIOUS
  <2>2. p \in Nat /\ q \in Nat /\ p + 2 <= v /\ v \in 1..l /\ v <= q /\ m \in Nat
    BY <1>0, <2>1, ReachedNext
  <2>3. 2 * m <= p
    BY <1>2, <2>1
  <2>4. 2 * (m + 1) <= q /\ 2 * (m + 1) <= l /\ m + 1 \in 0..n
    BY <1>0, <2>1, <2>2, <2>3
  <2> QED
    BY <2>1, <2>2, <2>4
<1>3. 0 \in T
  <2>1. n - 0 = n /\ O[n] \in Nat
    BY <1>0, OffsetsIs
  <2> QED
    BY <1>0, <2>1
<1>4. ASSUME NEW m \in 0..(n - 1), m \in T PROVE m + 1 \in T
  <2>1. PICK j : j = n - (m + 1)
    OBVIOUS
  <2>2. j \in 0..(n - 1) /\ j + 1 = n - m /\ m + 1 \in 0..n
    BY <1>0, <2>1
  <2>3. PICK p, q, v : p = O[j] /\ q = O[j + 1] /\ v = ValStart(f, p)
    OBVIOUS
  <2>4. p \in Nat /\ q \in Nat /\ p + 2 <= v /\ v \in 1..Len(f) /\ v <= q
    BY <1>0, <2>2, <2>3, ReachedNext
  <2>5. q <= w /\ w \in Nat
    <3>1. w \in Nat
      BY <1>0, OffsetsIs
    <3> QED
      BY <1>4, <2>2, <2>3, <3>1
  <2>6. p <= w
    BY <1>0, <2>4, <2>5
  <2> QED
    BY <2>1, <2>2, <2>3, <2>4, <2>6
<1> HIDE DEF S, T
<1>5. \A m \in 0..n : m \in S
  BY <1>0, <1>1, <1>2, InductionTo
<1>6. \A m \in 0..n : m \in T
  BY <1>0, <1>3, <1>4, InductionTo
<1>7. ASSUME NEW m \in 0..n
      PROVE  O[m] \in Nat /\ 2 * m <= O[m] /\ O[m] <= w
  <2>1. n - m \in 0..n /\ n - (n - m) = m
    BY <1>0
  <2>2. n - m \in T /\ m \in S
    BY <1>5, <1>6, <2>1
  <2> QED
    BY <2>1, <2>2 DEF S, T
<1>8. n \in 0..n
  BY <1>0
<1>9. 2 * n <= Len(f)
  <2>1. n > 0 => 2 * n <= Len(f)
    BY <1>5, <1>8 DEF S
  <2> QED
    BY <1>0, <2>1
<1> QED
  BY <1>0, <1>7, <1>8, <1>9

\* g has the cells of f up to w.
Agree(f, g, w) == \A i \in 1..Len(f) : i <= w => i \in 1..Len(g) /\ g[i] = f[i]

LEMMA HeaderStays ==
  ASSUME NEW f \in Seq(CellSet), NEW g \in Seq(CellSet), NEW p \in Nat, NEW w \in Nat, Agree(f, g, w),
         HasHeader(f, p), ValStart(f, p) <= w
  PROVE  HasHeader(g, p) /\ ValEnd(g, p) = ValEnd(f, p) /\ KeyEnd(g, p) = KeyEnd(f, p)
         /\ ValStart(g, p) = ValStart(f, p)
<1>1. /\ Len(f) \in Nat /\ p + 1 \in 1..Len(f) /\ ValStart(f, p) \in 1..Len(f)
      /\ LenOf(f[p + 1]) \in Nat /\ p + 2 <= ValStart(f, p)
  BY HeaderIs
<1>2. Len(g) \in Nat
  BY LenProperties
<1>3. PICK v : v = ValStart(f, p)
  OBVIOUS
<1>4. v \in 1..Len(f) /\ v <= w /\ p + 1 <= w
  BY <1>1, <1>3
<1>5. p + 1 \in 1..Len(g) /\ g[p + 1] = f[p + 1] /\ v \in 1..Len(g) /\ g[v] = f[v]
  BY <1>1, <1>4 DEF Agree
<1>6. KeyEnd(g, p) = KeyEnd(f, p) /\ ValStart(g, p) = v
  BY <1>3, <1>5 DEF KeyEnd, ValStart
<1>7. ValEnd(g, p) = ValEnd(f, p)
  BY <1>3, <1>5, <1>6 DEF ValEnd
<1>8. p < Len(g) /\ v <= Len(g)
  BY <1>2, <1>5
<1> QED
  BY <1>3, <1>5, <1>6, <1>7, <1>8 DEF HasHeader

LEMMA ReachedStays ==
  ASSUME NEW f \in Seq(CellSet), NEW g \in Seq(CellSet), NEW n, NEW w, Reached(f, n, w), Agree(f, g, w)
  PROVE  Reached(g, n, w) /\ \A m \in 0..n : Offsets(g)[m] = Offsets(f)[m]
<1>0. /\ n \in Nat /\ w \in Nat /\ Len(f) \in Nat /\ 2 * n <= w /\ 2 * n <= Len(f) /\ Len(g) \in Nat
      /\ n \in 0..Len(f) /\ w = Offsets(f)[n] /\ Reached(f, n, Offsets(f)[n])
  BY ReachedBounds, LenProperties DEF Reached
<1>1. n \in 0..Len(g)
  <2>1. CASE n = 0
    BY <1>0, <2>1
  <2>2. CASE n # 0
    <3>1. 2 * n \in 1..Len(f) /\ 2 * n <= w
      BY <1>0, <2>2
    <3>2. 2 * n \in 1..Len(g)
      BY <3>1 DEF Agree
    <3> QED
      BY <1>0, <3>2
  <2> QED
    BY <2>1, <2>2
<1> DEFINE S == {m \in 0..n : Offsets(g)[m] = Offsets(f)[m]}
<1>2. ASSUME NEW m \in 0..(n - 1)
      PROVE  /\ HasHeader(f, Offsets(f)[m]) /\ HasHeader(g, Offsets(f)[m])
             /\ ValEnd(g, Offsets(f)[m]) = Offsets(f)[m + 1]
  <2>1. PICK p, v : p = Offsets(f)[m] /\ v = ValStart(f, p)
    OBVIOUS
  <2>2. /\ p \in Nat /\ HasHeader(f, p) /\ v \in 1..Len(f) /\ Offsets(f)[m + 1] = ValEnd(f, p)
        /\ v <= Offsets(f)[m + 1]
    BY <1>0, <2>1, ReachedNext
  <2>3. Offsets(f)[m + 1] \in Nat /\ Offsets(f)[m + 1] <= w
    <3>1. m + 1 \in 0..n
      BY <1>0
    <3> QED
      BY <3>1, ReachedBounds
  <2>4. v <= w
    BY <1>0, <2>2, <2>3
  <2>5. HasHeader(g, p) /\ ValEnd(g, p) = ValEnd(f, p)
    BY <1>0, <2>1, <2>2, <2>4, HeaderStays
  <2> QED
    BY <2>1, <2>2, <2>5
<1>3. 0 \in S
  BY <1>0, OffsetsIs
<1>4. ASSUME NEW m \in 0..(n - 1), m \in S PROVE m + 1 \in S
  <2>1. m + 1 \in 1..Len(g) /\ m + 1 \in 0..n /\ (m + 1) - 1 = m
    BY <1>0, <1>1
  <2>2. Offsets(g)[m + 1] = After(g, Offsets(g)[m]) /\ Offsets(g)[m] = Offsets(f)[m]
    BY <1>4, <2>1, OffsetsIs
  <2>3. Offsets(g)[m + 1] = Offsets(f)[m + 1]
    BY <1>2, <2>2 DEF After
  <2> QED
    BY <2>1, <2>3
<1> HIDE DEF S
<1>5. \A m \in 0..n : m \in S
  BY <1>0, <1>3, <1>4, InductionTo
<1>6. \A m \in 0..n : Offsets(g)[m] = Offsets(f)[m]
  BY <1>5 DEF S
<1>7. \A m \in 0..(n - 1) : HasHeader(g, Offsets(g)[m])
  <2>1. \A m \in 0..(n - 1) : m \in 0..n
    BY <1>0
  <2> QED
    BY <1>2, <1>6, <2>1
<1>8. Offsets(g)[n] = w
  BY <1>0, <1>6
<1> QED
  BY <1>1, <1>6, <1>7, <1>8 DEF Reached

(***************************************************************************)
(* Writing at an offset.                                                   *)
(***************************************************************************)
LEMMA ReachedMore ==
  ASSUME NEW f \in Seq(CellSet), NEW n, NEW w, Reached(f, n, w), HasHeader(f, w)
  PROVE  Reached(f, n + 1, ValEnd(f, w))
<1>1. n \in Nat /\ w \in Nat /\ Len(f) \in Nat /\ 2 * n <= w /\ Offsets(f)[n] = w
  BY ReachedBounds DEF Reached
<1>2. w < Len(f)
  BY DEF HasHeader
<1>3. n + 1 \in 1..Len(f) /\ n + 1 \in 0..Len(f) /\ (n + 1) - 1 = n
  BY <1>1, <1>2
<1>4. Offsets(f)[n + 1] = ValEnd(f, w)
  BY <1>1, <1>3, OffsetsIs DEF After
<1>5. ASSUME NEW m \in 0..((n + 1) - 1) PROVE HasHeader(f, Offsets(f)[m])
  <2>1. m = n \/ m \in 0..(n - 1)
    BY <1>1
  <2> QED
    BY <1>1, <2>1 DEF Reached
<1> QED
  BY <1>3, <1>4, <1>5 DEF Reached

\* Where the n-th step of the code is, some tuples lead to.
LEMMA ReachedSome ==
  ASSUME NEW f \in Seq(CellSet)
  PROVE  \A n \in 0..Len(f) : \E m \in 0..n : Reached(f, m, Offsets(f)[n])
<1> DEFINE S == {n \in 0..Len(f) : \E m \in 0..n : Reached(f, m, Offsets(f)[n])}
<1>0. Len(f) \in Nat /\ Offsets(f)[0] = 0
  BY OffsetsIs
<1>1. 0 \in S
  BY <1>0, ReachedStart
<1>2. ASSUME NEW n \in 0..(Len(f) - 1), n \in S PROVE n + 1 \in S
  <2>1. PICK p : p = Offsets(f)[n]
    OBVIOUS
  <2>2. PICK m \in 0..n : Reached(f, m, p)
    BY <1>2, <2>1
  <2>3. n + 1 \in 1..Len(f) /\ n + 1 \in 0..Len(f) /\ (n + 1) - 1 = n /\ m \in 0..(n + 1) /\ m + 1 \in 0..(n + 1)
    BY <1>0
  <2>4. Offsets(f)[n + 1] = After(f, p)
    BY <2>1, <2>3, OffsetsIs
  <2>5. CASE HasHeader(f, p)
    <3>1. Reached(f, m + 1, ValEnd(f, p))
      BY <2>2, <2>5, ReachedMore
    <3> QED
      BY <2>3, <2>4, <2>5, <3>1 DEF After
  <2>6. CASE ~HasHeader(f, p)
    BY <2>2, <2>3, <2>4, <2>6 DEF After
  <2> QED
    BY <2>5, <2>6
<1> HIDE DEF S
<1>3. \A n \in 0..Len(f) : n \in S
  BY <1>0, <1>1, <1>2, InductionTo
<1> QED
  BY <1>3 DEF S

\* Where appending begins is reached, and nothing behind it is.
LEMMA AppendAt ==
  ASSUME NEW f \in Seq(CellSet)
  PROVE  /\ PrepareForAppend(f) \in Nat
         /\ \E n : Reached(f, n, PrepareForAppend(f))
         /\ \A n, w : Reached(f, n, w) => w <= PrepareForAppend(f)
<1> DEFINE O == Offsets(f)
           l == Len(f)
<1>0. l \in Nat /\ PrepareForAppend(f) = O[l] /\ l \in 0..l
  BY OffsetsIs DEF PrepareForAppend
<1>1. O[l] \in Nat /\ \A n \in 0..l : O[n] \in Nat
  BY <1>0, OffsetsIs
<1>2. \E n : Reached(f, n, O[l])
  BY <1>0, ReachedSome
<1>3. ASSUME NEW n \in 0..l
      PROVE  \A m \in 0..(l - n) : O[n] <= O[n + m]
  <2> DEFINE S == {m \in 0..(l - n) : O[n] <= O[n + m]}
  <2>0. l - n \in Nat /\ n \in Nat /\ n + 0 = n
    BY <1>0
  <2>1. 0 \in S
    BY <1>1, <2>0
  <2>2. ASSUME NEW m \in 0..((l - n) - 1), m \in S PROVE m + 1 \in S
    <3>1. n + m \in 0..l /\ n + (m + 1) \in 1..l /\ (n + (m + 1)) - 1 = n + m /\ m + 1 \in 0..(l - n)
      BY <1>0
    <3>2. PICK p, q, r : p = O[n] /\ q = O[n + m] /\ r = O[n + (m + 1)]
      OBVIOUS
    <3>3. p \in Nat /\ q \in Nat /\ p <= q /\ r = After(f, q)
      BY <1>1, <2>2, <3>1, <3>2, OffsetsIs
    <3>4. r \in Nat /\ r >= q
      BY <3>3, AfterIs
    <3>5. p <= r
      BY <3>3, <3>4
    <3> QED
      BY <3>1, <3>2, <3>5
  <2> HIDE DEF S
  <2>3. \A m \in 0..(l - n) : m \in S
    BY <2>0, <2>1, <2>2, InductionTo
  <2> QED
    BY <2>3 DEF S
<1>4. ASSUME NEW n, NEW w, Reached(f, n, w) PROVE w <= O[l]
  <2>1. n \in 0..l /\ w = O[n]
    BY <1>4 DEF Reached
  <2>2. l - n \in 0..(l - n) /\ n + (l - n) = l
    BY <1>0, <2>1
  <2> QED
    BY <1>3, <2>1, <2>2
<1> QED
  BY <1>0, <1>1, <1>2, <1>4

\* g is f with the cells c written at p.
Written(f, p, c, g) ==
  /\ g \in Seq(CellSet) /\ Len(g) >= Len(f)
  /\ (\A i \in 1..Len(g) : i <= p => g[i] = IF i <= Len(f) THEN f[i] ELSE Zero)
  /\ \A i \in 1..Len(c) : p + i \in 1..Len(g) /\ g[p + i] = c[i]

LEMMA OverwriteIs ==
  ASSUME NEW f \in Seq(CellSet), NEW p \in Nat, NEW c \in Seq(CellSet)
  PROVE  Written(f, p, c, Overwrite(f, p, c))
<1>1. PICK l, k, e : l = Len(f) /\ k = Len(c) /\ e = IF c = << >> THEN 0 ELSE p + k
  OBVIOUS
<1>2. l \in Nat /\ k \in Nat /\ e \in Nat /\ (k > 0 => e = p + k)
  <2>1. l \in Nat /\ k \in Nat /\ (c = << >> => k = 0)
    BY <1>1, LenProperties, EmptySeq
  <2> QED
    BY <1>1, <2>1
<1>3. PICK m : m = Max({l, e})
  OBVIOUS
<1>4. m \in Nat /\ m >= l /\ m >= e
  <2>1. m = IF l >= e THEN l ELSE e
    BY <1>2, <1>3, MaxIs
  <2> QED
    BY <1>2, <2>1
<1> DEFINE g == [i \in 1..m |-> IF i \in p + 1 .. p + k THEN c[i - p] ELSE IF i <= l THEN f[i] ELSE Zero]
<1>5. Overwrite(f, p, c) = g
  BY <1>1, <1>3 DEF Overwrite
<1>6. g \in [1..m -> CellSet]
  <2>1. ASSUME NEW i \in 1..m
        PROVE  (IF i \in p + 1 .. p + k THEN c[i - p] ELSE IF i <= l THEN f[i] ELSE Zero) \in CellSet
    <3>1. CASE i \in p + 1 .. p + k
      <4>1. i - p \in 1..k
        BY <1>2, <3>1
      <4> QED
        BY <1>1, <3>1, <4>1, ElementOfSeq
    <3>2. CASE i \notin p + 1 .. p + k /\ i <= l
      <4>1. i \in 1..l
        BY <1>2, <3>2
      <4> QED
        BY <1>1, <3>2, <4>1, ElementOfSeq
    <3>3. CASE i \notin p + 1 .. p + k /\ ~(i <= l)
      BY <3>3 DEF CellSet
    <3> QED
      BY <3>1, <3>2, <3>3
  <2> QED
    BY <2>1
<1>7. ASSUME NEW i \in 1..m, i <= p PROVE g[i] = IF i <= l THEN f[i] ELSE Zero
  <2>1. i \notin p + 1 .. p + k
    BY <1>2, <1>4, <1>7
  <2> QED
    BY <2>1
<1>8. ASSUME NEW i \in 1..k PROVE p + i \in 1..m /\ g[p + i] = c[i]
  <2>1. p + i \in 1..m /\ p + i \in p + 1 .. p + k /\ (p + i) - p = i
    BY <1>2, <1>4
  <2> QED
    BY <2>1
<1> HIDE DEF g
<1>9. g \in Seq(CellSet) /\ Len(g) = m
  BY <1>4, <1>6, SeqFrom
<1> QED
  BY <1>1, <1>4, <1>5, <1>7, <1>8, <1>9 DEF Written

LEMMA WrittenAgree ==
  ASSUME NEW f \in Seq(CellSet), NEW p \in Nat, NEW c, NEW g, Written(f, p, c, g)
  PROVE  Agree(f, g, p)
<1>1. Len(f) \in Nat /\ Len(g) \in Nat /\ Len(g) >= Len(f)
  BY LenProperties DEF Written
<1>2. ASSUME NEW i \in 1..Len(f), i <= p PROVE i \in 1..Len(g) /\ g[i] = f[i]
  <2>1. i \in 1..Len(g) /\ i <= Len(f)
    BY <1>1
  <2> QED
    BY <1>2, <2>1 DEF Written
<1> QED
  BY <1>2 DEF Agree

\* More is written at the same place.
LEMMA WrittenMore ==
  ASSUME NEW f \in Seq(CellSet), NEW p \in Nat, NEW c, NEW d \in Seq(CellSet), NEW g, NEW h,
         Written(f, p, c, g), Written(f, p, d, h), d # << >>, Len(c) \in Nat, Len(c) <= Len(d),
         \A i \in 1..Len(c) : d[i] = c[i]
  PROVE  Agree(g, h, p + Len(c))
<1>1. PICK a, b, k : a = Len(g) /\ b = Len(h) /\ k = Len(c)
  OBVIOUS
<1>2. a \in Nat /\ b \in Nat /\ k \in Nat /\ Len(d) \in Nat /\ Len(d) # 0 /\ k <= Len(d)
  BY <1>1, LenProperties, EmptySeq DEF Written
<1>3. p + 1 \in 1..b
  <2>1. 1 \in 1..Len(d)
    BY <1>2
  <2> QED
    BY <1>1, <2>1 DEF Written
<1>4. ASSUME NEW i \in 1..a, i <= p + k PROVE i \in 1..b /\ h[i] = g[i]
  <2>1. CASE i <= p
    <3>1. i \in 1..b
      BY <1>2, <1>3, <2>1
    <3> QED
      BY <1>1, <2>1, <3>1 DEF Written
  <2>2. CASE i > p
    <3>1. PICK j : j = i - p
      OBVIOUS
    <3>2. j \in 1..k /\ j \in 1..Len(d) /\ i = p + j
      BY <1>2, <1>4, <2>2, <3>1
    <3> QED
      BY <1>1, <3>2 DEF Written
  <2> QED
    BY <1>2, <2>1, <2>2
<1> QED
  BY <1>1, <1>4 DEF Agree

(***************************************************************************)
(* Tuples in the file.                                                     *)
(***************************************************************************)
\* The tuple of k lies in f at offset p.
Lies(f, p, k) ==
  /\ k \in Key /\ p \in Nat /\ p + Len(Cells(k)) <= Len(f)
  /\ \A i \in 1..Len(Cells(k)) : f[p + i] = Cells(k)[i]

\* Reading from the start gets to w.
Leads(f, w) == \E n : Reached(f, n, w)

\* t is a tuple that reading finds before w.
Holds(f, t, w) ==
  /\ t \in Key \X Nat /\ Lies(f, t[2], t[1]) /\ Leads(f, t[2])
  /\ t[2] + Len(Cells(t[1])) <= w

\* c lies in f behind p.
LEMMA SliceIs ==
  ASSUME NEW f \in Seq(CellSet), NEW p \in Nat, NEW c \in Seq(CellSet), p + Len(c) <= Len(f),
         \A i \in 1..Len(c) : f[p + i] = c[i]
  PROVE  SubSeq(f, p + 1, p + Len(c)) = c
<1>1. PICK l, s : l = Len(c) /\ s = SubSeq(f, p + 1, p + l)
  OBVIOUS
<1>2. l \in Nat /\ Len(f) \in Nat /\ p + l <= Len(f) /\ p + 1 \in Int /\ p + l \in Int
  BY <1>1, LenProperties
<1>3. \A i \in (p + 1)..(p + l) : f[i] \in CellSet
  <2>1. \A i \in (p + 1)..(p + l) : i \in 1..Len(f)
    BY <1>2
  <2> QED
    BY <2>1, ElementOfSeq
<1>4. /\ s \in Seq(CellSet) /\ Len(s) = (IF p + 1 <= p + l THEN (p + l) - (p + 1) + 1 ELSE 0)
      /\ \A i \in 1..((p + l) - (p + 1) + 1) : s[i] = f[(p + 1) + i - 1]
  BY <1>1, <1>2, <1>3, SubSeqProperties
<1>5. (p + l) - (p + 1) + 1 = l /\ (~(p + 1 <= p + l) => l = 0) /\ \A i \in 1..l : (p + 1) + i - 1 = p + i
  BY <1>2
<1>6. Len(s) = l
  BY <1>4, <1>5
<1>7. \A i \in 1..l : s[i] = c[i]
  BY <1>1, <1>4, <1>5
<1>8. s = c
  BY <1>1, <1>4, <1>6, <1>7, SeqEqual
<1> QED
  BY <1>1, <1>8

\* The tuple of k up to its value.
KeyPart(k, a, b) ==
  /\ Len(Cells(k)) = a + b + 2 /\ Cells(k)[1] = <<"len", a>> /\ Cells(k)[a + 2] = <<"len", b>>
  /\ \A i \in 1..a : Cells(k)[i + 1] = <<"key", k, i>>

LEMMA CellsParts == \A k \in Key : KeyPart(k, keyLen[k], valLen[k])
<1>1. ASSUME NEW k \in Key PROVE KeyPart(k, keyLen[k], valLen[k])
  <2>1. PICK a, b : a = keyLen[k] /\ b = valLen[k]
    OBVIOUS
  <2>2. Len(Cells(k)) = a + b + 2
    BY <2>1, CellsIs
  <2>3. Cells(k)[1] = <<"len", a>>
    BY <2>1, CellsIs
  <2>4. Cells(k)[a + 2] = <<"len", b>>
    BY <2>1, CellsIs
  <2>5. \A i \in 1..a : Cells(k)[i + 1] = <<"key", k, i>>
    BY <2>1, CellsIs
  <2>6. KeyPart(k, a, b)
    BY <2>2, <2>3, <2>4, <2>5 DEF KeyPart
  <2> QED
    BY <2>1, <2>6
<1> QED
  BY <1>1

LEMMA LiesHeader ==
  ASSUME NEW f \in Seq(CellSet), NEW p, NEW k, Lies(f, p, k)
  PROVE  HasHeader(f, p) /\ ValEnd(f, p) = p + Len(Cells(k)) /\ KeyAt(f, p) = KeyCells(k)
<1>1. PICK a, b, c : a = keyLen[k] /\ b = valLen[k] /\ c = Cells(k)
  OBVIOUS
<1>2. /\ k \in Key /\ p \in Nat /\ p + Len(c) <= Len(f) /\ Len(f) \in Nat
      /\ \A i \in 1..Len(c) : f[p + i] = c[i]
  BY <1>1, LenProperties DEF Lies
<1>3. /\ Len(c) = a + b + 2 /\ c[1] = <<"len", a>> /\ c[a + 2] = <<"len", b>>
      /\ \A i \in 1..a : c[i + 1] = <<"key", k, i>>
  <2>1. KeyPart(k, keyLen[k], valLen[k])
    BY <1>2, CellsParts
  <2> QED
    BY <1>1, <2>1 DEF KeyPart
<1>4. /\ a \in Nat \ {0} /\ b \in Nat \ {0} /\ a \in Small /\ b \in Small
      /\ a < TooLarge /\ b < TooLarge /\ TooLarge \in Nat
  BY <1>1, <1>2, LengthsOf
<1>5. 1 \in 1..Len(c) /\ a + 2 \in 1..Len(c) /\ \A i \in 1..a : i + 1 \in 1..Len(c)
  BY <1>3, <1>4
<1>6. f[p + 1] = <<"len", a>> /\ f[p + (a + 2)] = <<"len", b>>
  BY <1>2, <1>3, <1>5
<1>7. LenOf(f[p + 1]) = a /\ LenOf(f[p + (a + 2)]) = b
  BY <1>4, <1>6, LenOfLen
<1>8. KeyEnd(f, p) = p + 1 + a /\ ValStart(f, p) = p + (a + 2)
  BY <1>2, <1>4, <1>7 DEF KeyEnd, ValStart
<1>9. ValEnd(f, p) = p + (a + 2) + b
  BY <1>7, <1>8 DEF ValEnd
<1>10. HasHeader(f, p)
  <2>1. p < Len(f) /\ p + (a + 2) <= Len(f)
    BY <1>2, <1>3, <1>4
  <2> QED
    BY <1>4, <1>7, <1>8, <2>1 DEF HasHeader
<1>11. KeyAt(f, p) = KeyCells(k)
  <2>1. PICK d, q : d = KeyCells(k) /\ q = p + 1
    OBVIOUS
  <2>2. d \in Seq(CellSet) /\ Len(d) = a /\ \A i \in 1..a : d[i] = <<"key", k, i>>
    BY <1>1, <1>2, <2>1, KeyCellsIs
  <2>3. q \in Nat /\ q + 1 = p + 2 /\ q + a = p + 1 + a /\ \A i \in 1..a : q + i = p + (i + 1)
    <3>1. p \in Nat /\ a \in Nat
      BY <1>2, <1>4
    <3> QED
      BY <2>1, <3>1
  <2>4. q + a <= Len(f)
    <3>1. p \in Nat /\ a \in Nat /\ b \in Nat /\ Len(f) \in Nat /\ p + (a + b + 2) <= Len(f)
      BY <1>2, <1>3, <1>4
    <3> QED
      BY <2>1, <3>1
  <2>5. \A i \in 1..a : f[q + i] = d[i]
    BY <1>2, <1>3, <1>5, <2>2, <2>3
  <2>6. SubSeq(f, q + 1, q + a) = d
    BY <2>2, <2>3, <2>4, <2>5, SliceIs
  <2> QED
    BY <1>8, <2>1, <2>3, <2>6 DEF KeyAt
<1>12. p + (a + 2) + b = p + Len(c)
  BY <1>2, <1>3, <1>4
<1> QED
  BY <1>1, <1>9, <1>10, <1>11, <1>12

LEMMA LeadsStays ==
  ASSUME NEW f \in Seq(CellSet), NEW g \in Seq(CellSet), NEW w, NEW v \in Nat, Leads(f, w), Agree(f, g, v),
         w <= v
  PROVE  w \in Nat /\ Leads(g, w)
<1>1. PICK n : Reached(f, n, w)
  BY DEF Leads
<1>2. w \in Nat
  BY <1>1, ReachedBounds
<1>3. Len(f) \in Nat
  BY LenProperties
<1>4. Agree(f, g, w)
  BY <1>2, <1>3 DEF Agree
<1>5. Reached(g, n, w)
  BY <1>1, <1>4, ReachedStays
<1> QED
  BY <1>2, <1>5 DEF Leads

LEMMA CellsLen == \A k \in Key : Len(Cells(k)) \in Nat \ {0} /\ Cells(k) \in Seq(CellSet)
<1>1. ASSUME NEW k \in Key PROVE Len(Cells(k)) \in Nat \ {0} /\ Cells(k) \in Seq(CellSet)
  <2>1. PICK a, b : a = keyLen[k] /\ b = valLen[k]
    OBVIOUS
  <2>2. Len(Cells(k)) = a + b + 2 /\ Cells(k) \in Seq(CellSet)
    BY <2>1, CellsIs
  <2>3. a \in Nat /\ b \in Nat
    BY <2>1, LengthsOf
  <2> QED
    BY <2>2, <2>3
<1> QED
  BY <1>1

LEMMA LiesStays ==
  ASSUME NEW f \in Seq(CellSet), NEW g \in Seq(CellSet), NEW p, NEW k, NEW v \in Nat, Lies(f, p, k),
         Agree(f, g, v), p + Len(Cells(k)) <= v
  PROVE  Lies(g, p, k)
<1>1. PICK c, l : c = Cells(k) /\ l = Len(Cells(k))
  OBVIOUS
<1>2. /\ k \in Key /\ p \in Nat /\ p + l <= Len(f) /\ \A i \in 1..l : f[p + i] = c[i]
  BY <1>1 DEF Lies
<1>3. l \in Nat \ {0} /\ Len(f) \in Nat /\ Len(g) \in Nat
  BY <1>1, <1>2, CellsLen, LenProperties
<1>4. ASSUME NEW i \in 1..l PROVE p + i \in 1..Len(g) /\ g[p + i] = f[p + i]
  <2>1. p + i \in 1..Len(f) /\ p + i <= v
    BY <1>1, <1>2, <1>3
  <2> QED
    BY <2>1 DEF Agree
<1>5. p + l <= Len(g)
  <2>1. l \in 1..l
    BY <1>3
  <2>2. p + l \in 1..Len(g)
    BY <1>4, <2>1
  <2> QED
    BY <1>3, <2>2
<1>6. \A i \in 1..l : g[p + i] = c[i]
  BY <1>2, <1>4
<1> QED
  BY <1>1, <1>2, <1>5, <1>6 DEF Lies

LEMMA HoldsStays ==
  ASSUME NEW f \in Seq(CellSet), NEW g \in Seq(CellSet), NEW t, NEW w \in Nat, NEW v \in Nat, NEW u \in Nat,
         Holds(f, t, w), Agree(f, g, v), w <= v, w <= u
  PROVE  Holds(g, t, u)
<1>1. PICK k, p, l : k = t[1] /\ p = t[2] /\ l = Len(Cells(k))
  OBVIOUS
<1>2. t \in Key \X Nat /\ Lies(f, p, k) /\ Leads(f, p) /\ p + l <= w
  BY <1>1 DEF Holds
<1>3. k \in Key /\ p \in Nat /\ l \in Nat
  <2>1. k \in Key /\ p \in Nat
    BY <1>1, <1>2
  <2> QED
    BY <1>1, <2>1, CellsLen
<1>4. p + l <= v /\ p <= v /\ p + l <= u
  BY <1>2, <1>3
<1>5. Lies(g, p, k) /\ Leads(g, p)
  BY <1>1, <1>2, <1>4, LiesStays, LeadsStays
<1> QED
  BY <1>1, <1>2, <1>4, <1>5 DEF Holds

LEMMA HoldsFound ==
  ASSUME NEW f \in Seq(CellSet), NEW t, NEW w, Holds(f, t, w)
  PROVE  KeyCells(t[1]) \in KeysFound(f) /\ t[2] \in Range(Offsets(f))
         /\ SubSeq(f, t[2] + 1, t[2] + Len(Cells(t[1]))) = Cells(t[1])
<1>1. PICK k, p, l, c : k = t[1] /\ p = t[2] /\ l = Len(Cells(k)) /\ c = Cells(k)
  OBVIOUS
<1>2. t \in Key \X Nat /\ Lies(f, p, k) /\ Leads(f, p)
  BY <1>1 DEF Holds
<1>3. HasHeader(f, p) /\ KeyAt(f, p) = KeyCells(k)
  BY <1>2, LiesHeader
<1>4. PICK n : Reached(f, n, p)
  BY <1>2 DEF Leads
<1>5. p \in Range(Offsets(f))
  <2>1. n \in 0..Len(f) /\ Offsets(f)[n] = p
    BY <1>4 DEF Reached
  <2>2. DOMAIN Offsets(f) = 0..Len(f)
    BY OffsetsIs
  <2> QED
    BY <2>1, <2>2 DEF Range
<1>6. KeyCells(k) \in KeysFound(f)
  BY <1>3, <1>5 DEF KeysFound
<1>7. SubSeq(f, p + 1, p + l) = c
  <2>1. /\ k \in Key /\ p \in Nat /\ \A i \in 1..l : f[p + i] = c[i]
    BY <1>1, <1>2 DEF Lies
  <2>2. l \in Nat /\ c \in Seq(CellSet) /\ l = Len(c)
    BY <1>1, <2>1, CellsLen
  <2>3. p + l <= Len(f)
    BY <1>1, <1>2 DEF Lies
  <2> QED
    BY <2>1, <2>2, <2>3, SliceIs
<1> QED
  BY <1>1, <1>5, <1>6, <1>7

(***************************************************************************)
(* One program after another.                                              *)
(***************************************************************************)
Keeps(T, f, w) == \A t \in T : Holds(f, t, w)

\* The shard f between two programs, T flushed.
Idle(f, T) == f \in Seq(CellSet) /\ Keeps(T, f, PrepareForAppend(f))

\* The file with the cells c at w leads behind them and has the tuples P.
Ahead(f, w, c, P) == Leads(Overwrite(f, w, c), w + Len(c)) /\ Keeps(P, Overwrite(f, w, c), w + Len(c))

\* K has the keys of what earlier programs have flushed and of nothing placed.
NewOnly(P, T, K) == (\A t \in P : KeyCells(t[1]) \notin K) /\ \A t \in T \ P : KeyCells(t[1]) \in K

\* A program has the shard open: c not flushed, P placed, T flushed, K found.
Writing(f, w, c, P, T, K) ==
  /\ f \in Seq(CellSet) /\ w \in Nat /\ c \in Seq(CellSet) /\ Leads(f, w) /\ Keeps(T, f, w)
  /\ Ahead(f, w, c, P)
  /\ NewOnly(P, T, K)

LEMMA OverwriteAgrees ==
  ASSUME NEW f \in Seq(CellSet), NEW p \in Nat, NEW c \in Seq(CellSet), NEW g, g = Overwrite(f, p, c)
  PROVE  g \in Seq(CellSet) /\ Written(f, p, c, g) /\ Agree(f, g, p)
<1>1. Written(f, p, c, g)
  BY OverwriteIs
<1>2. Agree(f, g, p)
  BY <1>1, WrittenAgree
<1> QED
  BY <1>1, <1>2 DEF Written

LEMMA EmptyCells == << >> \in Seq(CellSet) /\ Len(<< >>) = 0
BY EmptySeq

LEMMA AheadNothing ==
  ASSUME NEW f \in Seq(CellSet), NEW w \in Nat, NEW P, Leads(f, w), Keeps(P, f, w)
  PROVE  Ahead(f, w, << >>, P)
<1>1. PICK c, g : c = << >> /\ g = Overwrite(f, w, c)
  OBVIOUS
<1>2. c \in Seq(CellSet) /\ Len(c) = 0 /\ w + Len(c) = w
  BY <1>1, EmptyCells
<1>3. g \in Seq(CellSet) /\ Agree(f, g, w)
  BY <1>1, <1>2, OverwriteAgrees
<1>4. w <= w
  OBVIOUS
<1>5. Leads(g, w)
  BY <1>3, <1>4, LeadsStays
<1>6. Keeps(P, g, w)
  BY <1>3, <1>4, HoldsStays DEF Keeps
<1>7. Ahead(f, w, c, P)
  BY <1>1, <1>2, <1>5, <1>6 DEF Ahead
<1> QED
  BY <1>1, <1>7

LEMMA WritingCreated == Writing(<< >>, 0, << >>, {}, {}, {})
<1>1. PICK f : f = << >>
  OBVIOUS
<1>2. f \in Seq(CellSet) /\ 0 \in Nat
  BY <1>1, EmptyCells
<1>3. Leads(f, 0)
  BY <1>2, ReachedStart DEF Leads
<1>4. Keeps({}, f, 0) /\ NewOnly({}, {}, {})
  BY DEF Keeps, NewOnly
<1>5. Ahead(f, 0, << >>, {})
  BY <1>2, <1>3, <1>4, AheadNothing
<1>6. Writing(f, 0, f, {}, {}, {})
  BY <1>1, <1>2, <1>3, <1>4, <1>5 DEF Writing
<1> QED
  BY <1>1, <1>6

LEMMA WritingOpened ==
  ASSUME NEW f, NEW T, Idle(f, T)
  PROVE  Writing(f, PrepareForAppend(f), << >>, {}, T, KeysFound(f))
<1>1. PICK w, K : w = PrepareForAppend(f) /\ K = KeysFound(f)
  OBVIOUS
<1>2. f \in Seq(CellSet) /\ Keeps(T, f, w)
  BY <1>1 DEF Idle
<1>3. w \in Nat /\ Leads(f, w)
  BY <1>1, <1>2, AppendAt DEF Leads
<1>4. Keeps({}, f, w)
  BY DEF Keeps
<1>5. Ahead(f, w, << >>, {})
  BY <1>2, <1>3, <1>4, AheadNothing
<1>6. NewOnly({}, T, K)
  BY <1>1, <1>2, HoldsFound DEF Keeps, NewOnly
<1>7. PICK c : c = << >>
  OBVIOUS
<1>8. c \in Seq(CellSet) /\ Ahead(f, w, c, {})
  BY <1>5, <1>7, EmptyCells
<1>9. Writing(f, w, c, {}, T, K)
  BY <1>2, <1>3, <1>4, <1>6, <1>8 DEF Writing
<1> QED
  BY <1>1, <1>7, <1>9

\* Whatever part of the cells gets into the file.
LEMMA WritingClosed ==
  ASSUME NEW f, NEW w, NEW c, NEW P, NEW T, NEW K, Writing(f, w, c, P, T, K), NEW d \in Seq(CellSet)
  PROVE  Idle(Overwrite(f, w, d), T)
<1>1. PICK g : g = Overwrite(f, w, d)
  OBVIOUS
<1>2. f \in Seq(CellSet) /\ w \in Nat /\ Leads(f, w) /\ Keeps(T, f, w)
  BY DEF Writing
<1>3. g \in Seq(CellSet) /\ Agree(f, g, w)
  BY <1>1, <1>2, OverwriteAgrees
<1>4. w <= w
  BY <1>2
<1>5. Leads(g, w)
  BY <1>2, <1>3, <1>4, LeadsStays
<1>6. PICK q : q = PrepareForAppend(g)
  OBVIOUS
<1>7. q \in Nat /\ w <= q
  BY <1>3, <1>5, <1>6, AppendAt DEF Leads
<1>8. Keeps(T, g, q)
  BY <1>2, <1>3, <1>4, <1>7, HoldsStays DEF Keeps
<1> QED
  BY <1>1, <1>3, <1>6, <1>8 DEF Idle

LEMMA WritingFlushed ==
  ASSUME NEW f, NEW w, NEW c, NEW P, NEW T, NEW K, Writing(f, w, c, P, T, K)
  PROVE  Writing(Overwrite(f, w, c), w + Len(c), << >>, P, T \cup P, K)
<1>1. PICK g, e, d, U : g = Overwrite(f, w, c) /\ e = w + Len(c) /\ d = << >> /\ U = T \cup P
  OBVIOUS
<1>2. /\ f \in Seq(CellSet) /\ w \in Nat /\ c \in Seq(CellSet) /\ Leads(f, w) /\ Keeps(T, f, w)
      /\ NewOnly(P, T, K)
  BY <1>1 DEF Writing
<1>3. Leads(g, e) /\ Keeps(P, g, e)
  BY <1>1 DEF Writing, Ahead
<1>4. g \in Seq(CellSet) /\ Agree(f, g, w)
  BY <1>1, <1>2, OverwriteAgrees
<1>5. e \in Nat /\ w <= e /\ w <= w
  <2>1. Len(c) \in Nat
    BY <1>2, LenProperties
  <2> QED
    BY <1>1, <1>2, <2>1
<1>6. Keeps(T, g, e)
  BY <1>2, <1>4, <1>5, HoldsStays DEF Keeps
<1>7. Keeps(U, g, e)
  BY <1>1, <1>3, <1>6 DEF Keeps
<1>8. Ahead(g, e, d, P)
  BY <1>1, <1>3, <1>4, <1>5, AheadNothing
<1>9. NewOnly(P, U, K)
  BY <1>1, <1>2 DEF NewOnly
<1>10. d \in Seq(CellSet)
  BY <1>1, EmptyCells
<1>11. Writing(g, e, d, P, U, K)
  BY <1>2, <1>3, <1>4, <1>5, <1>7, <1>8, <1>9, <1>10 DEF Writing
<1> QED
  BY <1>1, <1>11

LEMMA AheadMore ==
  ASSUME NEW f \in Seq(CellSet), NEW w \in Nat, NEW c \in Seq(CellSet), NEW P, NEW k \in Key, Ahead(f, w, c, P)
  PROVE  Ahead(f, w, c \o Cells(k), P \cup {<<k, w + Len(c)>>})
<1>1. PICK s, d, e, g, h, t : /\ s = Cells(k) /\ d = c \o s /\ e = w + Len(c) /\ g = Overwrite(f, w, c)
                              /\ h = Overwrite(f, w, d) /\ t = <<k, e>>
  OBVIOUS
<1>2. s \in Seq(CellSet) /\ Len(s) \in Nat \ {0}
  BY <1>1, CellsLen
<1>3. d \in Seq(CellSet) /\ Joined(d, c, s)
  BY <1>1, <1>2, JoinedIs
<1>4. /\ Len(d) = Len(c) + Len(s) /\ Len(c) \in Nat /\ \A i \in 1..Len(c) : d[i] = c[i]
      /\ \A i \in 1..Len(s) : d[Len(c) + i] = s[i]
  BY <1>3 DEF Joined
<1>5. d # << >> /\ Len(c) <= Len(d) /\ e \in Nat
  <2>1. Len(d) # 0 /\ Len(c) <= Len(d) /\ e \in Nat
    BY <1>1, <1>2, <1>4
  <2> QED
    BY <2>1, EmptyCells
<1>6. /\ g \in Seq(CellSet) /\ h \in Seq(CellSet) /\ Written(f, w, c, g) /\ Written(f, w, d, h)
  BY <1>1, <1>3, OverwriteAgrees
<1>7. Agree(g, h, e)
  BY <1>1, <1>3, <1>4, <1>5, <1>6, WrittenMore
<1>8. Leads(g, e) /\ Keeps(P, g, e)
  BY <1>1 DEF Ahead
<1>9. PICK u : u = w + Len(d)
  OBVIOUS
<1>10. u \in Nat /\ e <= u /\ u = e + Len(s) /\ e <= e
  BY <1>1, <1>2, <1>4, <1>9
<1>11. Keeps(P, h, u)
  BY <1>5, <1>6, <1>7, <1>8, <1>10, HoldsStays DEF Keeps
<1>12. Leads(h, e)
  BY <1>5, <1>6, <1>7, <1>8, <1>10, LeadsStays
<1>13. Lies(h, e, k)
  <2>1. \A i \in 1..Len(d) : w + i \in 1..Len(h) /\ h[w + i] = d[i]
    BY <1>6 DEF Written
  <2>2. ASSUME NEW i \in 1..Len(s) PROVE e + i \in 1..Len(h) /\ h[e + i] = s[i]
    <3>1. Len(c) + i \in 1..Len(d) /\ w + (Len(c) + i) = e + i
      BY <1>1, <1>2, <1>4
    <3> QED
      BY <1>4, <2>1, <3>1
  <2>3. e + Len(s) <= Len(h)
    <3>1. Len(s) \in 1..Len(s) /\ Len(h) \in Nat
      BY <1>2, <1>6, LenProperties
    <3>2. e + Len(s) \in 1..Len(h)
      BY <2>2, <3>1
    <3> QED
      BY <3>1, <3>2
  <2> QED
    BY <1>1, <1>5, <2>2, <2>3 DEF Lies
<1>14. Leads(h, u)
  <2>1. HasHeader(h, e) /\ ValEnd(h, e) = u
    BY <1>1, <1>6, <1>10, <1>13, LiesHeader
  <2>2. PICK n : Reached(h, n, e)
    BY <1>12 DEF Leads
  <2>3. Reached(h, n + 1, u)
    BY <1>6, <2>1, <2>2, ReachedMore
  <2> QED
    BY <2>3 DEF Leads
<1>15. Holds(h, t, u)
  <2>1. t \in Key \X Nat /\ t[1] = k /\ t[2] = e
    BY <1>1, <1>5
  <2>2. e + Len(Cells(k)) <= u
    BY <1>1, <1>10
  <2> QED
    BY <1>12, <1>13, <2>1, <2>2 DEF Holds
<1>16. Keeps(P \cup {t}, h, u)
  BY <1>11, <1>15 DEF Keeps
<1>17. Ahead(f, w, d, P \cup {t})
  BY <1>1, <1>9, <1>14, <1>16 DEF Ahead
<1> QED
  BY <1>1, <1>17

LEMMA WritingInserted ==
  ASSUME NEW f, NEW w, NEW c, NEW P, NEW T, NEW K, Writing(f, w, c, P, T, K), NEW k \in Key,
         KeyCells(k) \notin K
  PROVE  Writing(f, w, c \o Cells(k), P \cup {<<k, w + Len(c)>>}, T, K)
<1>1. PICK d, u, Q : d = c \o Cells(k) /\ u = <<k, w + Len(c)>> /\ Q = P \cup {u}
  OBVIOUS
<1>2. /\ f \in Seq(CellSet) /\ w \in Nat /\ c \in Seq(CellSet) /\ Leads(f, w) /\ Keeps(T, f, w)
      /\ Ahead(f, w, c, P)
      /\ NewOnly(P, T, K)
  BY DEF Writing
<1>3. d \in Seq(CellSet)
  BY <1>1, <1>2, CellsLen, ConcatProperties
<1>4. Ahead(f, w, d, Q)
  BY <1>1, <1>2, AheadMore
<1>5. u[1] = k
  BY <1>1
<1>6. NewOnly(Q, T, K)
  BY <1>1, <1>2, <1>5 DEF NewOnly
<1>7. Writing(f, w, d, Q, T, K)
  BY <1>2, <1>3, <1>4, <1>6 DEF Writing
<1> QED
  BY <1>1, <1>7

(***************************************************************************)
(* The invariant of the writers, one lemma per action.                     *)
(***************************************************************************)
\* What every state of the writers satisfies.
ShardInv ==
  /\ mode \in {"none", "write", "flush"} /\ session \in Nat
  /\ session = 0 => mode = "none" /\ flushed = {}
  /\ mode = "none" => Idle(file, flushed) /\ placed = {}
  /\ mode # "none" => /\ pending \in Seq(CellSet) /\ buf \in Seq(CellSet)
                      /\ Writing(file, wpos, pending \o buf, placed, flushed, keys)
  /\ mode = "flush" => buf = << >>

LEMMA ShardInvInit == Init => ShardInv
<1> SUFFICES ASSUME Init PROVE ShardInv
  OBVIOUS
<1>1. file = << >> /\ mode = "none" /\ session = 0 /\ flushed = {} /\ placed = {}
  BY DEF Init, ShardInit
<1>2. file \in Seq(CellSet) /\ Keeps(flushed, file, PrepareForAppend(file))
  BY <1>1, EmptyCells DEF Keeps
<1> QED
  BY <1>1, <1>2 DEF ShardInv, Idle

LEMMA OpenKeeps ==
  ASSUME ShardInv, NEW f, NEW K, NEW w, OpenWith(f, K, w), Writing(f, w, << >>, {}, flushed, K)
  PROVE  ShardInv'
<1>1. /\ mode = "none" /\ mode' = "write" /\ session' = session + 1 /\ file' = f /\ keys' = K /\ wpos' = w
      /\ buf' = << >> /\ pending' = << >> /\ placed' = {} /\ flushed' = flushed
  BY DEF OpenWith
<1>2. session' \in Nat /\ session' # 0 /\ mode' # "none"
  BY <1>1 DEF ShardInv
<1>3. << >> \o << >> = << >> /\ << >> \in Seq(CellSet)
  BY EmptyCells, ConcatEmptySeq
<1>4. pending' \o buf' = << >>
  BY <1>1, <1>3
<1>5. Writing(file', wpos', pending' \o buf', placed', flushed', keys')
  BY <1>1, <1>4
<1> QED
  BY <1>1, <1>2, <1>3, <1>5 DEF ShardInv

LEMMA InsertKeeps ==
  ASSUME ShardInv, NEW k \in Key, Insert(k)
  PROVE  ShardInv'
<1>1. PICK s, a, b, c : s = Cells(k) /\ a = pending /\ b = buf /\ c = a \o b
  OBVIOUS
<1>2. /\ mode = "write" /\ KeyCells(k) \notin keys
      /\ placed' = placed \cup {<<k, wpos + Len(a) + Len(b)>>}
      /\ file' = file /\ mode' = mode /\ session' = session /\ keys' = keys /\ wpos' = wpos /\ flushed' = flushed
  BY <1>1 DEF Insert
<1>3. a \in Seq(CellSet) /\ b \in Seq(CellSet) /\ Writing(file, wpos, c, placed, flushed, keys)
  BY <1>1, <1>2 DEF ShardInv
<1>4. s \in Seq(CellSet) /\ c \in Seq(CellSet) /\ << >> \in Seq(CellSet)
  BY <1>1, <1>3, CellsLen, ConcatProperties, EmptyCells
<1>5. \/ pending' = c /\ buf' = << >> \o s
      \/ pending' = a /\ buf' = b \o s
  BY <1>1 DEF Insert
<1>6. pending' \in Seq(CellSet) /\ buf' \in Seq(CellSet) /\ pending' \o buf' = c \o s
  <2>1. CASE pending' = c /\ buf' = << >> \o s
    <3>1. << >> \o s = s
      BY <1>4, ConcatEmptySeq
    <3> QED
      BY <1>4, <2>1, <3>1
  <2>2. CASE pending' = a /\ buf' = b \o s
    <3>1. b \o s \in Seq(CellSet)
      BY <1>3, <1>4, ConcatProperties
    <3>2. a \in Seq(CellSet) /\ b \in Seq(CellSet) /\ s \in Seq(CellSet)
      BY <1>3, <1>4
    <3>3. a \o (b \o s) = (a \o b) \o s
      BY <3>2, ConcatAssociative
    <3> QED
      BY <1>1, <2>2, <3>1, <3>2, <3>3
  <2> QED
    BY <1>5, <2>1, <2>2
<1>7. wpos + Len(a) + Len(b) = wpos + Len(c)
  <2>1. Len(c) = Len(a) + Len(b) /\ Len(a) \in Nat /\ Len(b) \in Nat
    BY <1>1, <1>3, ConcatProperties, LenProperties
  <2>2. wpos \in Nat
    BY <1>3 DEF Writing
  <2> QED
    BY <2>1, <2>2
<1>8. Writing(file, wpos, c \o s, placed \cup {<<k, wpos + Len(c)>>}, flushed, keys)
  BY <1>1, <1>2, <1>3, WritingInserted
<1>9. Writing(file', wpos', pending' \o buf', placed', flushed', keys')
  BY <1>2, <1>6, <1>7, <1>8
<1>10. session' \in Nat /\ mode' = "write" /\ session' # 0
  BY <1>2 DEF ShardInv
<1> QED
  BY <1>6, <1>9, <1>10 DEF ShardInv

LEMMA FlushWriteKeeps ==
  ASSUME ShardInv, FlushWrite
  PROVE  ShardInv'
<1>1. PICK c : c = pending \o buf
  OBVIOUS
<1>2. /\ mode = "write" /\ mode' = "flush" /\ pending' = c /\ buf' = << >>
      /\ file' = file /\ session' = session /\ keys' = keys /\ wpos' = wpos /\ placed' = placed
      /\ flushed' = flushed
  BY <1>1 DEF FlushWrite
<1>3. /\ pending \in Seq(CellSet) /\ buf \in Seq(CellSet) /\ Writing(file, wpos, c, placed, flushed, keys)
  BY <1>1, <1>2 DEF ShardInv
<1>4. c \in Seq(CellSet) /\ << >> \in Seq(CellSet)
  BY <1>3, EmptyCells DEF Writing
<1>5. c \o << >> = c
  BY <1>4, ConcatEmptySeq
<1>6. Writing(file', wpos', pending' \o buf', placed', flushed', keys')
  BY <1>2, <1>3, <1>5
<1>7. session' \in Nat /\ session' # 0
  BY <1>2 DEF ShardInv
<1> QED
  BY <1>2, <1>4, <1>6, <1>7 DEF ShardInv

LEMMA FlushKeeps ==
  ASSUME ShardInv, Flush
  PROVE  ShardInv'
<1>1. PICK c : c = pending
  OBVIOUS
<1>2. /\ mode = "flush" /\ mode' = "write" /\ file' = Overwrite(file, wpos, c) /\ wpos' = wpos + Len(c)
      /\ pending' = << >> /\ flushed' = flushed \cup placed
      /\ session' = session /\ keys' = keys /\ buf' = buf /\ placed' = placed
  BY <1>1 DEF Flush
<1>3. c \in Seq(CellSet) /\ buf = << >> /\ Writing(file, wpos, c \o buf, placed, flushed, keys)
  BY <1>1, <1>2 DEF ShardInv
<1>4. c \o buf = c
  BY <1>3, ConcatEmptySeq
<1>5. Writing(Overwrite(file, wpos, c), wpos + Len(c), << >>, placed, flushed \cup placed, keys)
  BY <1>3, <1>4, WritingFlushed
<1>6. << >> \o << >> = << >> /\ << >> \in Seq(CellSet)
  BY EmptyCells, ConcatEmptySeq
<1>7. pending' \o buf' = << >>
  BY <1>2, <1>3, <1>6
<1>8. Writing(file', wpos', pending' \o buf', placed', flushed', keys')
  BY <1>2, <1>5, <1>7
<1>9. session' \in Nat /\ mode' = "write" /\ session' # 0
  BY <1>2 DEF ShardInv
<1> QED
  BY <1>2, <1>3, <1>6, <1>8, <1>9 DEF ShardInv

LEMMA CloseKeeps ==
  ASSUME ShardInv, NEW d \in Seq(CellSet), mode # "none", Close(d)
  PROVE  ShardInv'
<1>1. /\ mode' = "none" /\ file' = Overwrite(file, wpos, d)
      /\ session' = session /\ flushed' = flushed /\ placed' = {}
  BY DEF Close
<1>2. Writing(file, wpos, pending \o buf, placed, flushed, keys)
  BY <1>1 DEF ShardInv
<1>3. Idle(Overwrite(file, wpos, d), flushed)
  BY <1>2, WritingClosed
<1>4. Idle(file', flushed')
  BY <1>1, <1>3
<1>5. session' \in Nat /\ session' # 0
  BY <1>1 DEF ShardInv
<1> QED
  BY <1>1, <1>4, <1>5 DEF ShardInv

LEMMA WriterKeeps == ShardInv /\ WriterStep => ShardInv'
<1> SUFFICES ASSUME ShardInv, WriterStep PROVE ShardInv'
  OBVIOUS
<1>1. CASE OpenCreate
  <2>1. session = 0 /\ OpenWith(<< >>, {}, 0)
    BY <1>1 DEF OpenCreate
  <2>2. flushed = {}
    BY <2>1 DEF ShardInv
  <2>3. Writing(<< >>, 0, << >>, {}, flushed, {})
    BY <2>2, WritingCreated
  <2> QED
    BY <2>1, <2>3, OpenKeeps
<1>2. CASE OpenAppend
  <2>1. OpenWith(file, KeysFound(file), PrepareForAppend(file))
    BY <1>2 DEF OpenAppend
  <2>2. Idle(file, flushed)
    BY <2>1 DEF ShardInv, OpenWith
  <2>3. Writing(file, PrepareForAppend(file), << >>, {}, flushed, KeysFound(file))
    BY <2>2, WritingOpened
  <2> QED
    BY <2>1, <2>3, OpenKeeps
<1>3. ASSUME NEW k \in Key, Insert(k) PROVE ShardInv'
  BY <1>3, InsertKeeps
<1>4. CASE FlushWrite \/ Flush
  BY <1>4, FlushWriteKeeps, FlushKeeps
<1>5. CASE Destroy
  <2>1. mode # "none" /\ pending \in Seq(CellSet)
    BY <1>5 DEF Destroy, ShardInv
  <2> QED
    BY <1>5, <2>1, CloseKeeps DEF Destroy
<1>6. CASE Crash
  <2>1. PICK n \in 0..Len(pending) : mode # "none" /\ Close(SubSeq(pending, 1, n))
    BY <1>6 DEF Crash
  <2>2. pending \in Seq(CellSet)
    BY <2>1 DEF ShardInv
  <2>3. SubSeq(pending, 1, n) \in Seq(CellSet)
    <3>1. Len(pending) \in Nat
      BY <2>2, LenProperties
    <3>2. \A i \in 1..n : i \in 1..Len(pending)
      BY <3>1
    <3>3. \A i \in 1..n : pending[i] \in CellSet
      BY <2>2, <3>2, ElementOfSeq
    <3>4. 1 \in Int /\ n \in Int
      BY <3>1
    <3> QED
      BY <3>3, <3>4, SubSeqProperties
  <2> QED
    BY <2>1, <2>3, CloseKeeps
<1>7. CASE OpenAppendOverrun
  <2>1. /\ mode = "none" /\ session' = session + 1 /\ file' = file /\ mode' = mode /\ placed' = placed
        /\ flushed' = flushed
    BY <1>7 DEF OpenAppendOverrun
  <2>2. session' \in Nat /\ session' # 0 /\ Idle(file, flushed) /\ placed = {}
    BY <2>1 DEF ShardInv
  <2> QED
    BY <2>1, <2>2 DEF ShardInv
<1> QED
  BY <1>1, <1>2, <1>3, <1>4, <1>5, <1>6, <1>7 DEF WriterStep

LEMMA ShardInvStays == ASSUME ShardInv, UNCHANGED shardVars PROVE ShardInv'
<1>1. /\ file' = file /\ mode' = mode /\ session' = session /\ keys' = keys /\ buf' = buf /\ pending' = pending
      /\ wpos' = wpos /\ placed' = placed /\ flushed' = flushed
  BY DEF shardVars
<1> QED
  BY <1>1 DEF ShardInv

LEMMA OtherSteps == ASSUME MainStep \/ ThreadStep PROVE UNCHANGED shardVars
<1>1. CASE MainStep
  BY <1>1 DEF MainStep, Setup, PrefetchNow, JoinAndCopy, Forward, Stop
<1>2. CASE ThreadStep
  BY <1>2 DEF ThreadStep, DrawSkip, SkipRecord, ReadRecord, ParseRecords
<1> QED
  BY <1>1, <1>2

LEMMA ShardInvariant == Spec => []ShardInv
<1>1. Init => ShardInv
  BY ShardInvInit
<1>2. ShardInv /\ [Next]_vars => ShardInv'
  <2> SUFFICES ASSUME ShardInv, [Next]_vars PROVE ShardInv'
    OBVIOUS
  <2>1. CASE main = "none" /\ WriterStep /\ UNCHANGED pipeVars
    BY <2>1, WriterKeeps
  <2>2. CASE MainStep \/ ThreadStep
    BY <2>2, OtherSteps, ShardInvStays
  <2>3. CASE main \in {"stopped", "fatal"} /\ UNCHANGED <<shardVars, pipeVars>>
    BY <2>3, ShardInvStays
  <2>4. CASE UNCHANGED vars
    BY <2>4, ShardInvStays DEF vars
  <2> QED
    BY <2>1, <2>2, <2>3, <2>4 DEF Next
<1> QED
  BY <1>1, <1>2, PTL DEF Spec

LEMMA ShardKept == ShardInv => \E w : Keeps(flushed, file, w) /\ file \in Seq(CellSet)
<1> SUFFICES ASSUME ShardInv PROVE \E w : Keeps(flushed, file, w) /\ file \in Seq(CellSet)
  OBVIOUS
<1>1. CASE mode = "none"
  BY <1>1 DEF ShardInv, Idle
<1>2. CASE mode # "none"
  <2>1. Writing(file, wpos, pending \o buf, placed, flushed, keys)
    BY <1>2 DEF ShardInv
  <2> QED
    BY <2>1 DEF Writing
<1> QED
  BY <1>1, <1>2

\* Whatever programs write the shard one after another, wherever they crash
\* and however much of what they gave to write reaches the file: every tuple
\* a program has flushed stays whole and in reach of a reader.
THEOREM ShardFlushedStays == Spec => []FlushedStays
<1>1. ShardInv => FlushedStays
  <2> SUFFICES ASSUME ShardInv PROVE FlushedStays
    OBVIOUS
  <2>1. PICK w : Keeps(flushed, file, w) /\ file \in Seq(CellSet)
    BY ShardKept
  <2>2. ASSUME NEW t \in flushed
        PROVE  /\ t[2] \in Range(Offsets(file))
               /\ SubSeq(file, t[2] + 1, t[2] + Len(Cells(t[1]))) = Cells(t[1])
    <3>1. Holds(file, t, w)
      BY <2>1 DEF Keeps
    <3> QED
      BY <2>1, <3>1, HoldsFound
  <2> QED
    BY <2>2 DEF FlushedStays
<1> QED
  BY <1>1, ShardInvariant, PTL

\* A program that appends to the shard of earlier ones, wherever they have
\* crashed, inside Flush too, finds the keys of all they have flushed and
\* adds none of their records again.
THEOREM ShardNoReplicatedRecord == Spec => []NoReplicatedRecord
<1>1. ShardInv => NoReplicatedRecord
  <2> SUFFICES ASSUME ShardInv PROVE NoReplicatedRecord
    OBVIOUS
  <2>1. CASE mode = "none"
    BY <2>1 DEF ShardInv, NoReplicatedRecord
  <2>2. CASE mode # "none"
    <3>1. NewOnly(placed, flushed, keys)
      BY <2>2 DEF ShardInv, Writing
    <3> QED
      BY <3>1 DEF NewOnly, NoReplicatedRecord
  <2> QED
    BY <2>1, <2>2
<1> QED
  BY <1>1, ShardInvariant, PTL

(***************************************************************************)
(* Behind the last whole tuple of a file there is only text.               *)
(***************************************************************************)
\* Behind p there is only text.
Text(f, p) == \A i \in 1..Len(f) : i > p => LenOf(f[i]) = TooLarge

\* A tuple has a value, and what follows a cut one is text.
Good(f, p) ==
  /\ HasHeader(f, p) => /\ LenOf(f[ValStart(f, p)]) > 0
                        /\ ValEnd(f, p) > Len(f) => Text(f, ValStart(f, p))
  /\ ~HasHeader(f, p) => Text(f, p + 1)

Clean(f) == \A n, w : Reached(f, n, w) => Good(f, w)

\* d is a first part of c.
IsPart(d, c) == /\ d \in Seq(CellSet) /\ Len(d) <= Len(c) /\ \A i \in 1..Len(d) : d[i] = c[i]

\* However much of c gets into the file at w.
Tidy(f, w, c) == Text(f, w + 1) /\ \A d : IsPart(d, c) => Clean(Overwrite(f, w, d))

LEMMA TextMore ==
  ASSUME NEW f \in Seq(CellSet), NEW p \in Nat, NEW q \in Nat, Text(f, p), p <= q
  PROVE  Text(f, q)
<1>1. Len(f) \in Nat
  BY LenProperties
<1> QED
  BY <1>1 DEF Text

LEMMA TextNoHeader ==
  ASSUME NEW f \in Seq(CellSet), NEW p \in Nat, Text(f, p)
  PROVE  ~HasHeader(f, p) /\ Good(f, p)
<1>1. Len(f) \in Nat /\ TooLarge \in Nat
  BY LenProperties, LengthsOf
<1>2. ~HasHeader(f, p)
  <2> SUFFICES ASSUME HasHeader(f, p) PROVE FALSE
    OBVIOUS
  <2>1. p < Len(f) /\ LenOf(f[p + 1]) < TooLarge
    BY DEF HasHeader
  <2>2. p + 1 \in 1..Len(f) /\ p + 1 > p
    BY <1>1, <2>1
  <2>3. LenOf(f[p + 1]) = TooLarge
    BY <2>2 DEF Text
  <2> QED
    BY <1>1, <2>1, <2>3
<1>3. Text(f, p + 1)
  <2>1. p + 1 \in Nat /\ p <= p + 1
    OBVIOUS
  <2> QED
    BY <2>1, TextMore
<1> QED
  BY <1>2, <1>3 DEF Good

LEMMA LastNoHeader ==
  ASSUME NEW f \in Seq(CellSet)
  PROVE  ~HasHeader(f, PrepareForAppend(f))
<1> SUFFICES ASSUME HasHeader(f, PrepareForAppend(f)) PROVE FALSE
  OBVIOUS
<1>1. PICK p, v, e : p = PrepareForAppend(f) /\ v = ValStart(f, p) /\ e = ValEnd(f, p)
  OBVIOUS
<1>2. p \in Nat /\ (\E n : Reached(f, n, p)) /\ \A n, w : Reached(f, n, w) => w <= p
  BY <1>1, AppendAt
<1>3. e \in Nat /\ p + 2 <= v /\ v <= e /\ v \in 1..Len(f) /\ Len(f) \in Nat
  BY <1>1, <1>2, HeaderIs
<1>4. PICK n : Reached(f, n, p)
  BY <1>2
<1>5. Reached(f, n + 1, e)
  BY <1>1, <1>4, ReachedMore
<1>6. e <= p
  BY <1>2, <1>5
<1> QED
  BY <1>2, <1>3, <1>6

\* Behind the cells written the file is as it was.
LEMMA OverwriteRest ==
  ASSUME NEW f \in Seq(CellSet), NEW p \in Nat, NEW c \in Seq(CellSet), NEW g, g = Overwrite(f, p, c)
  PROVE  \A i \in 1..Len(g) : i > p + Len(c) => i \in 1..Len(f) /\ g[i] = f[i]
<1>1. PICK l, k, e : l = Len(f) /\ k = Len(c) /\ e = IF c = << >> THEN 0 ELSE p + k
  OBVIOUS
<1>2. l \in Nat /\ k \in Nat /\ e \in Nat /\ e <= p + k
  <2>1. l \in Nat /\ k \in Nat
    BY <1>1, LenProperties
  <2> QED
    BY <1>1, <2>1
<1>3. PICK m : m = Max({l, e})
  OBVIOUS
<1>4. m = (IF l >= e THEN l ELSE e) /\ m \in Nat
  <2>1. m = IF l >= e THEN l ELSE e
    BY <1>2, <1>3, MaxIs
  <2> QED
    BY <1>2, <2>1
<1>5. g = [i \in 1..m |-> IF i \in p + 1 .. p + k THEN c[i - p] ELSE IF i <= l THEN f[i] ELSE Zero]
  BY <1>1, <1>3 DEF Overwrite
<1>6. Len(g) = m
  <2>1. g \in Seq(CellSet)
    BY OverwriteAgrees
  <2>2. DOMAIN g = 1..m /\ DOMAIN g = 1..Len(g) /\ Len(g) \in Nat
    BY <1>5, <2>1, LenProperties
  <2> QED
    BY <1>4, <2>2
<1>7. ASSUME NEW i \in 1..m, i > p + k PROVE i \in 1..l /\ g[i] = f[i]
  <2>1. i <= l /\ i \notin p + 1 .. p + k /\ i \in 1..l
    BY <1>2, <1>4, <1>7
  <2> QED
    BY <1>5, <2>1
<1> QED
  BY <1>1, <1>6, <1>7

LEMMA OverwriteNothing ==
  ASSUME NEW f \in Seq(CellSet), NEW p \in Nat
  PROVE  Overwrite(f, p, << >>) = f
<1>1. PICK c, g, l : c = << >> /\ g = Overwrite(f, p, c) /\ l = Len(f)
  OBVIOUS
<1>2. c \in Seq(CellSet) /\ Len(c) = 0 /\ l \in Nat
  BY <1>1, EmptyCells, LenProperties
<1>3. Max({l, 0}) = l
  BY <1>2, MaxIs
<1>4. g = [i \in 1..l |-> IF i \in p + 1 .. p + 0 THEN c[i - p] ELSE IF i <= l THEN f[i] ELSE Zero]
  BY <1>1, <1>2, <1>3 DEF Overwrite
<1>5. \A i \in 1..l : i \notin p + 1 .. p + 0 /\ i <= l
  BY <1>2
<1>6. g = [i \in 1..l |-> f[i]]
  BY <1>4, <1>5
<1>7. f = [i \in 1..l |-> f[i]]
  BY <1>1, LenProperties
<1> QED
  BY <1>1, <1>6, <1>7

\* The first m cells of the tuple of k are the last that were written to h.
Parted(h, e, k, m) ==
  /\ k \in Key /\ e \in Nat /\ m \in 1..Len(Cells(k)) /\ e + m <= Len(h)
  /\ \A i \in 1..m : h[e + i] = Cells(k)[i]
  /\ Text(h, e + m)

LEMMA CellsText ==
  ASSUME NEW k \in Key, NEW a, NEW b, a = keyLen[k], b = valLen[k]
  PROVE  /\ \A i \in 2..(a + 1) : LenOf(Cells(k)[i]) = TooLarge
         /\ \A i \in (a + 3)..(a + b + 2) : LenOf(Cells(k)[i]) = TooLarge
<1>0. a \in Nat \ {0} /\ b \in Nat \ {0}
  BY LengthsOf
<1>1. PICK c : c = Cells(k)
  OBVIOUS
<1>2. \A i \in 1..a : c[i + 1] = <<"key", k, i>>
  BY <1>1, CellsIs
<1>3. \A i \in 1..b : c[a + 2 + i] = <<"val", k, i>>
  BY <1>1, CellsIs
<1>4. ASSUME NEW i \in 2..(a + 1) PROVE LenOf(c[i]) = TooLarge
  <2>1. PICK j : j = i - 1
    OBVIOUS
  <2>2. j \in 1..a /\ j \in Nat /\ i = j + 1
    BY <1>0, <2>1
  <2>3. c[i] = <<"key", k, j>>
    BY <1>2, <2>2
  <2> QED
    BY <2>2, <2>3, LenOfText
<1>5. ASSUME NEW i \in (a + 3)..(a + b + 2) PROVE LenOf(c[i]) = TooLarge
  <2>1. PICK j : j = i - (a + 2)
    OBVIOUS
  <2>2. j \in 1..b /\ j \in Nat /\ i = a + 2 + j
    BY <1>0, <2>1
  <2>3. c[i] = <<"val", k, j>>
    BY <1>3, <2>2
  <2> QED
    BY <2>2, <2>3, LenOfText
<1> QED
  BY <1>1, <1>4, <1>5

LEMMA PartedText ==
  ASSUME NEW h \in Seq(CellSet), NEW e, NEW k, NEW m, Parted(h, e, k, m), NEW p \in Nat, p <= m,
         \A i \in (p + 1)..m : LenOf(Cells(k)[i]) = TooLarge
  PROVE  Text(h, e + p)
<1>1. e \in Nat /\ m \in Nat /\ Len(h) \in Nat /\ (\A i \in 1..m : h[e + i] = Cells(k)[i]) /\ Text(h, e + m)
  <2>1. k \in Key
    BY DEF Parted
  <2>2. Len(Cells(k)) \in Nat
    BY <2>1, CellsLen
  <2> QED
    BY <2>2, LenProperties DEF Parted
<1>2. ASSUME NEW i \in 1..Len(h), i > e + p PROVE LenOf(h[i]) = TooLarge
  <2>1. CASE i > e + m
    BY <1>1, <2>1 DEF Text
  <2>2. CASE i <= e + m
    <3>1. PICK j : j = i - e
      OBVIOUS
    <3>2. j \in (p + 1)..m /\ j \in 1..m /\ i = e + j
      BY <1>1, <1>2, <2>2, <3>1
    <3> QED
      BY <1>1, <3>2
  <2> QED
    BY <1>1, <2>1, <2>2
<1> QED
  BY <1>2 DEF Text

LEMMA PartedGood ==
  ASSUME NEW h \in Seq(CellSet), NEW e, NEW k, NEW m, Parted(h, e, k, m)
  PROVE  /\ Good(h, e)
         /\ HasHeader(h, e) => ~HasHeader(h, ValEnd(h, e)) /\ Good(h, ValEnd(h, e))
<1>1. PICK a, b, c : a = keyLen[k] /\ b = valLen[k] /\ c = Cells(k)
  OBVIOUS
<1>2. /\ k \in Key /\ e \in Nat /\ m \in 1..Len(c) /\ e + m <= Len(h) /\ Len(h) \in Nat
      /\ (\A i \in 1..m : h[e + i] = c[i]) /\ Text(h, e + m)
  BY <1>1, LenProperties DEF Parted
<1>3. Len(c) = a + b + 2 /\ c[1] = <<"len", a>> /\ c[a + 2] = <<"len", b>>
  <2>1. KeyPart(k, keyLen[k], valLen[k])
    BY <1>2, CellsParts
  <2> QED
    BY <1>1, <2>1 DEF KeyPart
<1>4. /\ a \in Nat \ {0} /\ b \in Nat \ {0} /\ a \in Small /\ b \in Small /\ a < TooLarge /\ b < TooLarge
      /\ TooLarge \in Nat
  BY <1>1, <1>2, LengthsOf
<1>5. /\ \A i \in 2..(a + 1) : LenOf(c[i]) = TooLarge
      /\ \A i \in (a + 3)..(a + b + 2) : LenOf(c[i]) = TooLarge
  BY <1>1, <1>2, CellsText
<1>6. m \in Nat /\ m >= 1 /\ m <= a + b + 2
  BY <1>2, <1>3, <1>4
<1>7. LenOf(h[e + 1]) = a
  <2>1. 1 \in 1..m
    BY <1>6
  <2>2. h[e + 1] = <<"len", a>>
    BY <1>2, <1>3, <2>1
  <2> QED
    BY <1>4, <2>2, LenOfLen
<1>8. ValStart(h, e) = e + (a + 2)
  BY <1>2, <1>4, <1>7 DEF KeyEnd, ValStart
<1>9. CASE m < a + 2
  <2>1. ~HasHeader(h, e)
    <3> SUFFICES ASSUME HasHeader(h, e) PROVE FALSE
      OBVIOUS
    <3>1. e + (a + 2) <= Len(h) /\ LenOf(h[e + (a + 2)]) < TooLarge
      BY <1>8 DEF HasHeader
    <3>2. e + (a + 2) \in 1..Len(h) /\ e + (a + 2) > e + m
      BY <1>2, <1>4, <1>6, <1>9, <3>1
    <3>3. LenOf(h[e + (a + 2)]) = TooLarge
      BY <1>2, <3>2 DEF Text
    <3> QED
      BY <1>4, <3>1, <3>3
  <2>2. \A i \in (1 + 1)..m : LenOf(c[i]) = TooLarge
    <3>1. \A i \in (1 + 1)..m : i \in 2..(a + 1)
      BY <1>4, <1>6, <1>9
    <3> QED
      BY <1>5, <3>1
  <2>3. Text(h, e + 1)
    BY <1>1, <1>6, <2>2, PartedText
  <2> QED
    BY <2>1, <2>3 DEF Good
<1>10. CASE m >= a + 2
  <2>1. LenOf(h[e + (a + 2)]) = b
    <3>1. a + 2 \in 1..m
      BY <1>4, <1>6, <1>10
    <3>2. h[e + (a + 2)] = <<"len", b>>
      BY <1>2, <1>3, <3>1
    <3> QED
      BY <1>4, <3>2, LenOfLen
  <2>2. PICK x : x = ValEnd(h, e)
    OBVIOUS
  <2>3. x = e + (a + 2) + b /\ x \in Nat /\ e + m <= x
    <3>1. x = e + (a + 2) + b
      BY <1>8, <2>1, <2>2 DEF ValEnd
    <3> QED
      BY <1>2, <1>4, <1>6, <3>1
  <2>4. HasHeader(h, e)
    <3>1. e < Len(h) /\ e + (a + 2) <= Len(h)
      BY <1>2, <1>4, <1>6, <1>10
    <3> QED
      BY <1>4, <1>7, <1>8, <2>1, <3>1 DEF HasHeader
  <2>5. Text(h, e + (a + 2))
    <3>1. a + 2 \in Nat /\ a + 2 <= m /\ \A i \in ((a + 2) + 1)..m : i \in (a + 3)..(a + b + 2)
      BY <1>4, <1>6, <1>10
    <3>2. \A i \in ((a + 2) + 1)..m : LenOf(c[i]) = TooLarge
      BY <1>5, <3>1
    <3> QED
      BY <1>1, <3>1, <3>2, PartedText
  <2>6. Good(h, e)
    <3>1. b > 0
      BY <1>4
    <3> QED
      BY <1>8, <2>1, <2>4, <2>5, <3>1 DEF Good
  <2>7. Text(h, x)
    <3>1. e + m \in Nat
      BY <1>2, <1>6
    <3> QED
      BY <1>2, <2>3, <3>1, TextMore
  <2> QED
    BY <2>2, <2>3, <2>6, <2>7, TextNoHeader
<1> QED
  BY <1>4, <1>6, <1>9, <1>10

LEMMA CleanTail ==
  ASSUME NEW g \in Seq(CellSet), NEW h \in Seq(CellSet), NEW e, NEW k, NEW m, Leads(g, e), Clean(g),
         Agree(g, h, e), Parted(h, e, k, m)
  PROVE  Clean(h)
<1>0. e \in Nat /\ e <= Len(h) /\ Len(h) \in Nat
  <2>1. k \in Key /\ e \in Nat /\ m \in 1..Len(Cells(k)) /\ e + m <= Len(h)
    BY DEF Parted
  <2>2. Len(Cells(k)) \in Nat /\ Len(h) \in Nat
    BY <2>1, CellsLen, LenProperties
  <2> QED
    BY <2>1, <2>2
<1>1. PICK N : Reached(g, N, e)
  BY DEF Leads
<1>2. Reached(h, N, e) /\ \A n \in 0..N : Offsets(h)[n] = Offsets(g)[n]
  BY <1>1, ReachedStays
<1>3. N \in Nat /\ N \in 0..Len(g) /\ N \in 0..Len(h) /\ Offsets(h)[N] = e /\ Offsets(g)[N] = e /\ Len(g) \in Nat
  BY <1>1, <1>2, ReachedBounds DEF Reached
<1>4. Good(h, e) /\ (HasHeader(h, e) => ~HasHeader(h, ValEnd(h, e)) /\ Good(h, ValEnd(h, e)))
  BY PartedGood
<1>5. ASSUME NEW n, NEW x, Reached(h, n, x) PROVE Good(h, x)
  <2>1. /\ n \in 0..Len(h) /\ Offsets(h)[n] = x /\ n \in Nat /\ Reached(h, n, Offsets(h)[n])
        /\ \A i \in 0..(n - 1) : HasHeader(h, Offsets(h)[i])
    BY <1>0, <1>5 DEF Reached
  <2>2. CASE n < N
    <3>1. n \in 0..N /\ n \in 0..(N - 1) /\ n \in 0..Len(g) /\ n + 1 \in 0..N /\ \A i \in 0..(n - 1) : i \in 0..(N - 1)
      BY <1>3, <2>1, <2>2
    <3>2. Offsets(g)[n] = x
      BY <1>2, <2>1, <3>1
    <3>3. Reached(g, n, x)
      BY <1>1, <3>1, <3>2 DEF Reached
    <3>4. Good(g, x)
      BY <3>3 DEF Clean
    <3>5. PICK v, y : v = ValStart(g, x) /\ y = Offsets(g)[n + 1]
      OBVIOUS
    <3>6. /\ x \in Nat /\ HasHeader(g, x) /\ y = ValEnd(g, x) /\ v \in 1..Len(g) /\ v <= y
      BY <1>1, <1>3, <3>1, <3>2, <3>5, ReachedNext
    <3>7. y \in Nat /\ y <= e
      BY <1>1, <3>1, <3>5, ReachedBounds
    <3>8. v <= e /\ v \in Nat
      BY <1>0, <1>3, <3>6, <3>7
    <3>9. HasHeader(h, x) /\ ValEnd(h, x) = y /\ ValStart(h, x) = v
      BY <1>0, <3>5, <3>6, <3>8, HeaderStays
    <3>10. h[v] = g[v]
      BY <3>6, <3>8 DEF Agree
    <3>11. LenOf(g[v]) > 0
      BY <3>4, <3>5, <3>6 DEF Good
    <3>12. ~(y > Len(h))
      BY <1>0, <3>7
    <3> QED
      BY <3>9, <3>10, <3>11, <3>12 DEF Good
  <2>3. CASE n = N
    BY <1>3, <1>4, <2>1, <2>3
  <2>4. CASE n > N
    <3>1. N \in 0..(n - 1) /\ N + 1 \in Nat
      BY <1>3, <2>1, <2>4
    <3>2. HasHeader(h, e) /\ Offsets(h)[N + 1] = ValEnd(h, e)
      BY <1>3, <2>1, <3>1, ReachedNext
    <3>3. n = N + 1
      <4> SUFFICES ASSUME n # N + 1 PROVE FALSE
        OBVIOUS
      <4>1. N + 1 \in 0..(n - 1)
        BY <1>3, <2>1, <2>4
      <4> QED
        BY <1>4, <2>1, <3>2, <4>1
    <3> QED
      BY <1>4, <2>1, <3>2, <3>3
  <2> QED
    BY <1>3, <2>1, <2>2, <2>3, <2>4
<1> QED
  BY <1>5 DEF Clean

LEMMA TidyNothing ==
  ASSUME NEW f \in Seq(CellSet), NEW w \in Nat, Clean(f), Text(f, w + 1)
  PROVE  Tidy(f, w, << >>)
<1>1. ASSUME NEW d, IsPart(d, << >>) PROVE Clean(Overwrite(f, w, d))
  <2>1. d \in Seq(CellSet) /\ Len(d) <= 0 /\ Len(d) \in Nat
    BY <1>1, EmptyCells, LenProperties DEF IsPart
  <2>2. Len(d) = 0
    BY <2>1
  <2>3. d = << >>
    BY <2>1, <2>2, EmptySeq
  <2> QED
    BY <2>3, OverwriteNothing
<1> QED
  BY <1>1 DEF Tidy

LEMMA WholePart == \A c \in Seq(CellSet) : IsPart(c, c)
<1>1. ASSUME NEW c \in Seq(CellSet) PROVE IsPart(c, c)
  <2>1. Len(c) \in Nat
    BY LenProperties
  <2> QED
    BY <2>1 DEF IsPart
<1> QED
  BY <1>1

LEMMA TidyFlushed ==
  ASSUME NEW f \in Seq(CellSet), NEW w \in Nat, NEW c \in Seq(CellSet), Tidy(f, w, c)
  PROVE  Tidy(Overwrite(f, w, c), w + Len(c), << >>)
<1>1. PICK g, e : g = Overwrite(f, w, c) /\ e = w + Len(c)
  OBVIOUS
<1>2. g \in Seq(CellSet)
  BY <1>1, OverwriteAgrees
<1>3. Clean(g) /\ Text(f, w + 1)
  BY <1>1, WholePart DEF Tidy
<1>4. Len(c) \in Nat /\ e \in Nat /\ Len(g) \in Nat /\ w <= e
  <2>1. Len(c) \in Nat /\ Len(g) \in Nat
    BY <1>2, LenProperties
  <2> QED
    BY <1>1, <2>1
<1>5. ASSUME NEW i \in 1..Len(g), i > e + 1 PROVE LenOf(g[i]) = TooLarge
  <2>1. i > w + Len(c) /\ i > w + 1
    BY <1>1, <1>4, <1>5
  <2>2. i \in 1..Len(f) /\ g[i] = f[i]
    BY <1>1, <2>1, OverwriteRest
  <2> QED
    BY <1>3, <2>1, <2>2 DEF Text
<1>6. Text(g, e + 1)
  BY <1>5 DEF Text
<1>7. Tidy(g, e, << >>)
  BY <1>2, <1>3, <1>4, <1>6, TidyNothing
<1> QED
  BY <1>1, <1>7

LEMMA TidyInserted ==
  ASSUME NEW f \in Seq(CellSet), NEW w \in Nat, NEW c \in Seq(CellSet), NEW k \in Key, Tidy(f, w, c),
         Leads(Overwrite(f, w, c), w + Len(c))
  PROVE  Tidy(f, w, c \o Cells(k))
<1>1. PICK s, t, e, g : s = Cells(k) /\ t = c \o s /\ e = w + Len(c) /\ g = Overwrite(f, w, c)
  OBVIOUS
<1>2. s \in Seq(CellSet) /\ Len(s) \in Nat \ {0}
  BY <1>1, CellsLen
<1>3. t \in Seq(CellSet) /\ Joined(t, c, s)
  BY <1>1, <1>2, JoinedIs
<1>4. /\ Len(t) = Len(c) + Len(s) /\ Len(c) \in Nat /\ \A i \in 1..Len(c) : t[i] = c[i]
      /\ \A i \in 1..Len(s) : t[Len(c) + i] = s[i]
  BY <1>3 DEF Joined
<1>5. g \in Seq(CellSet) /\ Written(f, w, c, g) /\ Clean(g) /\ Text(f, w + 1) /\ e \in Nat
  <2>1. e \in Nat
    BY <1>1, <1>4
  <2> QED
    BY <1>1, <2>1, OverwriteAgrees, WholePart DEF Tidy
<1>6. ASSUME NEW d, IsPart(d, t) PROVE Clean(Overwrite(f, w, d))
  <2>0. d \in Seq(CellSet) /\ Len(d) \in Nat /\ Len(d) <= Len(t) /\ \A i \in 1..Len(d) : d[i] = t[i]
    BY <1>6, LenProperties DEF IsPart
  <2>1. CASE Len(d) <= Len(c)
    <3>1. \A i \in 1..Len(d) : i \in 1..Len(c)
      BY <1>4, <2>0, <2>1
    <3>2. IsPart(d, c)
      BY <1>4, <2>0, <2>1, <3>1 DEF IsPart
    <3> QED
      BY <3>2 DEF Tidy
  <2>2. CASE Len(d) > Len(c)
    <3>1. PICK h, m : h = Overwrite(f, w, d) /\ m = Len(d) - Len(c)
      OBVIOUS
    <3>2. h \in Seq(CellSet) /\ Written(f, w, d, h)
      BY <2>0, <3>1, OverwriteAgrees
    <3>3. m \in 1..Len(s) /\ e + m = w + Len(d) /\ m \in Nat
      BY <1>1, <1>2, <1>4, <2>0, <2>2, <3>1
    <3>4. Agree(g, h, e)
      <4>1. d # << >> /\ Len(c) <= Len(d) /\ \A i \in 1..Len(c) : i \in 1..Len(d)
        <5>1. Len(d) # 0 /\ Len(c) <= Len(d) /\ \A i \in 1..Len(c) : i \in 1..Len(d)
          BY <1>4, <2>0, <2>2
        <5> QED
          BY <5>1, EmptyCells
      <4>2. \A i \in 1..Len(c) : d[i] = c[i]
        BY <1>4, <2>0, <4>1
      <4> QED
        BY <1>1, <1>4, <1>5, <2>0, <3>2, <4>1, <4>2, WrittenMore
    <3>5. ASSUME NEW i \in 1..m PROVE e + i \in 1..Len(h) /\ h[e + i] = s[i]
      <4>1. Len(c) + i \in 1..Len(d) /\ i \in 1..Len(s) /\ w + (Len(c) + i) = e + i
        BY <1>1, <1>2, <1>4, <2>0, <3>1, <3>3
      <4>2. e + i \in 1..Len(h) /\ h[e + i] = d[Len(c) + i]
        BY <3>2, <4>1 DEF Written
      <4> QED
        BY <1>4, <2>0, <4>1, <4>2
    <3>6. Len(h) \in Nat /\ e + m <= Len(h)
      <4>1. m \in 1..m /\ Len(h) \in Nat
        BY <3>2, <3>3, LenProperties
      <4>2. e + m \in 1..Len(h)
        BY <3>5, <4>1
      <4> QED
        BY <4>1, <4>2
    <3>7. ASSUME NEW i \in 1..Len(h), i > e + m PROVE LenOf(h[i]) = TooLarge
      <4>1. i > w + Len(d) /\ i > w + 1
        BY <1>1, <1>4, <3>3, <3>6, <3>7
      <4>2. i \in 1..Len(f) /\ h[i] = f[i]
        BY <2>0, <3>1, <4>1, OverwriteRest
      <4> QED
        BY <1>5, <4>1, <4>2 DEF Text
    <3>8. Parted(h, e, k, m)
      BY <1>1, <1>5, <3>3, <3>5, <3>6, <3>7 DEF Parted, Text
    <3>9. Leads(g, e)
      BY <1>1
    <3>10. Clean(h)
      BY <1>5, <3>2, <3>4, <3>8, <3>9, CleanTail
    <3> QED
      BY <3>1, <3>10
  <2> QED
    BY <1>4, <2>0, <2>1, <2>2
<1>7. Tidy(f, w, t)
  BY <1>5, <1>6 DEF Tidy
<1> QED
  BY <1>1, <1>7

\* What crashed programs leave is text behind the last tuple.
CleanInv ==
  /\ mode = "none" => Clean(file)
  /\ mode # "none" => Tidy(file, wpos, pending \o buf)

LEMMA CleanInit == Init => CleanInv
<1> SUFFICES ASSUME Init PROVE CleanInv
  OBVIOUS
<1>1. file = << >> /\ mode = "none"
  BY DEF Init, ShardInit
<1>2. PICK f : f = << >>
  OBVIOUS
<1>3. f \in Seq(CellSet) /\ Len(f) = 0
  BY <1>2, EmptyCells
<1>4. ASSUME NEW n, NEW w, Reached(f, n, w) PROVE Good(f, w)
  <2>1. w \in Nat
    BY <1>3, <1>4, ReachedBounds
  <2>2. Text(f, w)
    BY <1>3 DEF Text
  <2> QED
    BY <1>3, <2>1, <2>2, TextNoHeader
<1> QED
  BY <1>1, <1>2, <1>4 DEF CleanInv, Clean

LEMMA WriterCleans == ShardInv /\ CleanInv /\ WriterStep => CleanInv'
<1> SUFFICES ASSUME ShardInv, CleanInv, WriterStep PROVE CleanInv'
  OBVIOUS
<1>0. << >> \o << >> = << >> /\ << >> \in Seq(CellSet)
  BY EmptyCells, ConcatEmptySeq
<1>1. ASSUME NEW f, NEW K, NEW w, OpenWith(f, K, w), Tidy(f, w, << >>) PROVE CleanInv'
  <2>1. mode' = "write" /\ file' = f /\ wpos' = w /\ buf' = << >> /\ pending' = << >>
    BY <1>1 DEF OpenWith
  <2>2. pending' \o buf' = << >>
    BY <1>0, <2>1
  <2> QED
    BY <1>1, <2>1, <2>2 DEF CleanInv
<1>2. CASE OpenCreate
  <2>1. session = 0 /\ OpenWith(<< >>, {}, 0)
    BY <1>2 DEF OpenCreate
  <2>2. PICK f : f = << >>
    OBVIOUS
  <2>3. f \in Seq(CellSet) /\ Len(f) = 0
    BY <2>2, EmptyCells
  <2>4. ASSUME NEW n, NEW w, Reached(f, n, w) PROVE Good(f, w)
    <3>1. w \in Nat
      BY <2>3, <2>4, ReachedBounds
    <3>2. Text(f, w)
      BY <2>3 DEF Text
    <3> QED
      BY <2>3, <3>1, <3>2, TextNoHeader
  <2>5. PICK w \in Nat : w = 0
    OBVIOUS
  <2>6. Clean(f) /\ Text(f, w + 1)
    BY <2>3, <2>4 DEF Clean, Text
  <2>7. Tidy(f, w, << >>)
    BY <2>3, <2>6, TidyNothing
  <2> QED
    BY <1>1, <2>1, <2>2, <2>5, <2>7
<1>3. CASE OpenAppend
  <2>1. OpenWith(file, KeysFound(file), PrepareForAppend(file))
    BY <1>3 DEF OpenAppend
  <2>2. mode = "none"
    BY <2>1 DEF OpenWith
  <2>3. Clean(file) /\ file \in Seq(CellSet)
    BY <2>2 DEF CleanInv, ShardInv, Idle
  <2>4. PICK w : w = PrepareForAppend(file)
    OBVIOUS
  <2>5. w \in Nat /\ (\E n : Reached(file, n, w)) /\ ~HasHeader(file, w)
    BY <2>3, <2>4, AppendAt, LastNoHeader
  <2>6. Text(file, w + 1)
    BY <2>3, <2>5 DEF Clean, Good
  <2>7. Tidy(file, w, << >>)
    BY <2>3, <2>5, <2>6, TidyNothing
  <2> QED
    BY <1>1, <2>1, <2>4, <2>7
<1>4. CASE mode # "none"
  <2>1. PICK c : c = pending \o buf
    OBVIOUS
  <2>2. /\ pending \in Seq(CellSet) /\ buf \in Seq(CellSet) /\ Tidy(file, wpos, c)
        /\ Writing(file, wpos, c, placed, flushed, keys)
    BY <1>4, <2>1 DEF ShardInv, CleanInv
  <2>3. file \in Seq(CellSet) /\ wpos \in Nat /\ c \in Seq(CellSet) /\ Leads(Overwrite(file, wpos, c), wpos + Len(c))
    BY <2>2 DEF Writing, Ahead
  <2>4. ASSUME NEW d, Close(d), IsPart(d, pending) PROVE CleanInv'
    <3>1. mode' = "none" /\ file' = Overwrite(file, wpos, d)
      BY <2>4 DEF Close
    <3>2. Joined(c, pending, buf)
      BY <2>1, <2>2, JoinedIs
    <3>3. IsPart(d, c)
      <4>1. /\ d \in Seq(CellSet) /\ Len(d) <= Len(pending) /\ \A i \in 1..Len(d) : d[i] = pending[i]
        BY <2>4 DEF IsPart
      <4>2. /\ Len(c) = Len(pending) + Len(buf) /\ Len(pending) \in Nat /\ Len(buf) \in Nat
            /\ \A i \in 1..Len(pending) : c[i] = pending[i]
        BY <3>2 DEF Joined
      <4>3. Len(d) \in Nat
        BY <4>1, LenProperties
      <4>4. Len(d) <= Len(c) /\ \A i \in 1..Len(d) : i \in 1..Len(pending)
        BY <4>1, <4>2, <4>3
      <4>5. \A i \in 1..Len(d) : d[i] = c[i]
        BY <4>1, <4>2, <4>4
      <4> QED
        BY <4>1, <4>4, <4>5 DEF IsPart
    <3>4. Clean(Overwrite(file, wpos, d))
      BY <2>2, <3>3 DEF Tidy
    <3> QED
      BY <3>1, <3>4 DEF CleanInv
  <2>5. ASSUME NEW k \in Key, Insert(k) PROVE CleanInv'
    <3>1. PICK s, a, b : s = Cells(k) /\ a = pending /\ b = buf
      OBVIOUS
    <3>2. s \in Seq(CellSet) /\ file' = file /\ mode' = mode /\ wpos' = wpos
      BY <2>5, <3>1, CellsLen DEF Insert
    <3>3. \/ pending' = a \o b /\ buf' = << >> \o s
          \/ pending' = a /\ buf' = b \o s
      BY <2>5, <3>1 DEF Insert
    <3>4. pending' \o buf' = c \o s
      <4>1. << >> \o s = s
        BY <3>2, ConcatEmptySeq
      <4>2. a \o (b \o s) = (a \o b) \o s
        BY <2>2, <3>1, <3>2, ConcatAssociative
      <4> QED
        BY <2>1, <3>1, <3>3, <4>1, <4>2
    <3>5. Tidy(file, wpos, c \o s)
      BY <2>2, <2>3, <3>1, TidyInserted
    <3> QED
      BY <1>4, <3>2, <3>4, <3>5 DEF CleanInv
  <2>6. CASE FlushWrite
    <3>1. mode' # "none" /\ file' = file /\ wpos' = wpos /\ pending' = c /\ buf' = << >>
      BY <2>1, <2>6 DEF FlushWrite
    <3>2. c \o << >> = c
      BY <2>3, ConcatEmptySeq
    <3> QED
      BY <2>2, <3>1, <3>2 DEF CleanInv
  <2>9. CASE Flush
    <3>1. /\ mode' # "none" /\ file' = Overwrite(file, wpos, pending) /\ wpos' = wpos + Len(pending)
          /\ pending' = << >> /\ buf' = buf /\ buf = << >>
      BY <2>9 DEF Flush, ShardInv
    <3>2. c = pending
      BY <2>1, <2>2, <3>1, ConcatEmptySeq
    <3>3. Tidy(Overwrite(file, wpos, c), wpos + Len(c), << >>)
      BY <2>2, <2>3, TidyFlushed
    <3>4. pending' \o buf' = << >>
      BY <1>0, <3>1
    <3> QED
      BY <3>1, <3>2, <3>3, <3>4 DEF CleanInv
  <2>7. CASE Destroy
    BY <2>2, <2>4, <2>7, WholePart DEF Destroy
  <2>8. CASE Crash
    <3>1. PICK n \in 0..Len(pending) : Close(SubSeq(pending, 1, n))
      BY <2>8 DEF Crash
    <3>2. PICK d : d = SubSeq(pending, 1, n)
      OBVIOUS
    <3>3. Len(pending) \in Nat /\ n \in Nat /\ n <= Len(pending) /\ 1 \in Int /\ n \in Int
      <4>1. Len(pending) \in Nat
        BY <2>2, LenProperties
      <4> QED
        BY <4>1
    <3>4. \A i \in 1..n : pending[i] \in CellSet
      <4>1. \A i \in 1..n : i \in 1..Len(pending)
        BY <3>3
      <4> QED
        BY <2>2, <4>1, ElementOfSeq
    <3>5. /\ d \in Seq(CellSet) /\ Len(d) = (IF 1 <= n THEN n - 1 + 1 ELSE 0)
          /\ \A i \in 1..(n - 1 + 1) : d[i] = pending[1 + i - 1]
      BY <3>2, <3>3, <3>4, SubSeqProperties
    <3>6. Len(d) = n /\ n - 1 + 1 = n /\ \A i \in 1..n : 1 + i - 1 = i
      BY <3>3, <3>5
    <3>7. IsPart(d, pending)
      BY <3>3, <3>5, <3>6 DEF IsPart
    <3> QED
      BY <2>4, <3>1, <3>2, <3>7
  <2> QED
    BY <1>4, <2>5, <2>6, <2>7, <2>8, <2>9 DEF WriterStep, OpenCreate, OpenAppend, OpenAppendOverrun, OpenWith
<1>5. CASE OpenAppendOverrun
  BY <1>5 DEF OpenAppendOverrun, CleanInv
<1>6. mode # "none" \/ OpenCreate \/ OpenAppend \/ OpenAppendOverrun
  BY DEF WriterStep, Insert, FlushWrite, Flush, Destroy, Crash
<1> QED
  BY <1>2, <1>3, <1>4, <1>5, <1>6

LEMMA CleanInvStays == ASSUME CleanInv, UNCHANGED shardVars PROVE CleanInv'
<1>1. file' = file /\ mode' = mode /\ buf' = buf /\ pending' = pending /\ wpos' = wpos
  BY DEF shardVars
<1> QED
  BY <1>1 DEF CleanInv

(***************************************************************************)
(* The reader and its buffer.                                              *)
(***************************************************************************)
Readers == [pos : Nat, buf : Seq(CellSet), off : Nat, eof : BOOLEAN]

\* The reader r of the file f is in front of the cell behind q.
At(f, r, q) ==
  /\ r \in Readers /\ q \in Nat
  /\ r.off <= Len(r.buf) /\ Len(r.buf) <= ReadCapacity /\ r.pos <= Len(f)
  /\ q + (Len(r.buf) - r.off) = r.pos
  /\ \A i \in 1..(Len(r.buf) - r.off) : r.buf[r.off + i] = f[q + i]
  /\ r.eof => r.pos = Len(f)

\* t is the part of s from m to n.
Cut(s, m, n, t) == t \in Seq(CellSet) /\ Len(t) = n - m /\ \A i \in 1..(n - m) : t[i] = s[m + i]

LEMMA SubIs ==
  ASSUME NEW s \in Seq(CellSet), NEW m \in Nat, NEW n \in Nat, m <= n, n <= Len(s)
  PROVE  Cut(s, m, n, SubSeq(s, m + 1, n))
<1>1. PICK t : t = SubSeq(s, m + 1, n)
  OBVIOUS
<1>2. Len(s) \in Nat /\ m + 1 \in Int /\ n \in Int
  BY LenProperties
<1>3. \A i \in (m + 1)..n : s[i] \in CellSet
  <2>1. \A i \in (m + 1)..n : i \in 1..Len(s)
    BY <1>2
  <2> QED
    BY <2>1, ElementOfSeq
<1>4. /\ t \in Seq(CellSet) /\ Len(t) = (IF m + 1 <= n THEN n - (m + 1) + 1 ELSE 0)
      /\ \A i \in 1..(n - (m + 1) + 1) : t[i] = s[(m + 1) + i - 1]
  BY <1>1, <1>2, <1>3, SubSeqProperties
<1>5. n - (m + 1) + 1 = n - m /\ (~(m + 1 <= n) => n - m = 0) /\ \A i \in 1..(n - m) : (m + 1) + i - 1 = m + i
  OBVIOUS
<1>6. Len(t) = n - m
  BY <1>4, <1>5
<1>7. \A i \in 1..(n - m) : t[i] = s[m + i]
  BY <1>4, <1>5
<1> QED
  BY <1>1, <1>4, <1>6, <1>7 DEF Cut

LEMMA MinIs == \A a, b \in Nat : Min({a, b}) = IF a <= b THEN a ELSE b
<1>1. ASSUME NEW a \in Nat, NEW b \in Nat PROVE Min({a, b}) = IF a <= b THEN a ELSE b
  <2> DEFINE m == IF a <= b THEN a ELSE b
  <2>1. m \in {a, b} /\ \A y \in {a, b} : m <= y
    OBVIOUS
  <2>2. \A x \in {a, b} : (\A y \in {a, b} : x <= y) => x = m
    OBVIOUS
  <2>3. Min({a, b}) = CHOOSE x \in {a, b} : \A y \in {a, b} : x <= y
    BY DEF Min
  <2> QED
    BY <2>1, <2>2, <2>3
<1> QED
  BY <1>1

\* What a refill reads: all there is room for, or all there is.
Reads(f, p, room, eof, t) ==
  /\ t \in Seq(CellSet) /\ Len(t) <= room /\ p + Len(t) <= Len(f)
  /\ (Len(t) = room \/ p + Len(t) = Len(f))
  /\ \A i \in 1..Len(t) : t[i] = f[p + i]

LEMMA ReadsIs ==
  ASSUME NEW f \in Seq(CellSet), NEW p \in Nat, NEW room \in Nat, NEW eof, p <= Len(f), eof => p = Len(f)
  PROVE  Reads(f, p, room, eof, IF eof THEN << >> ELSE SubSeq(f, p + 1, Min({p + room, Len(f)})))
<1>1. PICK t : t = IF eof THEN << >> ELSE SubSeq(f, p + 1, Min({p + room, Len(f)}))
  OBVIOUS
<1>2. Len(f) \in Nat
  BY LenProperties
<1>3. CASE eof
  <2>1. t \in Seq(CellSet) /\ Len(t) = 0
    BY <1>1, <1>3, EmptyCells
  <2>2. 0 <= room /\ p + 0 = Len(f) /\ p + 0 <= Len(f)
    BY <1>2, <1>3
  <2>3. Reads(f, p, room, eof, t)
    BY <2>1, <2>2 DEF Reads
  <2> QED
    BY <1>1, <2>3
<1>4. CASE ~eof
  <2>1. PICK n, l : l = Len(f) /\ n = Min({p + room, l})
    OBVIOUS
  <2>2. n = IF p + room <= l THEN p + room ELSE l
    <3>1. p + room \in Nat /\ l \in Nat
      BY <1>2, <2>1
    <3> QED
      BY <2>1, <3>1, MinIs
  <2>3. n \in Nat /\ p <= n /\ n <= l /\ n - p <= room /\ (n - p = room \/ n = l)
    BY <1>2, <2>1, <2>2
  <2>4. Cut(f, p, n, t)
    BY <1>1, <1>4, <2>1, <2>3, SubIs
  <2>5. t \in Seq(CellSet) /\ Len(t) = n - p /\ \A i \in 1..Len(t) : t[i] = f[p + i]
    BY <2>4 DEF Cut
  <2>6. p + Len(t) = n
    BY <2>3, <2>5
  <2>7. Reads(f, p, room, eof, t)
    BY <2>1, <2>3, <2>5, <2>6 DEF Reads
  <2> QED
    BY <1>1, <2>7
<1> QED
  BY <1>3, <1>4

LEMMA RefillIs ==
  ASSUME file \in Seq(CellSet), NEW r, NEW q, At(file, r, q)
  PROVE  /\ At(file, Refill(r), q) /\ Refill(r).off = 0
         /\ Len(Refill(r).buf) = ReadCapacity \/ Refill(r).pos = Len(file)
<1>0. PICK p, b, o, z, n, l, f, C : /\ p = r.pos /\ b = r.buf /\ o = r.off /\ z = r.eof /\ n = Len(r.buf)
                                    /\ l = Len(file) /\ f = file /\ C = ReadCapacity
  OBVIOUS
<1>1. /\ p \in Nat /\ o \in Nat /\ z \in BOOLEAN /\ q \in Nat /\ o <= n /\ n <= C /\ p <= l
      /\ q + (n - o) = p /\ (z => p = l) /\ n \in Nat /\ l \in Nat /\ C \in Nat
  BY <1>0, LenProperties, PipelineAssumption DEF At, Readers
<1>2. /\ b \in Seq(CellSet) /\ (\A i \in 1..(n - o) : b[o + i] = f[q + i])
      /\ f \in Seq(CellSet) /\ n = Len(b) /\ l = Len(f)
  BY <1>0 DEF At, Readers
<1>3. PICK rest, room : rest = SubSeq(b, o + 1, n) /\ room = C - Len(rest)
  OBVIOUS
<1>4. /\ rest \in Seq(CellSet) /\ Len(rest) = n - o /\ \A i \in 1..(n - o) : rest[i] = b[o + i]
  <2>1. n <= Len(b)
    BY <1>1, <1>2
  <2>2. Cut(b, o, n, rest)
    BY <1>1, <1>2, <1>3, <2>1, SubIs
  <2> QED
    BY <2>2 DEF Cut
<1>5. room \in Nat /\ room = C - (n - o)
  <2>1. room = C - (n - o)
    BY <1>3, <1>4
  <2> QED
    BY <1>1, <2>1
<1>6. PICK more : more = IF z THEN << >> ELSE SubSeq(f, p + 1, Min({p + room, Len(f)}))
  OBVIOUS
<1>7. Reads(f, p, room, z, more)
  BY <1>1, <1>2, <1>5, <1>6, ReadsIs
<1>8. PICK k : k = Len(more)
  OBVIOUS
<1>9. more \in Seq(CellSet) /\ \A i \in 1..k : more[i] = f[p + i]
  BY <1>7, <1>8 DEF Reads
<1>10. k \in Nat /\ k <= room /\ p + k <= l /\ (k = room \/ p + k = l)
  BY <1>2, <1>7, <1>8, LenProperties DEF Reads
<1>11. PICK d : d = rest \o more
  OBVIOUS
<1>12. d \in Seq(CellSet) /\ Joined(d, rest, more)
  BY <1>4, <1>9, <1>11, JoinedIs
<1>13. /\ Len(d) = (n - o) + k /\ (\A i \in 1..(n - o) : d[i] = rest[i])
       /\ \A i \in 1..k : d[(n - o) + i] = more[i]
  BY <1>4, <1>8, <1>12 DEF Joined
<1>14. PICK s : s = [pos |-> p + k, buf |-> d, off |-> 0, eof |-> z \/ k < room]
  OBVIOUS
<1>15. Refill(r) = s
  BY <1>0, <1>3, <1>6, <1>8, <1>11, <1>14 DEF Refill
<1>16. s.pos = p + k /\ s.buf = d /\ s.off = 0 /\ s.eof = (z \/ k < room)
  BY <1>14
<1>17. s \in Readers
  <2>1. p + k \in Nat /\ (z \/ k < room) \in BOOLEAN
    BY <1>1, <1>10
  <2> QED
    BY <1>12, <1>14, <2>1 DEF Readers
<1>18. /\ Len(d) \in Nat /\ 0 <= Len(d) /\ Len(d) <= C /\ q + (Len(d) - 0) = p + k /\ Len(d) - 0 = (n - o) + k
       /\ (Len(d) = C \/ p + k = l)
  <2>1. Len(d) = (n - o) + k
    BY <1>13
  <2> QED
    BY <1>1, <1>5, <1>10, <2>1
<1>19. ASSUME NEW i \in 1..((n - o) + k) PROVE d[0 + i] = f[q + i]
  <2>1. CASE i <= n - o
    <3>1. i \in 1..(n - o) /\ 0 + i = i
      BY <1>1, <1>10, <2>1
    <3> QED
      BY <1>2, <1>4, <1>13, <3>1
  <2>2. CASE i > n - o
    <3>1. PICK j : j = i - (n - o)
      OBVIOUS
    <3>2. j \in 1..k /\ i = (n - o) + j /\ 0 + i = (n - o) + j /\ p + j = q + i
      BY <1>1, <1>10, <2>2, <3>1
    <3> QED
      BY <1>9, <1>13, <3>2
  <2> QED
    BY <1>1, <1>10, <2>1, <2>2
<1>20. (z \/ k < room) => p + k = l
  BY <1>1, <1>5, <1>10
<1>21. At(f, s, q)
  BY <1>1, <1>0, <1>2, <1>10, <1>16, <1>17, <1>18, <1>19, <1>20 DEF At
<1> QED
  BY <1>0, <1>15, <1>16, <1>18, <1>21

LEMMA PrepareIs ==
  ASSUME file \in Seq(CellSet), NEW r, NEW q, At(file, r, q), NEW size \in Nat, NEW s, s = PrepareNextField(r, size)
  PROVE  At(file, s, q) /\ (Ready(s, size) <=> size <= ReadCapacity /\ q + size <= Len(file))
<1>0. Len(file) \in Nat /\ ReadCapacity \in Nat
  BY LenProperties, PipelineAssumption
<1>1. CASE r.off + size > Len(r.buf)
  <2>1. s = Refill(r)
    BY <1>1 DEF PrepareNextField
  <2>2. At(file, s, q) /\ s.off = 0 /\ (Len(s.buf) = ReadCapacity \/ s.pos = Len(file))
    BY <2>1, RefillIs
  <2>3. PICK n : n = Len(s.buf)
    OBVIOUS
  <2>4. n \in Nat /\ n <= ReadCapacity /\ s.pos <= Len(file) /\ q + (n - 0) = s.pos /\ q \in Nat /\ s.pos \in Nat
    BY <2>2, <2>3, LenProperties DEF At, Readers
  <2>5. Ready(s, size) <=> size <= n
    BY <2>2, <2>3 DEF Ready
  <2>6. size <= n <=> size <= ReadCapacity /\ q + size <= Len(file)
    BY <1>0, <2>2, <2>3, <2>4
  <2> QED
    BY <2>2, <2>5, <2>6
<1>2. CASE ~(r.off + size > Len(r.buf))
  <2>1. s = r
    BY <1>2 DEF PrepareNextField
  <2>2. PICK n, o, p : n = Len(r.buf) /\ o = r.off /\ p = r.pos
    OBVIOUS
  <2>3. n \in Nat /\ o \in Nat /\ p \in Nat /\ n <= ReadCapacity /\ p <= Len(file) /\ q + (n - o) = p /\ q \in Nat
    BY <2>2, LenProperties DEF At, Readers
  <2>4. o + size <= n
    BY <1>2, <2>2, <2>3
  <2>5. size <= ReadCapacity /\ q + size <= Len(file)
    BY <1>0, <2>3, <2>4
  <2>6. Ready(s, size)
    BY <2>1, <2>2, <2>4 DEF Ready
  <2> QED
    BY <2>1, <2>5, <2>6
<1> QED
  BY <1>1, <1>2

LEMMA AdvanceIs ==
  ASSUME file \in Seq(CellSet), NEW r, NEW q, At(file, r, q), NEW size \in Nat, Ready(r, size)
  PROVE  /\ At(file, Advance(r, size), q + size)
         /\ SubSeq(r.buf, r.off + 1, r.off + size) = SubSeq(file, q + 1, q + size)
         /\ size = 1 => r.buf[r.off + 1] = file[q + 1]
<1>1. PICK p, b, o, z, n, l : /\ p = r.pos /\ b = r.buf /\ o = r.off /\ z = r.eof /\ n = Len(r.buf) /\ l = Len(file)
  OBVIOUS
<1>2. /\ p \in Nat /\ b \in Seq(CellSet) /\ o \in Nat /\ z \in BOOLEAN /\ q \in Nat /\ o <= n /\ n <= ReadCapacity
      /\ p <= l /\ q + (n - o) = p /\ (\A i \in 1..(n - o) : b[o + i] = file[q + i]) /\ (z => p = l)
      /\ n \in Nat /\ l \in Nat /\ n = Len(b) /\ r \in Readers
  BY <1>1, LenProperties DEF At, Readers
<1>3. o + size <= n
  BY <1>1 DEF Ready
<1>4. PICK s : s = Advance(r, size)
  OBVIOUS
<1>5. s = [r EXCEPT !.off = o + size]
  BY <1>1, <1>4 DEF Advance
<1>6. s \in Readers /\ s.pos = p /\ s.buf = b /\ s.off = o + size /\ s.eof = z
  <2>1. o + size \in Nat
    BY <1>2
  <2> QED
    BY <1>1, <1>2, <1>5, <2>1 DEF Readers
<1>7. ASSUME NEW i \in 1..(n - (o + size)) PROVE b[(o + size) + i] = file[(q + size) + i]
  <2>1. PICK j : j = size + i
    OBVIOUS
  <2>2. j \in 1..(n - o) /\ (o + size) + i = o + j /\ (q + size) + i = q + j
    BY <1>2, <1>3, <2>1
  <2> QED
    BY <1>2, <2>2
<1>8. q + size \in Nat /\ o + size <= n /\ (q + size) + (n - (o + size)) = p
  BY <1>2, <1>3
<1>9. At(file, s, q + size)
  BY <1>1, <1>2, <1>6, <1>7, <1>8 DEF At
<1>10. SubSeq(b, o + 1, o + size) = SubSeq(file, q + 1, q + size)
  <2>1. PICK t, u : t = SubSeq(b, o + 1, o + size) /\ u = SubSeq(file, q + 1, q + size)
    OBVIOUS
  <2>2. /\ o + size \in Nat /\ o <= o + size /\ o + size <= Len(b) /\ q <= q + size /\ q + size <= Len(file)
        /\ (o + size) - o = size /\ (q + size) - q = size
    <3>1. q \in Nat /\ o \in Nat /\ n \in Nat /\ l \in Nat /\ p \in Nat /\ p <= l /\ q + (n - o) = p
      BY <1>2
    <3>2. q + size <= l
      BY <1>3, <3>1
    <3>3. o + size \in Nat /\ o <= o + size /\ q <= q + size /\ (o + size) - o = size /\ (q + size) - q = size
      BY <3>1
    <3>4. n = Len(b) /\ l = Len(file)
      BY <1>1, <1>2
    <3> QED
      BY <1>3, <3>2, <3>3, <3>4
  <2>3. Cut(b, o, o + size, t) /\ Cut(file, q, q + size, u)
    BY <1>2, <1>8, <2>1, <2>2, SubIs
  <2>4. /\ t \in Seq(CellSet) /\ Len(t) = size /\ (\A i \in 1..size : t[i] = b[o + i])
        /\ u \in Seq(CellSet) /\ Len(u) = size /\ (\A i \in 1..size : u[i] = file[q + i])
    BY <2>2, <2>3 DEF Cut
  <2>5. \A i \in 1..size : i \in 1..(n - o)
    BY <1>2, <1>3
  <2>6. \A i \in 1..size : t[i] = u[i]
    BY <1>2, <2>4, <2>5
  <2>7. t = u
    BY <2>4, <2>6, SeqEqual
  <2> QED
    BY <2>1, <2>7
<1>11. size = 1 => b[o + 1] = file[q + 1]
  <2>1. size = 1 => 1 \in 1..(n - o)
    BY <1>2, <1>3
  <2> QED
    BY <1>2, <2>1
<1> QED
  BY <1>1, <1>4, <1>9, <1>10, <1>11

(***************************************************************************)
(* One read.                                                               *)
(***************************************************************************)
\* The tuple behind q is whole.
WholeAt(f, q) == HasHeader(f, q) /\ ValEnd(f, q) <= Len(f) /\ ValEnd(f, q) > ValStart(f, q)

\* The reader is behind the last whole tuple, and finds none from there.
Lost(f, r) == \E p : At(f, r, p) /\ Text(f, p)

\* A read that has come to q, whose outcome is t.
Fails(f, q, t) == ~WholeAt(f, q) /\ t.tuple = << >> /\ Lost(f, t.rd)
Finds(f, q, t) == WholeAt(f, q) /\ t.tuple = <<KeyAt(f, q), ValAt(f, q)>> /\ At(f, t.rd, ValEnd(f, q))

LEMMA FailedIs ==
  ASSUME NEW f, NEW q, NEW r, NEW p, NEW t, t = Failed(r), ~WholeAt(f, q), At(f, r, p), Text(f, p)
  PROVE  Fails(f, q, t)
<1>1. t.rd = r /\ t.tuple = << >>
  BY DEF Failed
<1>2. Lost(f, r)
  BY DEF Lost
<1> QED
  BY <1>1, <1>2 DEF Fails

LEMMA NextIs ==
  ASSUME file \in Seq(CellSet), NEW r, NEW q, At(file, r, q), Good(file, q)
  PROVE  Finds(file, q, NextTuple(r)) \/ Fails(file, q, NextTuple(r))
<1>1. PICK f, l, C, L : f = file /\ l = Len(file) /\ C = ReadCapacity /\ L = TooLarge
  OBVIOUS
<1>2. /\ f \in Seq(CellSet) /\ l = Len(f) /\ l \in Nat /\ C \in Nat \ {0} /\ L \in Nat /\ C < L /\ q \in Nat
      /\ At(f, r, q) /\ Good(f, q)
  BY <1>1, LenProperties, PipelineAssumption, LengthsOf DEF At
<1>3. PICK r1, a, s1 : /\ r1 = PrepareNextField(r, 1) /\ a = LenOf(r1.buf[r1.off + 1]) /\ s1 = Advance(r1, 1)
  OBVIOUS
<1>4. PICK r2, key, s2 : /\ r2 = PrepareNextField(s1, a) /\ key = SubSeq(r2.buf, r2.off + 1, r2.off + a)
                         /\ s2 = Advance(r2, a)
  OBVIOUS
<1>5. PICK r3, b, s3 : /\ r3 = PrepareNextField(s2, 1) /\ b = LenOf(r3.buf[r3.off + 1]) /\ s3 = Advance(r3, 1)
  OBVIOUS
<1>6. PICK r4, val, s4, t : /\ r4 = PrepareNextField(s3, b) /\ val = SubSeq(r4.buf, r4.off + 1, r4.off + b)
                            /\ s4 = Advance(r4, b) /\ t = NextTuple(r)
  OBVIOUS
<1>7. t = IF ~Ready(r1, 1) THEN Failed(r1)
          ELSE IF ~Ready(r2, a) THEN Failed(r2)
          ELSE IF ~Ready(r3, 1) THEN Failed(r3)
          ELSE IF ~Ready(r4, b) \/ b = 0 THEN Failed(r4)
          ELSE [rd |-> s4, tuple |-> <<key, val>>]
  BY ZenonT(60), <1>3, <1>4, <1>5, <1>6 DEF NextTuple
<1>8. At(f, r1, q) /\ (Ready(r1, 1) <=> 1 <= C /\ q + 1 <= l)
  BY <1>1, <1>3, PrepareIs
<1>9. CASE ~Ready(r1, 1)
  <2>1. ~(q < l)
    BY <1>2, <1>8, <1>9
  <2>2. ~WholeAt(f, q)
    BY <1>2, <2>1 DEF WholeAt, HasHeader
  <2>3. Text(f, q)
    BY <1>2, <2>1 DEF Text
  <2>4. t = Failed(r1)
    BY <1>7, <1>9
  <2>5. Fails(f, q, t)
    BY <1>8, <2>2, <2>3, <2>4, FailedIs
  <2> QED
    BY <1>1, <1>6, <2>5
<1>10. CASE Ready(r1, 1)
  <2>0. q + 1 <= l /\ q + 1 \in 1..l /\ q + 1 \in Nat
    BY <1>2, <1>8, <1>10
  <2>1. At(f, s1, q + 1) /\ r1.buf[r1.off + 1] = f[q + 1]
    BY <1>1, <1>3, <1>8, <1>10, AdvanceIs
  <2>2. a = LenOf(f[q + 1]) /\ (a \in Small \/ a = L) /\ a \in Nat
    <3>1. f[q + 1] \in CellSet
      BY <1>2, <2>0, ElementOfSeq
    <3> QED
      BY <1>1, <1>3, <2>1, <3>1, LenOfKinds, LenOfType
  <2>3. KeyEnd(f, q) = q + 1 + a /\ ValStart(f, q) = q + 1 + a + 1
    BY <2>2 DEF KeyEnd, ValStart
  <2>4. PICK p : p = q + 1
    OBVIOUS
  <2>5. At(f, r2, p) /\ (Ready(r2, a) <=> a <= C /\ p + a <= l)
    BY <1>1, <1>4, <2>1, <2>2, <2>4, PrepareIs
  <2>6. CASE ~Ready(r2, a)
    <3>1. ~HasHeader(f, q)
      <4> SUFFICES ASSUME HasHeader(f, q) PROVE FALSE
        OBVIOUS
      <4>1. a < L /\ q + 1 + a + 1 <= l
        BY <1>1, <2>2, <2>3 DEF HasHeader
      <4>2. a <= C
        BY <2>2, <4>1, <1>1, <1>2 DEF Small
      <4> QED
        BY <1>2, <2>2, <2>4, <2>5, <2>6, <4>1, <4>2
    <3>2. Text(f, p)
      BY <1>2, <2>4, <3>1 DEF Good
    <3>3. ~WholeAt(f, q)
      BY <3>1 DEF WholeAt
    <3>4. t = Failed(r2)
      BY <1>7, <1>10, <2>6
    <3>5. Fails(f, q, t)
      BY <2>5, <3>2, <3>3, <3>4, FailedIs
    <3> QED
      BY <1>1, <1>6, <3>5
  <2>7. CASE Ready(r2, a)
    <3>0. PICK e, v : e = p + a /\ v = e + 1
      OBVIOUS
    <3>1. /\ a <= C /\ a < L /\ e <= l /\ e \in Nat /\ v \in Nat /\ e = q + 1 + a
          /\ KeyEnd(f, q) = e /\ ValStart(f, q) = v
          /\ p \in Nat /\ p <= v /\ p + 1 = q + 2
      <4>1. a <= C /\ e <= l /\ p \in Nat
        BY <1>2, <2>4, <2>5, <2>7, <3>0
      <4>2. e \in Nat /\ v \in Nat /\ e = q + 1 + a /\ v = q + 1 + a + 1 /\ p <= v /\ p + 1 = q + 2 /\ a < L
        BY <1>2, <2>2, <2>4, <3>0, <4>1
      <4> QED
        BY <2>3, <4>1, <4>2
    <3>2. At(f, s2, e) /\ key = SubSeq(f, p + 1, p + a)
      <4>1. At(file, r2, p) /\ a \in Nat /\ Ready(r2, a)
        BY <1>1, <2>2, <2>5, <2>7
      <4>2. /\ At(file, Advance(r2, a), p + a)
            /\ SubSeq(r2.buf, r2.off + 1, r2.off + a) = SubSeq(file, p + 1, p + a)
        BY <4>1, AdvanceIs
      <4> QED
        BY <1>1, <1>4, <3>0, <4>2
    <3>3. key = KeyAt(f, q)
      BY <3>0, <3>1, <3>2 DEF KeyAt
    <3>4. At(f, r3, e) /\ (Ready(r3, 1) <=> 1 <= C /\ e + 1 <= l)
      BY <1>1, <1>5, <3>2, PrepareIs
    <3>5. CASE ~Ready(r3, 1)
      <4>1. ~(v <= l)
        BY <1>2, <3>0, <3>1, <3>4, <3>5
      <4>2. ~WholeAt(f, q)
        BY <1>2, <3>1, <4>1 DEF WholeAt, HasHeader
      <4>3. Text(f, e)
        BY <1>2, <3>0, <3>1, <4>1 DEF Text
      <4>4. t = Failed(r3)
        BY <1>7, <1>10, <2>7, <3>5
      <4>5. Fails(f, q, t)
        BY <3>4, <4>2, <4>3, <4>4, FailedIs
      <4> QED
        BY <1>1, <1>6, <4>5
    <3>6. CASE Ready(r3, 1)
      <4>0. v <= l /\ v \in 1..l
        BY <1>2, <3>0, <3>1, <3>4, <3>6
      <4>1. At(f, s3, v) /\ r3.buf[r3.off + 1] = f[v]
        BY <1>1, <1>5, <3>0, <3>4, <3>6, AdvanceIs
      <4>2. b = LenOf(f[v]) /\ (b \in Small \/ b = L) /\ b \in Nat
        <5>1. f[v] \in CellSet
          BY <1>2, <4>0, ElementOfSeq
        <5> QED
          BY <1>1, <1>5, <4>1, <5>1, LenOfKinds, LenOfType
      <4>3. ValEnd(f, q) = v + b
        BY <3>1, <4>2 DEF ValEnd
      <4>4. At(f, r4, v) /\ (Ready(r4, b) <=> b <= C /\ v + b <= l)
        BY <1>1, <1>6, <4>1, <4>2, PrepareIs
      <4>5. HasHeader(f, q) <=> b < L
        <5>1. q < l
          BY <1>2, <2>0
        <5> QED
          BY <1>1, <1>2, <2>2, <3>1, <4>0, <4>2, <5>1 DEF HasHeader
      <4>6. CASE ~Ready(r4, b) \/ b = 0
        <5>1. t = Failed(r4)
          BY <1>7, <1>10, <2>7, <3>6, <4>6
        <5>2. ~WholeAt(f, q) /\ Text(f, v)
          <6>1. CASE b = L
            <7>1. ~HasHeader(f, q)
              BY <1>2, <4>5, <6>1
            <7>2. Text(f, p)
              BY <1>2, <2>4, <7>1 DEF Good
            <7> QED
              BY <1>2, <3>1, <7>1, <7>2, TextMore DEF WholeAt
          <6>2. CASE b # L
            <7>1. b <= C /\ b < L
              BY <1>1, <1>2, <4>2, <6>2 DEF Small
            <7>2. HasHeader(f, q)
              BY <4>5, <7>1
            <7>3. b > 0
              BY <1>2, <3>1, <4>2, <7>2 DEF Good
            <7>4. v + b > l
              BY <1>2, <3>1, <4>2, <4>4, <4>6, <7>1, <7>3
            <7>5. Text(f, v)
              BY <1>2, <3>1, <4>3, <7>2, <7>4 DEF Good
            <7>6. ~(v + b <= l)
              BY <1>2, <3>1, <4>2, <7>4
            <7> QED
              BY <1>2, <4>3, <7>5, <7>6 DEF WholeAt
          <6> QED
            BY <6>1, <6>2
        <5>3. Fails(f, q, t)
          BY <4>4, <5>1, <5>2, FailedIs
        <5> QED
          BY <1>1, <1>6, <5>3
      <4>7. CASE Ready(r4, b) /\ b # 0
        <5>1. t = [rd |-> s4, tuple |-> <<key, val>>]
          BY <1>7, <1>10, <2>7, <3>6, <4>7
        <5>2. b <= C /\ v + b <= l /\ b < L /\ v + b > v
          BY <1>2, <3>1, <4>2, <4>4, <4>7
        <5>3. WholeAt(f, q)
          BY <1>2, <3>1, <4>3, <4>5, <5>2 DEF WholeAt
        <5>4. At(f, s4, v + b) /\ val = SubSeq(f, v + 1, v + b)
          <6>1. At(file, r4, v) /\ b \in Nat /\ Ready(r4, b)
            BY <1>1, <4>2, <4>4, <4>7
          <6>2. /\ At(file, Advance(r4, b), v + b)
                /\ SubSeq(r4.buf, r4.off + 1, r4.off + b) = SubSeq(file, v + 1, v + b)
            BY <6>1, AdvanceIs
          <6> QED
            BY <1>1, <1>6, <6>2
        <5>5. val = ValAt(f, q)
          BY <3>1, <4>3, <5>4 DEF ValAt
        <5>6. Finds(f, q, t)
          BY <3>3, <4>3, <5>1, <5>3, <5>4, <5>5 DEF Finds
        <5> QED
          BY <1>1, <1>6, <5>6
      <4> QED
        BY <4>6, <4>7
    <3> QED
      BY <3>5, <3>6
  <2> QED
    BY <2>6, <2>7
<1> QED
  BY <1>9, <1>10

(***************************************************************************)
(* The records of a file, and a reader in front of one of them.            *)
(***************************************************************************)
\* Tuple n, counted from 0, is whole.
WholeNth(f, n) == /\ HasHeader(f, Offsets(f)[n]) /\ Offsets(f)[n + 1] <= Len(f)
                  /\ ValEnd(f, Offsets(f)[n]) > ValStart(f, Offsets(f)[n])

\* w is what a file has of whole tuples from the start.
Listed(f, w) ==
  /\ Len(w) \in 0..Len(f)
  /\ \A n \in 0..(Len(w) - 1) :
       /\ WholeAt(f, Offsets(f)[n]) /\ Offsets(f)[n + 1] = ValEnd(f, Offsets(f)[n])
       /\ w[n + 1] = <<KeyAt(f, Offsets(f)[n]), ValAt(f, Offsets(f)[n])>>
  /\ ~WholeAt(f, Offsets(f)[Len(w)])
  /\ \A n \in 0..Len(w) : Good(f, Offsets(f)[n])

LEMMA CountExists ==
  ASSUME NEW f \in Seq(CellSet)
  PROVE  \E n \in 0..Len(f) : (\A i \in 0..n - 1 : WholeNth(f, i)) /\ (n < Len(f) => ~WholeNth(f, n))
<1>0. Len(f) \in Nat
  BY LenProperties
<1> SUFFICES ASSUME \A n \in 0..Len(f) : (\A i \in 0..n - 1 : WholeNth(f, i)) => n < Len(f) /\ WholeNth(f, n)
             PROVE  FALSE
  OBVIOUS
<1> DEFINE S == {n \in 0..Len(f) : \A i \in 0..n - 1 : WholeNth(f, i)}
<1>1. 0 \in S
  BY <1>0
<1>2. ASSUME NEW n \in 0..(Len(f) - 1), n \in S PROVE n + 1 \in S
  <2>1. n \in 0..Len(f) /\ n + 1 \in 0..Len(f)
    BY <1>0
  <2>2. WholeNth(f, n) /\ \A i \in 0..n - 1 : WholeNth(f, i)
    BY <1>2, <2>1
  <2>3. \A i \in 0..(n + 1) - 1 : i = n \/ i \in 0..n - 1
    BY <1>0
  <2>4. \A i \in 0..(n + 1) - 1 : WholeNth(f, i)
    BY <2>2, <2>3
  <2> QED
    BY <2>1, <2>4
<1> HIDE DEF S
<1>3. Len(f) \in S
  <2>1. Len(f) \in 0..Len(f)
    BY <1>0
  <2> QED
    BY <1>0, <1>1, <1>2, <2>1, InductionTo
<1>4. Len(f) < Len(f)
  <2>1. Len(f) \in 0..Len(f) /\ \A i \in 0..Len(f) - 1 : WholeNth(f, i)
    BY <1>3 DEF S
  <2> QED
    BY <2>1
<1> QED
  BY <1>0, <1>4

LEMMA RecordsAre ==
  ASSUME file \in Seq(CellSet), Clean(file)
  PROVE  Listed(file, FramedRecords)
<1>1. PICK f, l : f = file /\ l = Len(file)
  OBVIOUS
<1>2. f \in Seq(CellSet) /\ l \in Nat /\ l = Len(f) /\ Clean(f)
  BY <1>1, LenProperties
<1> DEFINE c == CHOOSE n \in 0..Len(f) : (\A i \in 0..n - 1 : WholeNth(f, i)) /\ (n < Len(f) => ~WholeNth(f, n))
           w == [i \in 1..c |-> <<KeyAt(f, Offsets(f)[i - 1]), ValAt(f, Offsets(f)[i - 1])>>]
<1>3. c \in 0..Len(f) /\ (\A i \in 0..c - 1 : WholeNth(f, i)) /\ (c < Len(f) => ~WholeNth(f, c))
  BY <1>2, CountExists
<1>4. FramedRecords = w
  BY <1>1 DEF FramedRecords, WholeNth
<1> HIDE DEF c
<1>5. c \in Nat /\ c <= l /\ c \in 0..l
  BY <1>2, <1>3
<1>6. Len(w) = c
  <2> DEFINE S == {<<KeyAt(f, Offsets(f)[i - 1]), ValAt(f, Offsets(f)[i - 1])>> : i \in 1..c}
  <2>1. w \in [1..c -> S]
    OBVIOUS
  <2> HIDE DEF S, w
  <2> QED
    BY <1>5, <2>1, SeqFrom
<1>7. ASSUME NEW n \in 0..(c - 1)
      PROVE w[n + 1] = <<KeyAt(f, Offsets(f)[n]), ValAt(f, Offsets(f)[n])>>
  <2>1. n + 1 \in 1..c /\ (n + 1) - 1 = n
    BY <1>5
  <2> QED
    BY <2>1
<1> HIDE DEF w
<1>8. ASSUME NEW n \in 0..(l - 1), HasHeader(f, Offsets(f)[n]) PROVE Offsets(f)[n + 1] = ValEnd(f, Offsets(f)[n])
  <2>1. n + 1 \in 1..l /\ (n + 1) - 1 = n
    BY <1>2
  <2>2. Offsets(f)[n + 1] = After(f, Offsets(f)[n])
    BY <1>2, <2>1, OffsetsIs
  <2> QED
    BY <1>8, <2>2 DEF After
<1>9. ASSUME NEW n \in 0..(c - 1)
      PROVE  WholeAt(f, Offsets(f)[n]) /\ Offsets(f)[n + 1] = ValEnd(f, Offsets(f)[n])
  <2>1. n \in 0..(l - 1)
    BY <1>2, <1>5
  <2>2. WholeNth(f, n)
    BY <1>3
  <2> QED
    BY <1>2, <1>8, <2>1, <2>2 DEF WholeNth, WholeAt
<1>10. ASSUME NEW n \in 0..c PROVE Reached(f, n, Offsets(f)[n])
  <2>1. n \in 0..Len(f) /\ \A i \in 0..(n - 1) : i \in 0..c - 1
    BY <1>2, <1>5
  <2>2. \A i \in 0..(n - 1) : HasHeader(f, Offsets(f)[i])
    BY <1>3, <2>1 DEF WholeNth
  <2> QED
    BY <2>1, <2>2 DEF Reached
<1>11. \A n \in 0..c : Good(f, Offsets(f)[n])
  BY <1>2, <1>10 DEF Clean
<1>12. ~WholeAt(f, Offsets(f)[c])
  <2>1. CASE c < l
    <3>1. c \in 0..(l - 1) /\ ~WholeNth(f, c)
      BY <1>2, <1>3, <1>5, <2>1
    <3> QED
      BY <1>2, <1>8, <3>1 DEF WholeNth, WholeAt
  <2>2. CASE c = l
    <3>1. c \in 0..c
      BY <1>5
    <3>2. PICK x : x = Offsets(f)[c]
      OBVIOUS
    <3>3. 2 * c <= l /\ x \in Nat
      BY <1>2, <1>10, <3>1, <3>2, ReachedBounds
    <3>4. l = 0
      BY <1>2, <1>5, <2>2, <3>3
    <3>5. ~(x < l)
      BY <3>3, <3>4
    <3> QED
      BY <1>2, <3>2, <3>5 DEF WholeAt, HasHeader
  <2> QED
    BY <1>2, <1>5, <2>1, <2>2
<1>13. Listed(f, w)
  BY <1>2, <1>5, <1>6, <1>7, <1>9, <1>11, <1>12 DEF Listed
<1> QED
  BY <1>1, <1>4, <1>13

\* The reader has read n of the records w.
Before(f, w, r, n) == n \in 0..Len(w) /\ (At(f, r, Offsets(f)[n]) \/ (n = Len(w) /\ Lost(f, r)))

LEMMA OpenedBefore ==
  ASSUME file \in Seq(CellSet), NEW w, Listed(file, w)
  PROVE  Before(file, w, Opened, 0)
<1>1. Len(file) \in Nat /\ Offsets(file)[0] = 0
  BY OffsetsIs
<1>2. 0 \in 0..Len(w)
  BY <1>1 DEF Listed
<1>3. PICK b : b = << >>
  OBVIOUS
<1>4. b \in Seq(CellSet) /\ Len(b) = 0
  BY <1>3, EmptyCells
<1>5. Opened = [pos |-> 0, buf |-> b, off |-> 0, eof |-> FALSE]
  BY <1>3 DEF Opened
<1>6. Opened \in Readers /\ Opened.pos = 0 /\ Opened.buf = b /\ Opened.off = 0 /\ Opened.eof = FALSE
  BY <1>4, <1>5 DEF Readers
<1>7. ReadCapacity \in Nat /\ 0 <= ReadCapacity
  BY PipelineAssumption
<1>8. At(file, Opened, 0)
  BY <1>1, <1>4, <1>6, <1>7 DEF At
<1> QED
  BY <1>1, <1>2, <1>8 DEF Before

\* A read gives the next record, and nothing behind the last.
Gives(f, w, t, n) ==
  /\ n < Len(w) => t.tuple = w[n + 1] /\ t.tuple # << >> /\ Before(f, w, t.rd, n + 1)
  /\ n = Len(w) => t.tuple = << >> /\ Before(f, w, t.rd, n)

LEMMA NextRecord ==
  ASSUME file \in Seq(CellSet), NEW w, Listed(file, w), NEW r, NEW n, Before(file, w, r, n)
  PROVE  Gives(file, w, NextTuple(r), n)
<1>1. PICK f, L, t, q : f = file /\ L = Len(w) /\ t = NextTuple(r) /\ q = Offsets(file)[n]
  OBVIOUS
<1>2. f \in Seq(CellSet) /\ Len(f) \in Nat /\ L \in 0..Len(f) /\ L \in Nat /\ n \in 0..L /\ n \in Nat
  <2>1. Len(f) \in Nat /\ L \in 0..Len(f) /\ n \in 0..L
    BY <1>1, LenProperties DEF Listed, Before
  <2> QED
    BY <1>1, <2>1
<1>3. Good(f, q)
  BY <1>1, <1>2 DEF Listed
<1>4. CASE n < L
  <2>1. n \in 0..(L - 1) /\ n # L /\ n + 1 \in 0..L
    BY <1>2, <1>4
  <2>2. At(f, r, q)
    BY <1>1, <2>1 DEF Before
  <2>3. WholeAt(f, q) /\ Offsets(f)[n + 1] = ValEnd(f, q) /\ w[n + 1] = <<KeyAt(f, q), ValAt(f, q)>>
    BY <1>1, <2>1 DEF Listed
  <2>4. Finds(f, q, t)
    BY <1>1, <1>3, <2>2, <2>3, NextIs DEF Fails
  <2>5. t.tuple = w[n + 1] /\ At(f, t.rd, Offsets(f)[n + 1])
    BY <2>3, <2>4 DEF Finds
  <2>6. t.tuple # << >>
    BY <2>3, <2>5
  <2>7. Before(f, w, t.rd, n + 1)
    BY <1>1, <2>1, <2>5 DEF Before
  <2> QED
    BY <1>1, <2>1, <2>5, <2>6, <2>7 DEF Gives
<1>5. CASE n = L
  <2>1. PICK p : At(f, r, p) /\ Good(f, p) /\ ~WholeAt(f, p)
    <3>1. CASE At(f, r, q)
      BY <1>1, <1>3, <1>5, <3>1 DEF Listed
    <3>2. CASE Lost(f, r)
      <4>1. PICK p : At(f, r, p) /\ Text(f, p)
        BY <3>2 DEF Lost
      <4>2. p \in Nat
        BY <4>1 DEF At
      <4> QED
        BY <1>2, <4>1, <4>2, TextNoHeader DEF WholeAt
    <3> QED
      BY <1>1, <3>1, <3>2 DEF Before
  <2>2. Fails(f, p, t)
    BY <1>1, <2>1, NextIs DEF Finds
  <2>3. t.tuple = << >> /\ Lost(f, t.rd)
    BY <2>2 DEF Fails
  <2>4. Before(f, w, t.rd, n)
    BY <1>1, <1>2, <1>5, <2>3 DEF Before
  <2>5. ~(n < L)
    BY <1>2, <1>5
  <2> QED
    BY <1>1, <2>3, <2>4, <2>5 DEF Gives
<1> QED
  BY <1>2, <1>4, <1>5

(***************************************************************************)
(* Around the end of the shard.                                            *)
(***************************************************************************)
LEMMA NextMod ==
  ASSUME NEW x \in Nat, NEW n \in Nat \ {0}
  PROVE  /\ x % n \in Nat /\ x % n < n
         /\ (x + 1) % n = IF (x % n) + 1 = n THEN 0 ELSE (x % n) + 1
<1>1. PICK q, r : q = x \div n /\ r = x % n
  OBVIOUS
<1>2. q \in Nat /\ r \in Nat /\ r < n /\ x = q * n + r
  BY <1>1
<1>3. CASE r + 1 = n
  <2>1. x + 1 = (q + 1) * n + 0
    BY <1>2, <1>3
  <2>2. ((q + 1) * n + 0) % n = 0
    BY <1>2
  <2> QED
    BY <1>1, <1>2, <1>3, <2>1, <2>2
<1>4. CASE r + 1 # n
  <2>1. r + 1 < n /\ x + 1 = q * n + (r + 1)
    BY <1>2, <1>4
  <2>2. (q * n + (r + 1)) % n = r + 1
    BY <1>2, <2>1
  <2> QED
    BY <1>1, <1>2, <1>4, <2>1, <2>2
<1> QED
  BY <1>3, <1>4

LEMMA ModSmall == ASSUME NEW n \in Nat \ {0}, NEW x \in 0..n PROVE x % n = IF x = n THEN 0 ELSE x
<1>1. CASE x = n
  <2>1. n = 1 * n + 0
    OBVIOUS
  <2>2. (1 * n + 0) % n = 0
    OBVIOUS
  <2> QED
    BY <1>1, <2>1, <2>2
<1>2. CASE x # n
  <2>1. x \in 0..(n - 1) /\ x = 0 * n + x
    BY <1>2
  <2>2. (0 * n + x) % n = x
    BY <2>1
  <2> QED
    BY <1>2, <2>1, <2>2
<1> QED
  BY <1>1, <1>2

\* The record with number k, around the end of the shard.
Nth(w, k) == w[(k % Len(w)) + 1]

Listing(w) == {w[i] : i \in 1..Len(w)}

\* s has the records from number a on.
Seg(w, s, a) == s \in Seq(Listing(w)) /\ \A i \in 1..Len(s) : s[i] = Nth(w, a + i - 1)

\* The reader r is in front of record a.
Due(f, w, r, a) == \E p : Before(f, w, r, p) /\ (Len(w) # 0 => p % Len(w) = a % Len(w))

LEMMA SegEmpty == ASSUME NEW w, NEW a PROVE Seg(w, << >>, a)
<1>1. PICK s : s = << >>
  OBVIOUS
<1>2. s \in Seq(Listing(w)) /\ Len(s) = 0
  BY <1>1, EmptySeq
<1>3. Seg(w, s, a)
  BY <1>2 DEF Seg
<1> QED
  BY <1>1, <1>3

LEMMA SegAppend ==
  ASSUME NEW w, NEW a \in Nat, NEW s, Seg(w, s, a), NEW x \in Listing(w), x = Nth(w, a + Len(s))
  PROVE  Seg(w, Append(s, x), a) /\ Len(Append(s, x)) = Len(s) + 1
<1>1. PICK S, t, n : S = Listing(w) /\ t = Append(s, x) /\ n = Len(s)
  OBVIOUS
<1>2. s \in Seq(S) /\ x \in S /\ n \in Nat /\ \A i \in 1..n : s[i] = Nth(w, a + i - 1)
  BY <1>1, LenProperties DEF Seg
<1>3. t \in Seq(S) /\ Len(t) = n + 1 /\ (\A i \in 1..n : t[i] = s[i]) /\ t[n + 1] = x
  BY <1>1, <1>2, AppendProperties
<1>4. ASSUME NEW i \in 1..(n + 1) PROVE t[i] = Nth(w, a + i - 1)
  <2>1. CASE i = n + 1
    <3>1. a + i - 1 = a + n
      BY <1>2, <2>1
    <3> QED
      BY <1>1, <1>3, <2>1, <3>1
  <2>2. CASE i # n + 1
    <3>1. i \in 1..n
      BY <1>2, <2>2
    <3> QED
      BY <1>2, <1>3, <3>1
  <2> QED
    BY <2>1, <2>2
<1>5. Seg(w, t, a)
  BY <1>1, <1>3, <1>4 DEF Seg
<1> QED
  BY <1>1, <1>3, <1>5

LEMMA SegConcat ==
  ASSUME NEW w, NEW a \in Nat, NEW s, NEW t, Seg(w, s, a), Seg(w, t, a + Len(s))
  PROVE  Seg(w, s \o t, a) /\ Len(s \o t) = Len(s) + Len(t)
<1>1. PICK S, u, n, m : S = Listing(w) /\ u = s \o t /\ n = Len(s) /\ m = Len(t)
  OBVIOUS
<1>2. /\ s \in Seq(S) /\ n \in Nat /\ (\A i \in 1..n : s[i] = Nth(w, a + i - 1))
      /\ t \in Seq(S) /\ m \in Nat /\ \A i \in 1..m : t[i] = Nth(w, (a + n) + i - 1)
  BY <1>1, LenProperties DEF Seg
<1>3. /\ u \in Seq(S) /\ Len(u) = n + m
      /\ \A i \in 1..(n + m) : u[i] = IF i <= n THEN s[i] ELSE t[i - n]
  <2>1. /\ u \in Seq(S) /\ Len(u) = Len(s) + Len(t)
        /\ \A i \in 1..(Len(s) + Len(t)) : u[i] = IF i <= Len(s) THEN s[i] ELSE t[i - Len(s)]
    BY <1>1, <1>2, ConcatProperties
  <2> QED
    BY <1>1, <2>1
<1>4. ASSUME NEW i \in 1..(n + m) PROVE u[i] = Nth(w, a + i - 1)
  <2>1. CASE i <= n
    <3>1. i \in 1..n
      BY <1>2, <2>1
    <3> QED
      BY <1>2, <1>3, <2>1, <3>1
  <2>2. CASE ~(i <= n)
    <3>1. PICK j : j = i - n
      OBVIOUS
    <3>2. j \in 1..m /\ (a + n) + j - 1 = a + i - 1
      BY <1>2, <2>2, <3>1
    <3> QED
      BY <1>2, <1>3, <2>2, <3>1, <3>2
  <2> QED
    BY <2>1, <2>2
<1>5. Seg(w, u, a)
  BY <1>1, <1>3, <1>4 DEF Seg
<1> QED
  BY <1>1, <1>3, <1>5

\* A read of the data layer gives record a, from the first again if need be.
LEMMA ReadsInTurn ==
  ASSUME file \in Seq(CellSet), NEW w, Listed(file, w), NEW r, NEW a \in Nat, Due(file, w, r, a),
         NEW u, u = (IF NextTuple(r).tuple = << >> THEN FirstAgain ELSE NextTuple(r)), u.tuple # << >>
  PROVE  u.tuple = Nth(w, a) /\ u.tuple \in Listing(w) /\ Due(file, w, u.rd, a + 1)
<1>1. PICK f, t, L : f = file /\ t = NextTuple(r) /\ L = Len(w)
  OBVIOUS
<1>2. L \in Nat
  <2>1. Len(f) \in Nat /\ L \in 0..Len(f)
    BY <1>1, LenProperties DEF Listed
  <2> QED
    BY <2>1
<1>3. PICK p : Before(f, w, r, p) /\ (L # 0 => p % L = a % L)
  BY <1>1 DEF Due
<1>4. p \in 0..L /\ p \in Nat
  <2>1. p \in 0..L
    BY <1>1, <1>3 DEF Before
  <2> QED
    BY <1>2, <2>1
<1>5. Gives(f, w, t, p)
  BY <1>1, <1>3, NextRecord
<1>6. ASSUME NEW q \in Nat, q < L, q = a % L, u.tuple = w[q + 1], Before(f, w, u.rd, q + 1)
      PROVE  u.tuple = Nth(w, a) /\ u.tuple \in Listing(w) /\ Due(f, w, u.rd, a + 1)
  <2>1. L \in Nat \ {0} /\ q + 1 \in 1..L /\ q + 1 \in 0..L
    BY <1>2, <1>6
  <2>2. (q + 1) % L = IF q + 1 = L THEN 0 ELSE q + 1
    BY <2>1, ModSmall
  <2>3. (a + 1) % L = IF (a % L) + 1 = L THEN 0 ELSE (a % L) + 1
    BY <2>1, NextMod
  <2>4. (q + 1) % L = (a + 1) % L
    BY <1>6, <2>2, <2>3
  <2>5. Due(f, w, u.rd, a + 1)
    BY <1>1, <1>6, <2>4 DEF Due
  <2>6. u.tuple = Nth(w, a)
    BY <1>1, <1>6 DEF Nth
  <2>7. u.tuple \in Listing(w)
    BY <1>1, <1>6, <2>1 DEF Listing
  <2> QED
    BY <2>5, <2>6, <2>7
<1>7. CASE p < L
  <2>1. t.tuple = w[p + 1] /\ t.tuple # << >> /\ Before(f, w, t.rd, p + 1)
    BY <1>1, <1>5, <1>7 DEF Gives
  <2>2. u = t
    BY <1>1, <2>1
  <2>3. L \in Nat \ {0} /\ p # L
    BY <1>2, <1>4, <1>7
  <2>4. p = a % L
    BY <1>3, <1>4, <2>3, ModSmall
  <2> QED
    BY <1>1, <1>4, <1>6, <1>7, <2>1, <2>2, <2>4
<1>8. CASE p = L
  <2>1. t.tuple = << >>
    BY <1>1, <1>5, <1>8 DEF Gives
  <2>2. u = NextTuple(Opened)
    BY <1>1, <2>1 DEF FirstAgain
  <2>3. PICK z \in Nat : z = 0
    OBVIOUS
  <2>4. Gives(f, w, u, z)
    BY <1>1, <2>2, <2>3, OpenedBefore, NextRecord
  <2>5. L # 0
    BY <1>1, <2>3, <2>4 DEF Gives
  <2>6. L \in Nat \ {0} /\ z < L
    BY <1>2, <2>3, <2>5
  <2>7. z = a % L
    BY <1>3, <1>4, <1>8, <2>3, <2>6, ModSmall
  <2>8. u.tuple = w[z + 1] /\ Before(f, w, u.rd, z + 1)
    BY <1>1, <2>4, <2>6 DEF Gives
  <2> QED
    BY <1>1, <1>6, <2>6, <2>7, <2>8
<1> QED
  BY <1>2, <1>4, <1>7, <1>8

(***************************************************************************)
(* The invariant of the layers.                                            *)
(***************************************************************************)
\* Behind the sample and n more records.
Start(w, n) == Min({1 + n, Len(w)})

\* The number of the first record of the batch being filled: behind what the
\* forward pass has used and the batch it has in hand.
Base(a, m, b, g) == a + Len(g) + (IF m = "use" THEN Len(b) ELSE 0)

\* A data layer that has the sample and has not skipped all it has to.
Skipping(f, w, r, left, all, rs, th, m, g) ==
  /\ m = "want" /\ th \in {"none", "run"} /\ rs = << >> /\ g = << >>
  /\ left \in Int /\ -1 <= left /\ left <= all
  /\ Before(f, w, r, Start(w, IF left = -1 THEN 0 ELSE all - left))

\* Batches from record a on.
Fetching(f, w, a, r, rs, d, b, th, m, g) ==
  /\ m \in {"want", "use", "stop", "stopped"} /\ th \in {"run", "done"}
  /\ Seg(w, g, a)
  /\ m = "use" => Seg(w, b, a + Len(g))
  /\ Seg(w, rs, Base(a, m, b, g))
  /\ th = "done" => d = rs
  /\ Due(f, w, r, Base(a, m, b, g) + Len(rs))

Reading(f, w) ==
  \/ main = "fatal" /\ thread = "none" /\ Seg(w, got, Start(w, skipped))
  \/ skip # 0 /\ Skipping(f, w, rd, skip, skipped, records, thread, main, got)
  \/ skip = 0 /\ Fetching(f, w, Start(w, skipped), rd, records, data, blob, thread, main, got)

PipeInv ==
  \/ main = "none" /\ skip = -1 /\ skipped = 0 /\ records = << >> /\ got = << >> /\ thread = "none"
  \/ main # "none" /\ mode = "none" /\ skipped \in Nat /\ Reading(file, FramedRecords)

LEMMA StartIs ==
  ASSUME NEW w, Len(w) \in Nat, NEW n \in Nat
  PROVE  Start(w, n) \in Nat /\ Start(w, n) = IF 1 + n <= Len(w) THEN 1 + n ELSE Len(w)
<1>1. PICK c, l : c = 1 + n /\ l = Len(w)
  OBVIOUS
<1>2. c \in Nat /\ l \in Nat
  BY <1>1
<1>3. Min({c, l}) = IF c <= l THEN c ELSE l
  BY <1>2, MinIs
<1> QED
  BY <1>1, <1>2, <1>3 DEF Start

LEMMA BaseIs ==
  ASSUME NEW w, NEW a \in Nat, NEW m, NEW b, NEW g, Seg(w, g, a), m = "use" => Seg(w, b, a + Len(g))
  PROVE  Len(g) \in Nat /\ Base(a, m, b, g) \in Nat /\ (m = "use" => Len(b) \in Nat)
<1>1. Len(g) \in Nat /\ (m = "use" => Len(b) \in Nat)
  BY LenProperties DEF Seg
<1>2. CASE m = "use"
  <2>1. Base(a, m, b, g) = a + Len(g) + Len(b)
    BY <1>2 DEF Base
  <2> QED
    BY <1>1, <1>2, <2>1
<1>3. CASE m # "use"
  <2>1. Base(a, m, b, g) = a + Len(g) + 0
    BY <1>3 DEF Base
  <2> QED
    BY <1>1, <1>3, <2>1
<1> QED
  BY <1>2, <1>3

LEMMA FetchBegins ==
  ASSUME NEW f, NEW w, NEW a \in Nat, NEW r, NEW d, NEW b, Before(f, w, r, a)
  PROVE  Fetching(f, w, a, r, << >>, d, b, "run", "want", << >>)
<1>1. PICK e : e = << >>
  OBVIOUS
<1>2. Len(e) = 0 /\ Base(a, "want", b, e) = a /\ a + Len(e) = a
  BY <1>1, EmptySeq DEF Base
<1>3. Seg(w, e, a)
  BY <1>1, SegEmpty
<1>4. Due(f, w, r, a)
  BY DEF Due
<1>5. Fetching(f, w, a, r, e, d, b, "run", "want", e)
  BY <1>2, <1>3, <1>4 DEF Fetching
<1> QED
  BY <1>1, <1>5

LEMMA FetchJoins ==
  ASSUME NEW f, NEW w, NEW a \in Nat, NEW r, NEW rs, NEW d, NEW b, NEW g,
         Fetching(f, w, a, r, rs, d, b, "done", "want", g)
  PROVE  Fetching(f, w, a, r, << >>, d, d, "run", "use", g)
<1>1. PICK e, x, y : e = << >> /\ x = Base(a, "want", b, g) /\ y = Base(a, "use", d, g)
  OBVIOUS
<1>2. Seg(w, g, a) /\ d = rs /\ Seg(w, rs, x) /\ Due(f, w, r, x + Len(rs))
  BY <1>1 DEF Fetching
<1>3. Len(g) \in Nat /\ Len(rs) \in Nat /\ Len(e) = 0
  BY <1>1, <1>2, EmptySeq, LenProperties DEF Seg
<1>4. x = a + Len(g) /\ y = a + Len(g) + Len(rs)
  BY <1>1, <1>2, <1>3 DEF Base
<1>5. y + Len(e) = x + Len(rs) /\ y \in Nat
  BY <1>3, <1>4
<1>6. Seg(w, e, y)
  BY <1>1, SegEmpty
<1>7. Seg(w, d, a + Len(g)) /\ Due(f, w, r, y + Len(e))
  BY <1>2, <1>4, <1>5
<1>8. Fetching(f, w, a, r, e, d, d, "run", "use", g)
  BY <1>1, <1>2, <1>6, <1>7 DEF Fetching
<1> QED
  BY <1>1, <1>8

LEMMA FetchForwards ==
  ASSUME NEW f, NEW w, NEW a \in Nat, NEW r, NEW rs, NEW d, NEW b, NEW th, NEW g,
         Fetching(f, w, a, r, rs, d, b, th, "use", g), NEW m \in {"want", "stop"}
  PROVE  Fetching(f, w, a, r, rs, d, b, th, m, g \o b)
<1>1. PICK h, x, y : h = g \o b /\ x = Base(a, "use", b, g) /\ y = Base(a, m, b, h)
  OBVIOUS
<1>2. /\ Seg(w, g, a) /\ Seg(w, b, a + Len(g)) /\ Seg(w, rs, x) /\ Due(f, w, r, x + Len(rs))
      /\ th \in {"run", "done"} /\ (th = "done" => d = rs)
  BY <1>1 DEF Fetching
<1>3. Seg(w, h, a) /\ Len(h) = Len(g) + Len(b)
  BY <1>1, <1>2, SegConcat
<1>4. Len(g) \in Nat /\ Len(b) \in Nat
  BY <1>2, LenProperties DEF Seg
<1>5. x = a + Len(g) + Len(b) /\ y = a + Len(h) + 0
  BY <1>1 DEF Base
<1>6. y = x
  BY <1>3, <1>4, <1>5
<1>7. Fetching(f, w, a, r, rs, d, b, th, m, h)
  BY <1>1, <1>2, <1>3, <1>6 DEF Fetching
<1> QED
  BY <1>1, <1>7

LEMMA FetchReads ==
  ASSUME NEW f, NEW w, NEW a \in Nat, NEW r, NEW rs, NEW d, NEW b, NEW m, NEW g,
         Fetching(f, w, a, r, rs, d, b, "run", m, g), NEW s, NEW x \in Listing(w),
         x = Nth(w, Base(a, m, b, g) + Len(rs)), Due(f, w, s, (Base(a, m, b, g) + Len(rs)) + 1)
  PROVE  Fetching(f, w, a, s, Append(rs, x), d, b, "run", m, g)
<1>1. PICK h, z, n : h = Append(rs, x) /\ z = Base(a, m, b, g) /\ n = Len(rs)
  OBVIOUS
<1>2. /\ Seg(w, g, a) /\ (m = "use" => Seg(w, b, a + Len(g))) /\ Seg(w, rs, z)
      /\ m \in {"want", "use", "stop", "stopped"}
  BY <1>1 DEF Fetching
<1>3. z \in Nat
  BY <1>1, <1>2, BaseIs
<1>4. Seg(w, h, z) /\ Len(h) = n + 1
  BY <1>1, <1>2, <1>3, SegAppend
<1>5. n \in Nat
  BY <1>1, <1>2, LenProperties DEF Seg
<1>6. z + Len(h) = (z + n) + 1
  BY <1>3, <1>4, <1>5
<1>7. Due(f, w, s, z + Len(h))
  BY <1>1, <1>6
<1>8. Fetching(f, w, a, s, h, d, b, "run", m, g)
  BY <1>1, <1>2, <1>4, <1>7 DEF Fetching
<1> QED
  BY <1>1, <1>8

LEMMA FetchParses ==
  ASSUME NEW f, NEW w, NEW a, NEW r, NEW rs, NEW d, NEW b, NEW m, NEW g,
         Fetching(f, w, a, r, rs, d, b, "run", m, g)
  PROVE  Fetching(f, w, a, r, rs, rs, b, "done", m, g)
BY DEF Fetching

LEMMA FetchStops ==
  ASSUME NEW f, NEW w, NEW a, NEW r, NEW rs, NEW d, NEW b, NEW th, NEW g,
         Fetching(f, w, a, r, rs, d, b, th, "stop", g)
  PROVE  Fetching(f, w, a, r, rs, d, b, th, "stopped", g)
<1>1. Base(a, "stopped", b, g) = Base(a, "stop", b, g)
  BY DEF Base
<1> QED
  BY <1>1 DEF Fetching

\* Skipping a record, or having none left to skip to.
LEMMA SkipsOne ==
  ASSUME file \in Seq(CellSet), NEW w, Listed(file, w), NEW r, NEW n \in Nat, Before(file, w, r, Start(w, n))
  PROVE  Before(file, w, NextTuple(r).rd, Start(w, n + 1))
<1>1. PICK f, t, L, p : f = file /\ t = NextTuple(r) /\ L = Len(w) /\ p = Start(w, n)
  OBVIOUS
<1>2. L \in Nat
  <2>1. Len(f) \in Nat /\ L \in 0..Len(f)
    BY <1>1, LenProperties DEF Listed
  <2> QED
    BY <2>1
<1>3. p = (IF 1 + n <= L THEN 1 + n ELSE L) /\ p \in Nat
  BY <1>1, <1>2, StartIs
<1>4. n + 1 \in Nat
  OBVIOUS
<1>5. Start(w, n + 1) = IF 1 + (n + 1) <= L THEN 1 + (n + 1) ELSE L
  BY <1>1, <1>2, <1>4, StartIs
<1>6. Gives(f, w, t, p)
  BY <1>1, NextRecord
<1>7. CASE p < L
  <2>1. Start(w, n + 1) = p + 1
    BY <1>2, <1>3, <1>5, <1>7
  <2>2. Before(f, w, t.rd, p + 1)
    BY <1>1, <1>6, <1>7 DEF Gives
  <2> QED
    BY <1>1, <2>1, <2>2
<1>8. CASE ~(p < L)
  <2>1. p = L /\ Start(w, n + 1) = p
    BY <1>2, <1>3, <1>5, <1>8
  <2>2. Before(f, w, t.rd, p)
    BY <1>1, <1>6, <2>1 DEF Gives
  <2> QED
    BY <1>1, <2>1, <2>2
<1> QED
  BY <1>7, <1>8

(***************************************************************************)
(* One lemma per action of the layers.                                     *)
(***************************************************************************)
LEMMA Scene ==
  ASSUME ShardInv, CleanInv, mode = "none"
  PROVE  file \in Seq(CellSet) /\ Listed(file, FramedRecords) /\ Len(FramedRecords) \in Nat
<1>1. file \in Seq(CellSet) /\ Clean(file)
  BY DEF ShardInv, CleanInv, Idle
<1>2. Listed(file, FramedRecords)
  BY <1>1, RecordsAre
<1>3. Len(file) \in Nat /\ Len(FramedRecords) \in 0..Len(file)
  BY <1>1, <1>2, LenProperties DEF Listed
<1> QED
  BY <1>1, <1>2, <1>3

\* A step of the reader leaves the file, and goes on with one of the three.
LEMMA ReaderGoes ==
  ASSUME mode = "none", UNCHANGED shardVars, main' # "none", skipped' \in Nat,
         NEW f, NEW w, f = file, w = FramedRecords,
         \/ main' = "fatal" /\ thread' = "none" /\ Seg(w, got', Start(w, skipped'))
         \/ skip' # 0 /\ Skipping(f, w, rd', skip', skipped', records', thread', main', got')
         \/ skip' = 0 /\ Fetching(f, w, Start(w, skipped'), rd', records', data', blob', thread', main', got')
  PROVE  PipeInv'
<1>1. file' = file /\ mode' = mode
  BY DEF shardVars
<1>2. FramedRecords' = FramedRecords
  BY <1>1 DEF FramedRecords
<1>3. Reading(f, w)'
  BY DEF Reading
<1>4. Reading(file, FramedRecords)'
  BY <1>1, <1>2, <1>3
<1> QED
  BY <1>1, <1>4 DEF PipeInv

LEMMA SetupKeeps == ASSUME ShardInv, CleanInv, PipeInv, Setup PROVE PipeInv'
<1>1. /\ main = "none" /\ mode = "none" /\ rd' = NextTuple(Opened).rd /\ main' = "want" /\ UNCHANGED shardVars
      /\ skip' = skip /\ skipped' = skipped /\ records' = records /\ thread' = thread /\ got' = got
  BY DEF Setup
<1>2. skip = -1 /\ skipped = 0 /\ records = << >> /\ got = << >> /\ thread = "none"
  BY <1>1 DEF PipeInv
<1>3. PICK f, w, L, t : f = file /\ w = FramedRecords /\ L = Len(w) /\ t = NextTuple(Opened)
  OBVIOUS
<1>4. f \in Seq(CellSet) /\ Listed(f, w) /\ L \in Nat
  BY <1>1, <1>3, Scene
<1>5. PICK z \in Nat : z = 0
  OBVIOUS
<1>6. Gives(f, w, t, z)
  BY <1>3, <1>4, <1>5, OpenedBefore, NextRecord
<1>7. Start(w, z) = IF 1 + z <= L THEN 1 + z ELSE L
  BY <1>3, <1>4, StartIs
<1>8. Before(f, w, t.rd, Start(w, z))
  <2>1. CASE z < L
    <3>1. Start(w, z) = z + 1
      BY <1>4, <1>5, <1>7, <2>1
    <3> QED
      BY <1>3, <1>6, <2>1, <3>1 DEF Gives
  <2>2. CASE ~(z < L)
    <3>1. z = L /\ Start(w, z) = z
      BY <1>4, <1>5, <1>7, <2>2
    <3> QED
      BY <1>3, <1>6, <3>1 DEF Gives
  <2> QED
    BY <2>1, <2>2
<1>9. Skipping(f, w, rd', skip', skipped', records', thread', main', got')
  <2>1. skip' = -1 /\ skip' \in Int /\ -1 <= skip' /\ skip' <= skipped'
    BY <1>1, <1>2
  <2> QED
    BY <1>1, <1>2, <1>3, <1>5, <1>8, <2>1 DEF Skipping
<1>10. skip' # 0 /\ skipped' \in Nat /\ main' # "none"
  BY <1>1, <1>2
<1> QED
  BY <1>1, <1>3, <1>9, <1>10, ReaderGoes

\* What is known before a step of the layers.
LEMMA ReaderAt ==
  ASSUME ShardInv, CleanInv, PipeInv, main # "none"
  PROVE  /\ mode = "none" /\ skipped \in Nat
         /\ file \in Seq(CellSet) /\ Listed(file, FramedRecords) /\ Len(FramedRecords) \in Nat
         /\ Start(FramedRecords, skipped) \in Nat
         /\ Reading(file, FramedRecords)
<1>1. mode = "none" /\ skipped \in Nat /\ Reading(file, FramedRecords)
  BY DEF PipeInv
<1>2. file \in Seq(CellSet) /\ Listed(file, FramedRecords) /\ Len(FramedRecords) \in Nat
  BY <1>1, Scene
<1>3. Start(FramedRecords, skipped) \in Nat
  BY <1>1, <1>2, StartIs
<1> QED
  BY <1>1, <1>2, <1>3

LEMMA MainKeeps == ASSUME ShardInv, CleanInv, PipeInv, PrefetchNow \/ JoinAndCopy \/ Forward \/ Stop PROVE PipeInv'
<1>0. main # "none" /\ UNCHANGED shardVars /\ rd' = rd /\ skip' = skip /\ skipped' = skipped
  BY DEF PrefetchNow, JoinAndCopy, Forward, Stop
<1>1. PICK f, w, a : f = file /\ w = FramedRecords /\ a = Start(FramedRecords, skipped)
  OBVIOUS
<1>2. mode = "none" /\ skipped' \in Nat /\ a \in Nat /\ a = Start(w, skipped) /\ Reading(f, w)
  BY <1>0, <1>1, ReaderAt
<1>3. CASE PrefetchNow
  <2>1. /\ main = "want" /\ thread = "none" /\ thread' = "run" /\ main' = main
        /\ records' = records /\ got' = got
    BY <1>3 DEF PrefetchNow
  <2>2. skip # 0 /\ Skipping(f, w, rd, skip, skipped, records, thread, main, got)
    BY <1>2, <2>1 DEF Reading, Fetching
  <2>3. Skipping(f, w, rd', skip', skipped', records', thread', main', got')
    BY <1>0, <2>1, <2>2 DEF Skipping
  <2> QED
    BY <1>0, <1>1, <1>2, <2>1, <2>2, <2>3, ReaderGoes
<1>4. CASE JoinAndCopy
  <2>1. /\ main = "want" /\ thread = "done" /\ blob' = data /\ records' = << >> /\ thread' = "run" /\ main' = "use"
        /\ data' = data /\ got' = got
    BY <1>4 DEF JoinAndCopy
  <2>2. skip = 0 /\ Fetching(f, w, a, rd, records, data, blob, "done", "want", got)
    BY <1>2, <2>1 DEF Reading, Skipping
  <2>3. Fetching(f, w, a, rd', records', data', blob', thread', main', got')
    BY <1>0, <1>2, <2>1, <2>2, FetchJoins
  <2> QED
    BY <1>0, <1>1, <1>2, <2>1, <2>2, <2>3, ReaderGoes
<1>5. CASE Forward
  <2>1. /\ main = "use" /\ got' = got \o blob /\ main' \in {"want", "stop"}
        /\ records' = records /\ data' = data /\ blob' = blob /\ thread' = thread
    BY <1>5 DEF Forward
  <2>2. skip = 0 /\ Fetching(f, w, a, rd, records, data, blob, thread, "use", got)
    BY <1>2, <2>1 DEF Reading, Skipping
  <2>3. Fetching(f, w, a, rd, records, data, blob, thread, main', got \o blob)
    BY <1>2, <2>1, <2>2, FetchForwards
  <2>4. Fetching(f, w, a, rd', records', data', blob', thread', main', got')
    BY <1>0, <2>1, <2>3
  <2>5. main' # "none"
    BY <2>1
  <2> QED
    BY <1>0, <1>1, <1>2, <2>2, <2>4, <2>5, ReaderGoes
<1>6. CASE Stop
  <2>1. /\ main = "stop" /\ main' = "stopped" /\ thread = "done"
        /\ records' = records /\ data' = data /\ blob' = blob /\ thread' = thread /\ got' = got
    BY <1>6 DEF Stop
  <2>2. skip = 0 /\ Fetching(f, w, a, rd, records, data, blob, thread, "stop", got)
    BY <1>2, <2>1 DEF Reading, Skipping
  <2>3. Fetching(f, w, a, rd', records', data', blob', thread', main', got')
    BY <1>0, <2>1, <2>2, FetchStops
  <2> QED
    BY <1>0, <1>1, <1>2, <2>1, <2>2, <2>3, ReaderGoes
<1> QED
  BY <1>3, <1>4, <1>5, <1>6

LEMMA ThreadKeeps == ASSUME ShardInv, CleanInv, PipeInv, ThreadStep PROVE PipeInv'
<1>0. thread = "run" /\ UNCHANGED shardVars /\ got' = got /\ blob' = blob
  BY DEF ThreadStep, DrawSkip, SkipRecord, ReadRecord, ParseRecords
<1>1. PICK f, w, a, L : f = file /\ w = FramedRecords /\ a = Start(FramedRecords, skipped) /\ L = Len(FramedRecords)
  OBVIOUS
<1>2. main # "none"
  BY <1>0 DEF PipeInv
<1>3. mode = "none" /\ skipped \in Nat /\ a \in Nat /\ a = Start(w, skipped) /\ Reading(f, w)
  BY <1>1, <1>2, ReaderAt
<1>4. f \in Seq(CellSet) /\ Listed(f, w) /\ L \in Nat
  BY <1>1, <1>2, ReaderAt
<1>5. CASE DrawSkip
  <2>1. /\ skip = -1 /\ rd' = rd /\ records' = records /\ data' = data /\ thread' = thread /\ main' = main
        /\ skip' \in (IF RandomSkip = 0 THEN {0} ELSE 0..RandomSkip - 1) /\ skipped' = skip'
    BY <1>5 DEF DrawSkip
  <2>2. skip' \in Nat /\ skipped' \in Nat
    BY <2>1, PipelineAssumption
  <2>3. Skipping(f, w, rd, skip, skipped, records, thread, main, got)
    BY <1>0, <1>3, <2>1 DEF Reading
  <2>4. main = "want" /\ records = << >> /\ got = << >> /\ Before(f, w, rd, Start(w, 0))
    BY <2>1, <2>3 DEF Skipping
  <2>5. CASE skip' = 0
    <3>1. PICK z \in Nat : z = Start(w, skipped')
      BY <1>1, <1>4, <2>2, StartIs
    <3>2. Before(f, w, rd, z)
      BY <2>1, <2>4, <2>5, <3>1
    <3>3. Fetching(f, w, z, rd', records', data', blob', thread', main', got')
      BY <1>0, <2>1, <2>4, <3>2, FetchBegins
    <3> QED
      BY <1>0, <1>1, <1>2, <1>3, <2>1, <2>2, <2>5, <3>1, <3>3, ReaderGoes
  <2>6. CASE skip' # 0
    <3>1. skip' \in Int /\ -1 <= skip' /\ skip' <= skipped' /\ skip' # -1 /\ skipped' - skip' = 0
      <4>1. PICK n \in Nat : n = skip'
        BY <2>2
      <4>2. skipped' = n
        BY <2>1, <4>1
      <4>3. n \in Int /\ -1 <= n /\ n <= n /\ n - n = 0
        OBVIOUS
      <4>4. n # -1
        OBVIOUS
      <4> QED
        BY <4>1, <4>2, <4>3, <4>4
    <3>2. Skipping(f, w, rd', skip', skipped', records', thread', main', got')
      BY <1>0, <2>1, <2>4, <3>1 DEF Skipping
    <3> QED
      BY <1>0, <1>1, <1>2, <1>3, <2>1, <2>2, <2>6, <3>2, ReaderGoes
  <2> QED
    BY <2>5, <2>6
<1>6. CASE SkipRecord
  <2>1. /\ skip > 0 /\ skip' = skip - 1 /\ rd' = NextTuple(rd).rd /\ skipped' = skipped
        /\ records' = records /\ data' = data /\ thread' = thread /\ main' = main
    BY <1>6 DEF SkipRecord
  <2>2. skip # 0 /\ skip # -1
    BY <2>1
  <2>3. Skipping(f, w, rd, skip, skipped, records, thread, main, got)
    BY <1>0, <1>3, <2>2 DEF Reading
  <2>4. /\ main = "want" /\ records = << >> /\ got = << >> /\ skip \in Int /\ skip <= skipped
        /\ Before(f, w, rd, Start(w, skipped - skip))
    BY <2>2, <2>3 DEF Skipping
  <2>5. PICK n : n = skipped - skip
    OBVIOUS
  <2>6. n \in Nat /\ skip' \in Int /\ skip' # -1 /\ -1 <= skip' /\ skip' <= skipped' /\ n + 1 = skipped' - skip'
    BY <1>3, <2>1, <2>4, <2>5
  <2>7. Before(f, w, rd', Start(w, n + 1))
    BY <1>1, <1>4, <2>1, <2>4, <2>5, <2>6, SkipsOne
  <2>8. CASE skip' # 0
    <3>1. Skipping(f, w, rd', skip', skipped', records', thread', main', got')
      BY <1>0, <2>1, <2>4, <2>6, <2>7 DEF Skipping
    <3> QED
      BY <1>0, <1>1, <1>2, <1>3, <2>1, <2>8, <3>1, ReaderGoes
  <2>9. CASE skip' = 0
    <3>1. n + 1 = skipped
      BY <1>3, <2>1, <2>6, <2>9
    <3>2. Before(f, w, rd', a)
      BY <1>3, <2>7, <3>1
    <3>3. Fetching(f, w, a, rd', records', data', blob', thread', main', got')
      BY <1>0, <1>3, <2>1, <2>4, <3>2, FetchBegins
    <3> QED
      BY <1>0, <1>1, <1>2, <1>3, <2>1, <2>9, <3>3, ReaderGoes
  <2> QED
    BY <2>8, <2>9
<1>7. CASE ReadRecord
  <2>1. PICK u : u = IF NextTuple(rd).tuple = << >> THEN FirstAgain ELSE NextTuple(rd)
    OBVIOUS
  <2>2. /\ skip = 0 /\ skip' = skip /\ skipped' = skipped /\ data' = data /\ rd' = u.rd
        /\ u.tuple = << >> => main' = "fatal" /\ thread' = "none"
        /\ u.tuple # << >> => records' = Append(records, u.tuple) /\ main' = main /\ thread' = thread
    BY <1>7, <2>1 DEF ReadRecord
  <2>3. Fetching(f, w, a, rd, records, data, blob, "run", main, got)
    BY <1>0, <1>3, <2>2 DEF Reading
  <2>4. CASE u.tuple = << >>
    <3>1. Seg(w, got, a)
      BY <2>3 DEF Fetching
    <3>2. main' # "none" /\ skipped' \in Nat /\ main' = "fatal" /\ thread' = "none" /\ Seg(w, got', Start(w, skipped'))
      BY <1>0, <1>3, <2>2, <2>4, <3>1
    <3> QED
      BY <1>0, <1>1, <1>3, <3>2, ReaderGoes
  <2>5. CASE u.tuple # << >>
    <3>1. PICK z : z = Base(a, main, blob, got) + Len(records)
      OBVIOUS
    <3>2. /\ Due(f, w, rd, z) /\ Seg(w, got, a) /\ (main = "use" => Seg(w, blob, a + Len(got)))
          /\ Seg(w, records, Base(a, main, blob, got))
      BY <2>3, <3>1 DEF Fetching
    <3>3. z \in Nat
      <4>1. Base(a, main, blob, got) \in Nat /\ Len(records) \in Nat
        BY <1>3, <3>2, BaseIs, LenProperties DEF Seg
      <4> QED
        BY <3>1, <4>1
    <3>4. u.tuple = Nth(w, z) /\ u.tuple \in Listing(w) /\ Due(f, w, u.rd, z + 1)
      BY <1>1, <1>4, <2>1, <2>5, <3>2, <3>3, ReadsInTurn
    <3>5. Fetching(f, w, a, u.rd, Append(records, u.tuple), data, blob, "run", main, got)
      BY <1>3, <2>3, <3>1, <3>4, FetchReads
    <3>6. Fetching(f, w, a, rd', records', data', blob', thread', main', got')
      BY <1>0, <2>2, <2>5, <3>5
    <3> QED
      BY <1>0, <1>1, <1>2, <1>3, <2>2, <2>5, <3>6, ReaderGoes
  <2> QED
    BY <2>4, <2>5
<1>8. CASE ParseRecords
  <2>1. /\ skip = 0 /\ skip' = skip /\ skipped' = skipped /\ rd' = rd /\ records' = records /\ main' = main
        /\ data' = records /\ thread' = "done"
    BY <1>8 DEF ParseRecords
  <2>2. Fetching(f, w, a, rd, records, data, blob, "run", main, got)
    BY <1>0, <1>3, <2>1 DEF Reading
  <2>3. Fetching(f, w, a, rd, records, records, blob, "done", main, got)
    BY <2>2, FetchParses
  <2>4. Fetching(f, w, a, rd', records', data', blob', thread', main', got')
    BY <1>0, <2>1, <2>3
  <2> QED
    BY <1>0, <1>1, <1>2, <1>3, <2>1, <2>4, ReaderGoes
<1> QED
  BY <1>5, <1>6, <1>7, <1>8 DEF ThreadStep

LEMMA PipeInvStays == ASSUME PipeInv, UNCHANGED <<shardVars, pipeVars>> PROVE PipeInv'
<1>1. /\ file' = file /\ mode' = mode /\ rd' = rd /\ skip' = skip /\ skipped' = skipped /\ records' = records
      /\ data' = data /\ blob' = blob /\ thread' = thread /\ main' = main /\ got' = got
  BY DEF shardVars, pipeVars
<1>2. FramedRecords' = FramedRecords
  BY <1>1 DEF FramedRecords
<1>3. Reading(file, FramedRecords) => Reading(file, FramedRecords)'
  BY <1>1, <1>2 DEF Reading
<1> QED
  BY <1>1, <1>3 DEF PipeInv

LEMMA PipeInvariant == Spec => [](ShardInv /\ CleanInv /\ PipeInv)
<1>1. Init => ShardInv /\ CleanInv /\ PipeInv
  <2> SUFFICES ASSUME Init PROVE ShardInv /\ CleanInv /\ PipeInv
    OBVIOUS
  <2>1. PipeInv
    BY DEF Init, PipeInit, PipeInv
  <2> QED
    BY <2>1, ShardInvInit, CleanInit
<1>2. ShardInv /\ CleanInv /\ PipeInv /\ [Next]_vars => (ShardInv /\ CleanInv /\ PipeInv)'
  <2> SUFFICES ASSUME ShardInv, CleanInv, PipeInv, [Next]_vars PROVE ShardInv' /\ CleanInv' /\ PipeInv'
    OBVIOUS
  <2>1. CASE main = "none" /\ WriterStep /\ UNCHANGED pipeVars
    <3>1. main = "none" /\ skip = -1 /\ skipped = 0 /\ records = << >> /\ got = << >> /\ thread = "none"
      BY <2>1 DEF PipeInv
    <3>2. /\ main' = main /\ skip' = skip /\ skipped' = skipped /\ records' = records /\ got' = got
          /\ thread' = thread
      BY <2>1 DEF pipeVars
    <3>3. PipeInv'
      BY <3>1, <3>2 DEF PipeInv
    <3> QED
      BY <2>1, <3>3, WriterKeeps, WriterCleans
  <2>2. CASE MainStep \/ ThreadStep
    <3>1. PipeInv'
      BY <2>2, SetupKeeps, MainKeeps, ThreadKeeps DEF MainStep
    <3> QED
      BY <2>2, <3>1, OtherSteps, ShardInvStays, CleanInvStays
  <2>3. CASE main \in {"stopped", "fatal"} /\ UNCHANGED <<shardVars, pipeVars>>
    BY <2>3, ShardInvStays, CleanInvStays, PipeInvStays
  <2>4. CASE UNCHANGED vars
    BY <2>4, ShardInvStays, CleanInvStays, PipeInvStays DEF vars
  <2> QED
    BY <2>1, <2>2, <2>3, <2>4 DEF Next
<1> QED
  BY <1>1, <1>2, PTL DEF Spec

\* However the records lie across the chunks a reader takes in, whatever
\* programs wrote the shard and wherever they crashed, and however the
\* thread that reads ahead and the forward pass interleave: the forward pass
\* gets every intact record in its turn, batch after batch, around the end
\* of the shard, from behind the sample and the records skipped on.
THEOREM PipelineBatchesInOrder == Spec => []BatchesInOrder
<1>1. ShardInv /\ CleanInv /\ PipeInv => BatchesInOrder
  <2> SUFFICES ASSUME ShardInv, CleanInv, PipeInv PROVE BatchesInOrder
    OBVIOUS
  <2>1. PICK w, a : w = FramedRecords /\ a = Start(w, skipped)
    OBVIOUS
  <2>2. Seg(w, got, a)
    <3>1. CASE main = "none"
      <4>1. got = << >>
        BY <3>1 DEF PipeInv
      <4> QED
        BY <4>1, SegEmpty
    <3>2. CASE main # "none"
      <4>1. Reading(file, w)
        BY <2>1, <3>2, ReaderAt
      <4>2. CASE Skipping(file, w, rd, skip, skipped, records, thread, main, got)
        <5>1. got = << >>
          BY <4>2 DEF Skipping
        <5> QED
          BY <5>1, SegEmpty
      <4> QED
        BY <2>1, <4>1, <4>2 DEF Reading, Fetching
    <3> QED
      BY <3>1, <3>2
  <2>3. got \in Seq(Listing(w)) /\ \A i \in 1..Len(got) : got[i] = Nth(w, a + i - 1)
    BY <2>2 DEF Seg
  <2>4. DOMAIN got = 1..Len(got)
    BY <2>3, LenProperties
  <2>5. \A i \in DOMAIN got : Intact(w[((a + i - 1) % Len(w)) + 1]) => got[i] = w[((a + i - 1) % Len(w)) + 1]
    BY <2>3, <2>4 DEF Nth
  <2> QED
    BY <2>1, <2>5 DEF BatchesInOrder, Start
<1> QED
  BY <1>1, PipeInvariant, PTL
=============================================================================
