---------------------------- MODULE DataPipeline ----------------------------
(***************************************************************************)
(* A ShardDataLayer behind a PrefetchLayer reads the shard its writers     *)
(* left: DataShard fills its buffer in chunks of a capacity of its own, a  *)
(* thread reads one batch ahead of the forward pass.                       *)
(***************************************************************************)
EXTENDS DataShard

CONSTANTS
  ReadCapacity,   \* capacity_ of the reader
  BatchSize,      \* batchsize_
  RandomSkip,     \* random_skip
  MaxBatch        \* bound: batches of the forward pass

ASSUME PipelineAssumption ==
  /\ ReadCapacity \in Nat \ {0} /\ ReadCapacity < TooLarge
  /\ \A k \in Key : Max({keyLen[k], valLen[k]}) <= ReadCapacity
  /\ BatchSize \in Nat \ {0} /\ RandomSkip \in Nat /\ MaxBatch \in Nat

VARIABLES
  rd,         \* the DataShard of the reader: [pos, buf, off, eof]
  skip,       \* records still to skip; -1: not drawn yet
  skipped,    \* history: records to skip in all
  records,    \* records_ of the data layer, as far as filled
  data,       \* data_ of the parser layer
  blob,       \* datablobs_ of the prefetch layer, what the forward pass sees
  thread,     \* "none", "run" or "done"
  main,       \* "none", "want" or "use" a batch, "stop", "stopped" or "fatal"
  got         \* history: records the forward pass has used

pipeVars == <<rd, skip, skipped, records, data, blob, thread, main, got>>

\* Nothing read yet.
Opened == [pos |-> 0, buf |-> << >>, off |-> 0, eof |-> FALSE]

\* What is left moves to the front, the rest of the buffer is read.
Refill(r) ==
  LET rest == SubSeq(r.buf, r.off + 1, Len(r.buf))
      room == ReadCapacity - Len(rest)
      more == IF r.eof THEN << >> ELSE SubSeq(file, r.pos + 1, Min({r.pos + room, Len(file)}))
  IN  [pos |-> r.pos + Len(more), buf |-> rest \o more, off |-> 0,
       eof |-> r.eof \/ Len(more) < room]

PrepareNextField(r, size) == IF r.off + size > Len(r.buf) THEN Refill(r) ELSE r

Ready(r, size) == r.off + size <= Len(r.buf)

Advance(r, size) == [r EXCEPT !.off = @ + size]

\* A read attempt: the reader afterwards, and the key and value or << >>.
Failed(r) == [rd |-> r, tuple |-> << >>]

\* Next(key, val): four fields, any of which may be incomplete; an empty
\* value counts as a failure too.
NextTuple(r0) ==
  LET r1 == PrepareNextField(r0, 1)
      klen == LenOf(r1.buf[r1.off + 1])
      r2 == PrepareNextField(Advance(r1, 1), klen)
      key == SubSeq(r2.buf, r2.off + 1, r2.off + klen)
      r3 == PrepareNextField(Advance(r2, klen), 1)
      vlen == LenOf(r3.buf[r3.off + 1])
      r4 == PrepareNextField(Advance(r3, 1), vlen)
      val == SubSeq(r4.buf, r4.off + 1, r4.off + vlen)
  IN  IF ~Ready(r1, 1) THEN Failed(r1)
      ELSE IF ~Ready(r2, klen) THEN Failed(r2)
      ELSE IF ~Ready(r3, 1) THEN Failed(r3)
      ELSE IF ~Ready(r4, vlen) \/ vlen = 0 THEN Failed(r4)
      ELSE [rd |-> Advance(r4, vlen), tuple |-> <<key, val>>]

-----------------------------------------------------------------------------
PipeInit ==
  /\ rd = Opened /\ skip = -1 /\ skipped = 0
  /\ records = << >> /\ data = << >> /\ blob = << >>
  /\ thread = "none" /\ main = "none" /\ got = << >>

\* ShardDataLayer::Setup: the first record becomes the sample.
Setup ==
  /\ main = "none" /\ mode = "none" /\ session > 0
  /\ rd' = NextTuple(Opened).rd
  /\ main' = "want"
  /\ UNCHANGED <<shardVars, skip, skipped, records, data, blob, thread, got>>

\* PrefetchLayer::ComputeFeature without a thread: the main thread prefetches.
PrefetchNow ==
  /\ main = "want" /\ thread = "none"
  /\ thread' = "run"
  /\ UNCHANGED <<shardVars, rd, skip, skipped, records, data, blob, main, got>>

\* Fault: the blobs are copied without waiting for the thread.
CopyWithoutJoin ==
  /\ main = "want" /\ thread \in {"run", "done"} /\ data # << >>
  /\ blob' = data
  /\ records' = << >> /\ thread' = "run" /\ main' = "use"
  /\ UNCHANGED <<shardVars, rd, skip, skipped, data, got>>

\* Join, copy the parsed blobs, start the thread for the next batch.
JoinAndCopy ==
  /\ main = "want" /\ thread = "done"
  /\ blob' = data
  /\ records' = << >> /\ thread' = "run" /\ main' = "use"
  /\ UNCHANGED <<shardVars, rd, skip, skipped, data, got>>

\* The forward pass has read the blob.
Forward ==
  /\ main = "use"
  /\ got' = got \o blob
  /\ main' = IF Len(got') < MaxBatch * BatchSize THEN "want" ELSE "stop"
  /\ UNCHANGED <<shardVars, rd, skip, skipped, records, data, blob, thread>>

\* ~PrefetchLayer joins a thread that is one batch ahead.
Stop ==
  /\ main = "stop" /\ thread = "done"
  /\ main' = "stopped"
  /\ UNCHANGED <<shardVars, rd, skip, skipped, records, data, blob, thread, got>>

\* In ComputeFeature of the data layer, once: rand() % random_skip_.
DrawSkip ==
  /\ thread = "run" /\ skip = -1
  /\ \E n \in IF RandomSkip = 0 THEN {0} ELSE 0..RandomSkip - 1 :
       skip' = n /\ skipped' = n
  /\ UNCHANGED <<shardVars, rd, records, data, blob, thread, main, got>>

SkipRecord ==
  /\ thread = "run" /\ skip > 0
  /\ skip' = skip - 1
  /\ rd' = NextTuple(rd).rd
  /\ UNCHANGED <<shardVars, skipped, records, data, blob, thread, main, got>>

\* SeekToFirst and another Next.
FirstAgain == NextTuple(Opened)

\* One record of the batch; at the end of the shard from the first again.
ReadRecord ==
  /\ thread = "run" /\ skip = 0 /\ Len(records) < BatchSize
  /\ LET n == NextTuple(rd)
         r == IF n.tuple = << >> THEN FirstAgain ELSE n
     IN  /\ rd' = r.rd
         /\ IF r.tuple = << >> THEN main' = "fatal" /\ thread' = "none" /\ UNCHANGED records
            ELSE records' = Append(records, r.tuple) /\ UNCHANGED <<main, thread>>
  /\ UNCHANGED <<shardVars, skip, skipped, data, blob, got>>

\* ParserLayer::ComputeFeature.
ParseRecords ==
  /\ thread = "run" /\ skip = 0 /\ Len(records) = BatchSize
  /\ data' = records
  /\ thread' = "done"
  /\ UNCHANGED <<shardVars, rd, skip, skipped, records, blob, main, got>>

-----------------------------------------------------------------------------
Init == ShardInit /\ PipeInit

ThreadStep == DrawSkip \/ SkipRecord \/ ReadRecord \/ ParseRecords

MainStep == Setup \/ PrefetchNow \/ JoinAndCopy \/ Forward \/ Stop

Next ==
  \/ main = "none" /\ WriterStep /\ UNCHANGED pipeVars
  \/ MainStep
  \/ ThreadStep
  \/ main \in {"stopped", "fatal"} /\ UNCHANGED <<shardVars, pipeVars>>

vars == <<shardVars, pipeVars>>

Spec == Init /\ [][Next]_vars

-----------------------------------------------------------------------------
\* What the lengths in the file frame as records, in its order, up to the
\* first the file ends before: cut tuples that a later program has appended
\* behind are among them, the cells they lack read as zero.
FramedRecords ==
  LET at == Offsets(file)
      whole(n) == /\ HasHeader(file, at[n]) /\ at[n + 1] <= Len(file)
                  /\ ValEnd(file, at[n]) > ValStart(file, at[n])
      count == CHOOSE n \in 0..Len(file) :
                 (\A i \in 0..n - 1 : whole(i)) /\ (n < Len(file) => ~whole(n))
  IN  [i \in 1..count |-> <<KeyAt(file, at[i - 1]), ValAt(file, at[i - 1])>>]

\* A record as it was inserted, no cell of it lost in a crash.
Intact(r) == \E k \in Key : r = <<KeyCells(k), ValCells(k)>>

\* The forward pass gets every intact record in its turn, batch after batch,
\* around the end of the shard: chunked reading, the wrap-around and the
\* thread that reads ahead neither drop, repeat nor mix records.  It starts
\* behind the sample and the records skipped.  A tuple cut by a crash and
\* appended behind has its turn too; what is read there is left open.
BatchesInOrder ==
  LET w == FramedRecords
      first == Min({1 + skipped, Len(w)})
      turn(i) == w[((first + i - 1) % Len(w)) + 1]
  IN  \A i \in DOMAIN got : Intact(turn(i)) => got[i] = turn(i)
=============================================================================
