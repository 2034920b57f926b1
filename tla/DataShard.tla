----------------------------- MODULE DataShard -----------------------------
(***************************************************************************)
(* shard.dat and the programs that write it.  The file is a sequence of    *)
(* cells: a length field is one cell, a key or a value as many as it is    *)
(* long.  What is written but not flushed reaches the file only up to some *)
(* cell when the program crashes; cells skipped by a seek read as zero.    *)
(*                                                                         *)
(* Keys and values are text: taken for a length, a cell of theirs is a     *)
(* number larger than any file.  Keys are shorter than the 256 characters  *)
(* of the buffer they are read back into.                                  *)
(***************************************************************************)
EXTENDS Integers, Sequences, FiniteSets, SequencesExt, FiniteSetsExt

CONSTANTS
  Key, keyLen, valLen,  \* keys, and the lengths of a key and of its value
  Capacity,             \* capacity_ of a writer
  TooLarge,             \* text taken for a length: larger than any buffer or file
  MaxSession,           \* bound: programs that write the shard
  MaxInsert             \* bound: tuples a program inserts

ASSUME ShardAssumption ==
  /\ keyLen \in [Key -> Nat \ {0}] /\ valLen \in [Key -> Nat \ {0}]
  /\ \A k \in Key : keyLen[k] + valLen[k] + 2 <= Capacity
  /\ Capacity \in Nat /\ TooLarge \in Nat /\ Capacity < TooLarge
  /\ MaxSession \in Nat /\ MaxInsert \in Nat

VARIABLES
  file,       \* cells of shard.dat
  mode,       \* "none", "write" while a program has it open, "flush" inside Flush
  session,    \* programs that have written so far
  keys,       \* keys_: keys found when opened for append
  buf,        \* buf_: cells of inserted tuples
  pending,    \* cells given to fdat_.write, not yet flushed
  wpos,       \* where they go: cells before the put position
  placed,     \* tuples of this session, <<key, offset>>
  flushed     \* tuples the program has flushed, <<key, offset>>

shardVars == <<file, mode, session, keys, buf, pending, wpos, placed, flushed>>

-----------------------------------------------------------------------------
(***************************************************************************)
(* Format                                                                  *)
(***************************************************************************)
Zero == <<"zero">>

\* [key_len key record_len val]
Cells(k) ==
  << <<"len", keyLen[k]>> >> \o [i \in 1..keyLen[k] |-> <<"key", k, i>>]
  \o << <<"len", valLen[k]>> >> \o [i \in 1..valLen[k] |-> <<"val", k, i>>]

LenOf(c) == CASE c[1] = "len" -> c[2] [] c = Zero -> 0 [] OTHER -> TooLarge

KeyEnd(f, p) == p + 1 + LenOf(f[p + 1])
ValStart(f, p) == KeyEnd(f, p) + 1
ValEnd(f, p) == ValStart(f, p) + LenOf(f[ValStart(f, p)])

\* The key and both lengths of the tuple at offset p can be read, and neither
\* is so large that read or seekg fails.
HasHeader(f, p) ==
  /\ p < Len(f) /\ LenOf(f[p + 1]) < TooLarge
  /\ ValStart(f, p) <= Len(f) /\ LenOf(f[ValStart(f, p)]) < TooLarge

KeyAt(f, p) == SubSeq(f, p + 2, KeyEnd(f, p))
ValAt(f, p) == SubSeq(f, ValStart(f, p) + 1, ValEnd(f, p))

\* Offsets of the tuples found from the start on; seekg over a value does
\* not fail when the file ends before the value.
Offsets(f) ==
  LET at[n \in 0..Len(f)] ==
        IF n = 0 THEN 0
        ELSE LET p == at[n - 1]
             IN  IF HasHeader(f, p) THEN ValEnd(f, p) ELSE p
  IN  at

\* The keys found, and the offset behind the last tuple, for appending.
KeysFound(f) ==
  LET at == Range(Offsets(f))
  IN  {KeyAt(f, p) : p \in {q \in at : HasHeader(f, q)}}

\* Fault: append at the end of the file.
PrepareAtEnd(f) == Len(f)

PrepareForAppend(f) == Offsets(f)[Len(f)]

\* Text is taken for the length of a key: read into buf[256] and terminated
\* at buf[len] before anything is checked.
Overrun(f) == \E p \in Range(Offsets(f)) : p < Len(f) /\ LenOf(f[p + 1]) >= TooLarge

\* fdat_.write at an offset: the rest of the file stays, a gap is zero.
Overwrite(f, p, c) ==
  [i \in 1..Max({Len(f), IF c = << >> THEN 0 ELSE p + Len(c)}) |->
     IF i \in p + 1 .. p + Len(c) THEN c[i - p]
     ELSE IF i <= Len(f) THEN f[i] ELSE Zero]

-----------------------------------------------------------------------------
(***************************************************************************)
(* Writers                                                                 *)
(***************************************************************************)
ShardInit ==
  /\ file = << >> /\ mode = "none" /\ session = 0 /\ keys = {}
  /\ buf = << >> /\ pending = << >> /\ wpos = 0 /\ placed = {} /\ flushed = {}

OpenWith(f, ks, p) ==
  /\ mode = "none" /\ session < MaxSession
  /\ mode' = "write" /\ session' = session + 1
  /\ file' = f /\ keys' = ks /\ wpos' = p
  /\ buf' = << >> /\ pending' = << >> /\ placed' = {}
  /\ UNCHANGED flushed

\* kCreate truncates the file; modelled for the first program.
OpenCreate == session = 0 /\ OpenWith(<< >>, {}, 0)

\* Fault: the keys already there are not remembered.
OpenAppendForgets == session > 0 /\ OpenWith(file, {}, PrepareForAppend(file))

OpenAppend == session > 0 /\ OpenWith(file, KeysFound(file), PrepareForAppend(file))

\* What a write behind buf[256] does is undefined: the program dies before
\* it has opened the file, or, as in OpenAppend, the next check ends the loop.
OpenAppendOverrun ==
  /\ mode = "none" /\ 0 < session /\ session < MaxSession
  /\ Overrun(file)
  /\ session' = session + 1
  /\ UNCHANGED <<file, mode, keys, buf, pending, wpos, placed, flushed>>

\* The whole key and value as they are found in a file.
KeyCells(k) == [i \in 1..keyLen[k] |-> <<"key", k, i>>]
ValCells(k) == [i \in 1..valLen[k] |-> <<"val", k, i>>]

\* Insert: nothing for a key found in the file; a buffer without room for
\* the tuple is written first.  The key is not added to keys_: the same
\* program may insert it again.
Insert(k) ==
  /\ mode = "write" /\ Cardinality(placed) < MaxInsert
  /\ KeyCells(k) \notin keys
  /\ LET full == Len(buf) + Len(Cells(k)) > Capacity
     IN  /\ pending' = IF full THEN pending \o buf ELSE pending
         /\ buf' = (IF full THEN << >> ELSE buf) \o Cells(k)
  /\ placed' = placed \cup {<<k, wpos + Len(pending) + Len(buf)>>}
  /\ UNCHANGED <<file, mode, session, keys, wpos, flushed>>

\* Flush gives the buffer to write, then has all of it put into the file.
FlushWrite ==
  /\ mode = "write"
  /\ mode' = "flush"
  /\ pending' = pending \o buf /\ buf' = << >>
  /\ UNCHANGED <<file, session, keys, wpos, placed, flushed>>

Flush ==
  /\ mode = "flush"
  /\ mode' = "write"
  /\ file' = Overwrite(file, wpos, pending)
  /\ wpos' = wpos + Len(pending)
  /\ pending' = << >>
  /\ flushed' = flushed \cup placed
  /\ UNCHANGED <<session, keys, buf, placed>>

\* The destructor closes the file but does not write the buffer; a crash
\* keeps any first part of what was given to write.
Close(written) ==
  /\ mode' = "none"
  /\ file' = Overwrite(file, wpos, written)
  /\ buf' = << >> /\ pending' = << >> /\ placed' = {} /\ keys' = {} /\ wpos' = 0
  /\ UNCHANGED <<session, flushed>>

Destroy == mode = "write" /\ Close(pending)

Crash == mode # "none" /\ \E n \in 0..Len(pending) : Close(SubSeq(pending, 1, n))

WriterStep ==
  \/ OpenCreate \/ OpenAppend \/ OpenAppendOverrun
  \/ \E k \in Key : Insert(k)
  \/ FlushWrite \/ Flush \/ Destroy \/ Crash

-----------------------------------------------------------------------------
(***************************************************************************)
(* Properties                                                              *)
(***************************************************************************)
\* Every tuple a program has flushed stays in the file, whole, and can be
\* reached by reading from the start, whatever crashes and appends follow.
FlushedStays ==
  \A t \in flushed :
    /\ t[2] \in Range(Offsets(file))
    /\ SubSeq(file, t[2] + 1, t[2] + Len(Cells(t[1]))) = Cells(t[1])

\* A program that continues the work of earlier ones, crashed ones included,
\* adds no record they have flushed: PrepareForAppend finds all their keys.
\* (Within one program Insert takes a key as often as it is given.)
NoReplicatedRecord ==
  \A t \in placed, u \in flushed \ placed : t[1] # u[1]
=============================================================================
