----------------------------- MODULE Inference ------------------------------
(***************************************************************************)
(* Inference workers and the two files through which the web server talks  *)
(* to them.  A worker loops over TestOneBatch until flag.dat exists: its   *)
(* InputLayer waits for input.dat and parses it, its OutputLayer rewrites  *)
(* output.dat.  Nobody removes input.dat, so it is answered again and      *)
(* again.  Both files are smaller than a stream's buffer: their content    *)
(* appears when they are closed, until then they are empty.                *)
(*                                                                         *)
(* A content is the number of the upload it comes from.                    *)
(***************************************************************************)
EXTENDS Integers, FiniteSets

CONSTANT Worker       \* the workers that may be started in the workspace

None == -1            \* no such file
Empty == 0            \* opened and not closed yet
Garbage == -2         \* computed from no upload

VARIABLES
  input, output,      \* input.dat and output.dat
  flag,               \* flag.dat exists
  worker              \* worker -> [pc, x, linked]: where it is, the input it
                      \* has parsed, its stream is still output.dat

fileVars == <<input, output, flag, worker>>

At(w, pc) == worker[w].pc = pc

InferenceInit ==
  /\ input = None /\ output = None /\ flag = FALSE
  /\ worker = [w \in Worker |-> [pc |-> "off", x |-> Empty, linked |-> FALSE]]

Running == {w \in Worker : worker[w].pc \in {"flag", "input", "open", "write"}}

\* singa-run.sh starts a worker.
StartWorker(w) == At(w, "off") /\ worker' = [worker EXCEPT ![w].pc = "flag"]

\* kill -9, whatever it holds open.
KillWorker(w) ==
  worker' = IF w \in Running THEN [worker EXCEPT ![w].pc = "dead"] ELSE worker

\* Fault: the flag is looked at once, before the first batch.
TestFlagOnce(w) ==
  /\ At(w, "flag")
  /\ worker' = [worker EXCEPT ![w].pc = IF flag /\ worker[w].x = Empty THEN "stopped" ELSE "input"]
  /\ UNCHANGED <<input, output, flag>>

\* The loop of Run leaves only between two batches.
TestFlag(w) ==
  /\ At(w, "flag")
  /\ worker' = [worker EXCEPT ![w].pc = IF flag THEN "stopped" ELSE "input"]
  /\ UNCHANGED <<input, output, flag>>

\* An empty file parses to an empty record.  The parser then reads a shape the
\* record does not have: memory of the last record, or none at all.
ParseInput(w) ==
  /\ At(w, "input") /\ input # None
  /\ \/ worker' = [worker EXCEPT ![w].pc = "open", ![w].x = IF input = Empty THEN Garbage ELSE input]
     \/ input = Empty /\ worker' = [worker EXCEPT ![w].pc = "dead"]
  /\ UNCHANGED <<input, output, flag>>

OpenOutput(w) ==
  /\ At(w, "open")
  /\ output' = Empty
  /\ worker' = [worker EXCEPT ![w].pc = "write", ![w].linked = TRUE]
  /\ UNCHANGED <<input, flag>>

\* Over what another worker wrote since this one opened the file, a text of
\* another length leaves a mixture.
WriteOutput(w) ==
  /\ At(w, "write")
  /\ IF worker[w].linked
     THEN output' \in {worker[w].x} \cup (IF output = Empty THEN {} ELSE {Garbage})
     ELSE UNCHANGED output
  /\ worker' = [worker EXCEPT ![w].pc = "flag", ![w].linked = FALSE]
  /\ UNCHANGED <<input, flag>>

WorkerStep(w) == TestFlag(w) \/ ParseInput(w) \/ OpenOutput(w) \/ WriteOutput(w)

\* The operator ends inference.
SetFlag == ~flag /\ flag' = TRUE /\ UNCHANGED <<input, output, worker>>

\* os.remove: a worker that has the file open goes on writing to no name.
RemoveOutput ==
  /\ output' = None
  /\ worker' = [w \in Worker |-> [worker[w] EXCEPT !.linked = FALSE]]
=============================================================================
