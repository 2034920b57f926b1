----------------------------- MODULE Checkpoint -----------------------------
(***************************************************************************)
(* The checkpoint folder: every worker of group 0 writes a file of its own *)
(* at a checkpoint, the job may end at any point, and a job started with   *)
(* -resume searches the folder for the files of the latest step.           *)
(***************************************************************************)
EXTENDS Integers, FiniteSets

CONSTANTS
  Worker,           \* the workers of group 0
  Frequency, After, \* checkpoint_frequency, checkpoint_after
  TrainSteps        \* train_steps

VARIABLES
  files,            \* step<step>-worker<worker>.bin: [step, worker, whole]
  step,             \* step_ of each worker
  mode,             \* "train", "down", "scan", "resumed" or "died"
  unread,           \* entries of the folder that Resume has not read yet
  name,             \* file.name: a local variable of the loop over the entries
  latest,           \* latest_step
  found,            \* how many pointers ck_files holds
  checkpoint        \* checkpoint field of the model configuration

vars == <<files, step, mode, unread, name, latest, found, checkpoint>>

\* Names with no step: "." and "..", which every folder holds, and a name of
\* no file.
NoStep(n) == [step |-> -n, worker |-> 0, whole |-> FALSE]
Dots == {NoStep(1), NoStep(2)}
Nothing == NoStep(3)

Init ==
  /\ files = {} /\ step = [w \in Worker |-> 0] /\ mode = "train"
  /\ unread = {} /\ name = Nothing /\ latest = 0 /\ found = 0 /\ checkpoint = {}

\* Every Frequency steps from After on, and at the end of the training.
CheckpointNow(s) ==
  \/ Frequency > 0 /\ s >= After /\ (s - After) % Frequency = 0
  \/ s = TrainSteps

\* A file is truncated or created when it is opened, and filled by one write.
FileOf(w) == {f \in files : f.step = step[w] /\ f.worker = w}

OpenCheckpoint(w) ==
  /\ mode = "train" /\ CheckpointNow(step[w]) /\ FileOf(w) = {}
  /\ files' = files \cup {[step |-> step[w], worker |-> w, whole |-> FALSE]}
  /\ UNCHANGED <<step, mode, unread, name, latest, found, checkpoint>>

WriteCheckpoint(w) ==
  /\ mode = "train" /\ \E f \in FileOf(w) : ~f.whole
  /\ files' = {IF f \in FileOf(w) THEN [f EXCEPT !.whole = TRUE] ELSE f : f \in files}
  /\ UNCHANGED <<step, mode, unread, name, latest, found, checkpoint>>

\* The servers keep the workers of a synchronous group within a step.
TrainOneBatch(w) ==
  /\ mode = "train" /\ step[w] < TrainSteps /\ \A v \in Worker : step[w] <= step[v]
  /\ CheckpointNow(step[w]) => \E f \in FileOf(w) : f.whole
  /\ step' = [step EXCEPT ![w] = @ + 1]
  /\ UNCHANGED <<files, mode, unread, name, latest, found, checkpoint>>

\* The end of the job, orderly or not.
EndJob ==
  /\ mode = "train" /\ mode' = "down"
  /\ UNCHANGED <<files, step, unread, name, latest, found, checkpoint>>

-----------------------------------------------------------------------------
Resume ==
  /\ mode = "down" /\ mode' = "scan"
  /\ unread' = files \cup Dots
  /\ UNCHANGED <<files, step, name, latest, found, checkpoint>>

\* The entries come in any order.  A name without "step" in it is skipped
\* unless it begins with a dot: then atoi is called on a null pointer plus 4.
ReadEntry(e) ==
  /\ mode = "scan" /\ e \in unread /\ unread' = unread \ {e}
  /\ name' = e
  /\ IF e \in Dots
     THEN mode' = "died" /\ UNCHANGED <<latest, found>>
     ELSE /\ UNCHANGED mode
          /\ latest' = IF e.step > latest THEN e.step ELSE latest
          /\ found' = CASE e.step = latest -> found + 1
                        [] e.step > latest -> 1
                        [] OTHER -> found
  /\ UNCHANGED <<files, step, checkpoint>>

\* ck_files holds pointers to the local variable of the loop, after the loop:
\* its last content, or whatever has taken its place, which names no file.
NamesFound == IF found = 0 THEN {{}} ELSE {{name}, {Nothing}}

EndScan ==
  /\ mode = "scan" /\ unread = {} /\ mode' = "resumed"
  /\ IF latest > 0 THEN checkpoint' \in NamesFound ELSE UNCHANGED checkpoint
  /\ UNCHANGED <<files, step, unread, name, latest, found>>

Next ==
  \/ \E w \in Worker : OpenCheckpoint(w) \/ WriteCheckpoint(w) \/ TrainOneBatch(w)
  \/ EndJob \/ Resume \/ EndScan
  \/ \E e \in unread : ReadEntry(e)

Spec == Init /\ [][Next]_vars

-----------------------------------------------------------------------------
\* The files of the latest step in the folder, if there is one after step 0.
LatestFiles == {f \in files : f.step > 0 /\ \A g \in files : g.step <= f.step}

\* Resume sets the checkpoint field to the files of the latest checkpoint.
ResumeFindsLatest ==
  mode \in {"resumed", "died"} => mode = "resumed" /\ checkpoint = LatestFiles
=============================================================================
