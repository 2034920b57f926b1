----------------------------- MODULE WebServer ------------------------------
(***************************************************************************)
(* web/singaserver.py: one thread that serves one request after the other. *)
(* It starts jobs, shows their progress, takes logs of earlier jobs, and   *)
(* passes pictures to the inference workers of one workspace.  A job       *)
(* writes its log to a pipe that only polls read.                          *)
(***************************************************************************)
EXTENDS Inference, SequencesExt

CONSTANTS
  MaxId,        \* bound: job ids; an inference job has one worker, of its id
  PipeSize,     \* lines the pipe of a job holds
  MaxDelay,     \* 60, seconds test_upload waits
  Bounds        \* what a run may hold: records [id, line, upload, other], the
                \* jobs, "step-" lines of one, pictures, and other requests

Ids == 1..MaxId

ASSUME WebAssumption ==
  /\ MaxId \in Nat /\ PipeSize \in Nat \ {0} /\ MaxDelay \in Nat \ {0} /\ Worker = Ids
  /\ Bounds \subseteq [id : 0..MaxId, line : Nat, upload : Nat, other : Nat]

VARIABLES
  joblist,      \* Joblist: id -> [kind, recs, idx]
  folder,       \* job_dir/job<id>/<id>.log: its records, or NoFolder
  job,          \* id -> [kind, printed, unread] of the job itself
  vis,          \* jobs with an image in the visualization folder
  web,          \* what the thread does: [pc, id, delay]
  uploads,      \* number of pictures uploaded
  replied,      \* history: id -> the charts that polls of the job have returned
  answer,       \* history: [shown, to, before]: what the last reply showed, the
                \* upload it answered, the upload answered before that
  others,       \* other requests and images so far
  bound         \* the bounds of this behaviour

webVars == <<joblist, folder, job, vis, web, uploads, replied, answer, others, bound>>
vars == <<fileVars, webVars>>

NoFolder == << <<0, 0>> >>
Absent == [kind |-> "absent", recs |-> << >>, idx |-> 0]
Idle == [pc |-> "idle", id |-> 0, delay |-> 0]

Line(id, n) == <<id, n>>
Image(id) == <<id, 0>>

Init ==
  /\ InferenceInit
  /\ joblist = [id \in Ids |-> Absent] /\ folder = [id \in Ids |-> NoFolder]
  /\ job = [id \in Ids |-> [kind |-> "none", printed |-> 0, unread |-> 0]]
  /\ vis = {} /\ web = Idle /\ uploads = 0 /\ replied = [id \in Ids |-> << >>]
  /\ answer = [shown |-> Empty, to |-> 0, before |-> 0] /\ others = 0
  /\ bound \in Bounds

Count == others < bound.other /\ others' = others + 1

-----------------------------------------------------------------------------
\* A job gets the next id from ZooKeeper.  Its entry and folder are made
\* unless the id is in Joblist already, which is an error: the job runs on.
Enter(id, kind) ==
  /\ id <= bound.id /\ job[id].kind = "none" /\ \A i \in 1..(id - 1) : job[i].kind # "none"
  /\ job' = [job EXCEPT ![id].kind = kind]
  /\ IF joblist[id] = Absent
     THEN joblist' = [joblist EXCEPT ![id] = [kind |-> "run", recs |-> << >>, idx |-> 0]]
          /\ folder' = [folder EXCEPT ![id] = << >>]
     ELSE UNCHANGED <<joblist, folder>>

test_submit ==
  /\ web = Idle
  /\ \E id \in Ids : Enter(id, "test") /\ StartWorker(id)
  /\ UNCHANGED <<input, output, flag, vis, web, uploads, replied, answer, others, bound>>

\* The visualization folder of the workspace is emptied first, whoever filled it.
submit_job ==
  /\ web = Idle
  /\ \E id \in Ids : Enter(id, "train")
  /\ vis' = {}
  /\ UNCHANGED <<fileVars, web, uploads, replied, answer, others, bound>>

\* Fault: an entry that is there stays.
UploadKeepsEntry(id) ==
  /\ web = Idle /\ Count
  /\ folder' = [folder EXCEPT ![id] = NoFolder]
  /\ joblist' = IF joblist[id] # Absent THEN joblist
                ELSE [joblist EXCEPT ![id] = [kind |-> "log", recs |-> << >>, idx |-> 0]]
  /\ UNCHANGED <<fileVars, job, vis, web, uploads, replied, answer, bound>>

\* A zip with a log and no folder, as download makes them, under any id.
upload(id) ==
  /\ web = Idle /\ Count
  /\ folder' = [folder EXCEPT ![id] = NoFolder]
  /\ joblist' = [joblist EXCEPT ![id] = [kind |-> "log", recs |-> <<Line(id, 1), Line(id, 2)>>, idx |-> 0]]
  /\ UNCHANGED <<fileVars, job, vis, web, uploads, replied, answer, bound>>

\* Of a submitted job this is a type error, which changes nothing.
get_record(id) ==
  /\ web = Idle /\ Count
  /\ joblist[id].kind = "log" /\ joblist[id].idx < Len(joblist[id].recs)
  /\ joblist' = [joblist EXCEPT ![id].idx = @ + 1]
  /\ UNCHANGED <<fileVars, folder, job, vis, web, uploads, replied, answer, bound>>

handle_kill(id) ==
  /\ web = Idle /\ Count
  /\ joblist[id] # Absent /\ job[id].kind \in {"train", "test"}
  /\ job' = [job EXCEPT ![id].kind = "ended"]
  /\ KillWorker(id)
  /\ UNCHANGED <<input, output, flag, joblist, folder, vis, web, uploads, replied, answer, bound>>

-----------------------------------------------------------------------------
\* The charts of a poll go to Joblist, to the log and into the reply.
Keep(id, charts) ==
  /\ joblist' = [joblist EXCEPT ![id].recs = @ \o charts]
  /\ folder' = [folder EXCEPT ![id] = @ \o charts]
  /\ replied' = [replied EXCEPT ![id] = @ \o charts]

\* Every image of the workspace is taken for one of the polled job, in any order.
poll_image_record(id) ==
  /\ vis # {}
  /\ \E order \in SetToSeqs(vis) : Keep(id, [n \in DOMAIN order |-> Image(order[n])])
  /\ vis' = {}
  /\ UNCHANGED <<job, web>>

\* Without images the thread reads the output of the job.  Of an uploaded log
\* the request is a key error, which changes nothing.
poll_progress(id) ==
  /\ web = Idle
  /\ joblist[id].kind = "run"
  /\ \/ poll_image_record(id)
     \/ /\ vis = {}
        /\ web' = [Idle EXCEPT !.pc = "poll", !.id = id]
        /\ UNCHANGED <<joblist, folder, replied, job, vis>>
  /\ UNCHANGED <<fileVars, uploads, answer, others, bound>>

\* Fault: the line is looked at and stays.
PeekLine ==
  LET j == job[web.id]
  IN  /\ web.pc = "poll" /\ web' = Idle
      /\ \/ /\ j.unread > 0
            /\ Keep(web.id, <<Line(web.id, j.printed - j.unread + 1)>>)
         \/ /\ j.unread = 0 /\ j.kind = "ended"
            /\ UNCHANGED <<joblist, folder, replied>>
      /\ UNCHANGED <<fileVars, job, vis, uploads, answer, others, bound>>

\* The next line, or none at the end of the output; else it waits.
poll_chart_record ==
  LET j == job[web.id]
  IN  /\ web.pc = "poll" /\ web' = Idle
      /\ \/ /\ j.unread > 0
            /\ job' = [job EXCEPT ![web.id].unread = @ - 1]
            /\ Keep(web.id, <<Line(web.id, j.printed - j.unread + 1)>>)
         \/ /\ j.unread = 0 /\ j.kind = "ended"
            /\ UNCHANGED <<job, joblist, folder, replied>>
      /\ UNCHANGED <<fileVars, vis, uploads, answer, others, bound>>

-----------------------------------------------------------------------------
\* Fault: the old answer stays.
RemoveNothing == UNCHANGED <<output, worker>>

\* test_upload in its steps.
RemoveOld == RemoveOutput

BeginUpload ==
  /\ web = Idle /\ uploads < bound.upload
  /\ uploads' = uploads + 1
  /\ RemoveOld
  /\ web' = [Idle EXCEPT !.pc = "open"]
  /\ UNCHANGED <<input, flag, joblist, folder, job, vis, replied, answer, others, bound>>

OpenInput ==
  /\ web.pc = "open" /\ web' = [web EXCEPT !.pc = "write"]
  /\ input' = Empty
  /\ UNCHANGED <<output, flag, worker, joblist, folder, job, vis, uploads, replied, answer, others, bound>>

WriteInput ==
  /\ web.pc = "write" /\ web' = [web EXCEPT !.pc = "wait"]
  /\ input' = uploads
  /\ UNCHANGED <<output, flag, worker, joblist, folder, job, vis, uploads, replied, answer, others, bound>>

\* Fault: the seconds are not counted.
SleepAgain(delay) == [Idle EXCEPT !.pc = "wait", !.delay = delay]

\* One second more without output.dat; after MaxDelay of them: time expired.
Sleep(delay) ==
  IF delay + 1 = MaxDelay THEN Idle ELSE [Idle EXCEPT !.pc = "wait", !.delay = delay + 1]

WaitForOutput ==
  /\ web.pc = "wait"
  /\ web' = IF output # None THEN [web EXCEPT !.pc = "read"] ELSE Sleep(web.delay)
  /\ UNCHANGED <<fileVars, joblist, folder, job, vis, uploads, replied, answer, others, bound>>

ReadOutput ==
  /\ web.pc = "read" /\ web' = Idle
  /\ answer' = [shown |-> output, to |-> uploads, before |-> answer.to]
  /\ UNCHANGED <<fileVars, joblist, folder, job, vis, uploads, replied, others, bound>>

test_upload == OpenInput \/ WriteInput \/ WaitForOutput \/ ReadOutput

-----------------------------------------------------------------------------
\* A job that trains, with the loop of worker.cc.org, reports every step to its
\* stub, which prints a line when the pipe has room; it ends after the last
\* step, if it ever gets there.  The loop that is built, of worker.cc, answers
\* inputs, prints no such line for any job, and ends at flag.dat.
PrintLine(id) ==
  /\ job[id].kind = "train" /\ job[id].printed < bound.line /\ job[id].unread < PipeSize
  /\ job' = [job EXCEPT ![id].printed = @ + 1, ![id].unread = @ + 1]
  /\ UNCHANGED <<fileVars, joblist, folder, vis, web, uploads, replied, answer, others, bound>>

EndJob(id) ==
  /\ \/ job[id].kind = "train" /\ job[id].printed = bound.line
     \/ job[id].kind = "test" /\ id \notin Running
  /\ job' = [job EXCEPT ![id].kind = "ended"]
  /\ UNCHANGED <<fileVars, joblist, folder, vis, web, uploads, replied, answer, others, bound>>

WriteImage(id) ==
  /\ job[id].kind = "train" /\ id \notin vis /\ Count
  /\ vis' = vis \cup {id}
  /\ UNCHANGED <<fileVars, joblist, folder, job, web, uploads, replied, answer, bound>>

JobStep(id) == PrintLine(id) \/ EndJob(id)

Handler == poll_chart_record \/ test_upload

Request ==
  \/ test_submit \/ submit_job \/ BeginUpload
  \/ \E id \in Ids : upload(id) \/ get_record(id) \/ handle_kill(id) \/ poll_progress(id)

Next ==
  \/ Handler \/ Request
  \/ \E id \in Ids : JobStep(id) \/ WriteImage(id)
  \/ \E w \in Worker : WorkerStep(w) /\ UNCHANGED webVars
  \/ SetFlag /\ UNCHANGED webVars

\* The thread and the inference workers run; requests, images, the flag and the
\* lines of a job come or not.
Fairness ==
  /\ WF_vars(Handler)
  /\ \A w \in Worker : WF_vars(WorkerStep(w) /\ UNCHANGED webVars)

Spec == Init /\ [][Next]_vars /\ Fairness

-----------------------------------------------------------------------------
\* What is shown for a picture is at most one older than the last picture
\* before it that got a reply, if one worker answers: output.dat is removed
\* before a new input is written, and what the worker holds when it has written
\* again was read after that.
AnswerIsRecent ==
  (Cardinality({w \in Worker : ~At(w, "off")}) <= 1 /\ answer.shown > 0)
    => answer.before - 1 <= answer.shown

\* Everything that polls of a job have replied is in its log file and in what
\* pollall replies, until a log is uploaded under its id, also while the job
\* runs: then nothing of it is left in either, and polls reply nothing more.
LogIsKept ==
  \A id \in Ids :
    IF joblist[id].kind = "run"
    THEN folder[id] = replied[id] /\ joblist[id].recs = replied[id]
    ELSE folder[id] = NoFolder

\* Where the lines of job id are among the records polls returned for it.
Lines(id) == {i \in DOMAIN replied[id] : replied[id][i][1] = id /\ replied[id][i][2] > 0}

\* Polls return the lines of a job that have left its pipe once and in order,
\* whatever images, of this job or another, they return between them, and also
\* if a log uploaded under its id has taken its entry since.
EachLineOnce ==
  \A id \in Ids :
    /\ {replied[id][i][2] : i \in Lines(id)} = 1..(job[id].printed - job[id].unread)
    /\ \A i, j \in Lines(id) : i < j => replied[id][i][2] < replied[id][j][2]

\* Every upload of a picture is answered, whatever the workers do: with what
\* output.dat holds, or with "time expired" after MaxDelay seconds without it.
UploadEnds ==
  (web.pc \in {"open", "write", "wait", "read"}) ~> (web = Idle)

\* flag.dat ends every worker that does not wait for a first input.
WorkersStop ==
  \A w \in Worker : (flag /\ input # None /\ w \in Running) ~> (w \notin Running)

=============================================================================
