---------------------------- MODULE JobPipeline ----------------------------
(***************************************************************************)
(* The durable processing queue: DurableProcessingController (one promise  *)
(* chain that runs jobs one after another), the rows it keeps in           *)
(* AppDatabase, and the user operations of IpcRouter and SessionService    *)
(* that touch the same rows while a job is running.                        *)
(*                                                                         *)
(* Granularity.  JavaScript runs a handler from one await to the next      *)
(* without interruption, so an action is what happens between two awaits.  *)
(* run.pc names the await the running job is suspended in.  The exception  *)
(* is a run of synchronous code that commits to SQLite more than once: a   *)
(* crash can separate two commits although no handler can, so such code is *)
(* cut at its commits into the steps of SyncSteps, during which every      *)
(* handler is disabled and only a crash may intervene.                     *)
(***************************************************************************)
EXTENDS Naturals, FiniteSets, Sequences

CONSTANTS
  Sessions,      \* session ids
  Models,        \* provider kind and model pairs: what provenance records
  NoModel,       \* summaryProfileId = null
  NoSession,     \* the session of a row that is not in the jobs table
  Payloads,      \* the job payloads that may be enqueued
  MaxJobs,       \* bound: rows ever inserted into jobs
  MaxAttempts,   \* bound: Retry is not asked for beyond this attempt
  MaxRevision,   \* bound: the user edits no document at or past this revision
  MaxStops       \* bound: crashes and quits

FullPayload ==
  [kind : {"full"}, transcriber : Models, summarizer : Models \cup {NoModel},
   meeting : BOOLEAN]
SummaryPayload ==
  [kind : {"summary"}, transcriber : {NoModel}, summarizer : Models,
   meeting : BOOLEAN]

ASSUME ConstantsAssumption ==
  /\ NoModel \notin Models
  /\ NoSession \notin Sessions
  /\ Payloads \subseteq FullPayload \cup SummaryPayload
  /\ MaxJobs \in Nat
  /\ MaxAttempts \in Nat
  /\ MaxRevision \in Nat
  /\ MaxStops \in Nat

VARIABLES
  app,         \* "up", "quitting" (shuttingDown) or "down"
  stops,       \* how often the process ended, for the bound
  created,     \* rows ever inserted: job j is the j-th, so ids order created_at
  jobs,        \* the jobs table
  status,      \* sessions.status; "new" and "deleted" when there is no row
  transcript,  \* newest transcript revision of each session, and its provenance
  summary,     \* newest summary revision of each session, and its provenance
  deleting,    \* sessions whose delete handler awaits the removal of the files
  queue,       \* this.queue: scheduled tasks that have not started
  run,         \* the job whose run() is on the stack, and where it is suspended
  reached,     \* history: jobs whose row has recorded the summary stage
  generated    \* history: per session, jobs that existed at its last generation

vars == <<app, stops, created, jobs, status, transcript, summary, deleting,
          queue, run, reached, generated>>
docs == <<transcript, summary>>
history == <<reached, generated>>

JobIds == 1..MaxJobs
JobStatuses == {"none", "queued", "running", "succeeded", "failed", "cancelled"}
Stages == {"probe", "playback-proxy", "extract-audio", "transcribe", "diarize",
           "summarize"}
SessionStatuses ==
  {"new", "processing", "ready", "failed", "interrupted", "deleted"}

NoPayload == [kind |-> "none", transcriber |-> NoModel, summarizer |-> NoModel,
              meeting |-> FALSE]
NoRow == [status |-> "none", stage |-> "probe", attempt |-> 0,
          session |-> NoSession, payload |-> NoPayload]
NoTranscript == [rev |-> 0, model |-> NoModel]
NoSummary == [rev |-> 0, of |-> 0, model |-> NoModel, edited |-> FALSE,
              jobsThen |-> 0]
NoRun == [job |-> 0, session |-> NoSession, payload |-> NoPayload,
          stage |-> "probe", pc |-> "idle", aborted |-> FALSE, source |-> 0]

\* Awaits of run(): in each the event loop is free to run other handlers.
Awaits == {"probe", "playback-proxy", "extract-audio", "transcribe",
           "diarization-status", "diarize", "remove-pcm", "summarize",
           "rejecting", "remove-work"}
\* Steps between two commits of one stretch of synchronous code.
SyncSteps == {"transcript-saved", "returned", "session-ready", "caught"}

Row == [status : JobStatuses, stage : Stages, attempt : Nat,
        session : Sessions \cup {NoSession}, payload : Payloads \cup {NoPayload}]
TranscriptRow == [rev : Nat, model : Models \cup {NoModel}]
SummaryRow == [rev : Nat, of : Nat, model : Models \cup {NoModel},
               edited : BOOLEAN, jobsThen : 0..MaxJobs]
Run == [job : 0..MaxJobs, session : Sessions \cup {NoSession},
        payload : Payloads \cup {NoPayload}, stage : Stages,
        pc : Awaits \cup SyncSteps \cup {"idle"}, aborted : BOOLEAN,
        source : Nat]

----------------------------------------------------------------------------
(* State predicates and the statements handlers share.                     *)

Exists(j) == jobs[j].status # "none"
Present(s) == status[s] \notin {"new", "deleted"}
Active(rows, s) ==
  {j \in JobIds : rows[j].session = s /\ rows[j].status \in {"queued", "running"}}

\* Handlers run only while the process serves them and the loop is free.
Serving == app = "up" /\ run.pc \notin SyncSteps

SetStatus(rows, j, value) == [rows EXCEPT ![j].status = value]

\* stage(): records the stage, and does nothing once the row is gone.
SetStage(j, stage) ==
  jobs' = IF Exists(j) THEN [jobs EXCEPT ![j].stage = stage] ELSE jobs

\* Fault: a cancelled job leaves its session as it was.
StatusUninterrupted(s, others) == status

\* The session status that interruptSessionForCancelledJob leaves behind.
StatusAfterCancel(s, others) ==
  IF status[s] = "processing" /\ others = {}
  THEN [status EXCEPT ![s] = "interrupted"]
  ELSE status

\* An operation handed an aborted signal can only reject.
Suspend(pc) == IF run.aborted THEN "rejecting" ELSE pc

At(pc) == run.pc = pc
Goto(pc) == run' = [run EXCEPT !.pc = pc]

----------------------------------------------------------------------------
(* The operations a user asks for.                                         *)

\* insertJob() and schedule() for a new row of session s.
Insert(s, payload, stage) ==
  LET j == created + 1
  IN  /\ created < MaxJobs
      /\ created' = j
      /\ jobs' = [jobs EXCEPT ![j] =
                    [status |-> "queued", stage |-> stage, attempt |-> 0,
                     session |-> s, payload |-> payload]]
      /\ queue' = Append(queue, j)

\* A recording is imported, or a finished one attached, and its only full job
\* is enqueued; both happen without an await between them.
Enqueue(s, payload) ==
  /\ Serving
  /\ status[s] = "new"
  /\ payload.kind = "full"
  /\ status' = [status EXCEPT ![s] = "processing"]
  /\ Insert(s, payload, "probe")
  /\ UNCHANGED <<app, stops, docs, deleting, run, history>>

\* A profile it names was deleted while the file dialog was open: the session
\* fails and there is no job.
EnqueueRejected(s) ==
  /\ Serving
  /\ status[s] = "new"
  /\ status' = [status EXCEPT ![s] = "failed"]
  /\ UNCHANGED <<app, stops, created, jobs, docs, deleting, queue, run, history>>

\* generateSummary(): for a session that has a transcript.
GenerateSummary(s, payload) ==
  /\ Serving
  /\ transcript[s].rev > 0
  /\ payload.kind = "summary"
  /\ Insert(s, payload, "summarize")
  /\ UNCHANGED <<app, stops, status, docs, deleting, run, history>>

\* Fault: the row is queued again and nothing is scheduled.
RetryUnscheduled(j) ==
  /\ Serving
  /\ jobs[j].status \in {"failed", "cancelled"}
  /\ jobs[j].attempt < MaxAttempts
  /\ jobs' = [jobs EXCEPT ![j].status = "queued", ![j].attempt = @ + 1]
  /\ UNCHANGED <<app, stops, created, status, docs, deleting, queue, run, history>>

\* retry(): only of failed and cancelled jobs; keeps the stage it stopped in.
Retry(j) ==
  /\ Serving
  /\ jobs[j].status \in {"failed", "cancelled"}
  /\ jobs[j].attempt < MaxAttempts
  /\ jobs' = [jobs EXCEPT ![j].status = "queued", ![j].attempt = @ + 1]
  /\ queue' = Append(queue, j)
  /\ UNCHANGED <<app, stops, created, status, docs, deleting, run, history>>

\* Fault: any row may be cancelled, a finished one too.
CancelFinished(j) ==
  /\ Serving
  /\ Exists(j)
  /\ run' = IF run.job = j THEN [run EXCEPT !.aborted = TRUE] ELSE run
  /\ jobs' = SetStatus(jobs, j, "cancelled")
  /\ UNCHANGED <<app, stops, created, status, docs, deleting, queue, history>>

\* Fault: the job gets the status its session should get.
CancelWrongTable(j) ==
  /\ Serving
  /\ jobs[j].status \in {"queued", "running"}
  /\ run' = IF run.job = j THEN [run EXCEPT !.aborted = TRUE] ELSE run
  /\ jobs' = SetStatus(jobs, j, "interrupted")
  /\ UNCHANGED <<app, stops, created, status, docs, deleting, queue, history>>

\* cancel(): aborts the run of the job if it is the one that is running.
Cancel(j) ==
  /\ Serving
  /\ jobs[j].status \in {"queued", "running"}
  /\ run' = IF run.job = j THEN [run EXCEPT !.aborted = TRUE] ELSE run
  /\ status' = StatusAfterCancel(jobs[j].session, Active(jobs, jobs[j].session) \ {j})
  /\ jobs' = SetStatus(jobs, j, "cancelled")
  /\ UNCHANGED <<app, stops, created, docs, deleting, queue, history>>

\* sessions.delete up to its await: every unfinished job is cancelled.
DeleteBegin(s) ==
  LET mine == Active(jobs, s)
  IN  /\ Serving
      /\ Present(s)
      /\ s \notin deleting
      /\ run' = IF run.job \in mine THEN [run EXCEPT !.aborted = TRUE] ELSE run
      /\ status' = IF mine = {} THEN status ELSE StatusAfterCancel(s, {})
      /\ jobs' = [j \in JobIds |->
                    IF j \in mine THEN [jobs[j] EXCEPT !.status = "cancelled"]
                    ELSE jobs[j]]
      /\ deleting' = deleting \cup {s}
      /\ UNCHANGED <<app, stops, created, docs, queue, history>>

\* The files are gone: deleteSession(), which cascades to jobs and revisions.
DeleteEnd(s) ==
  /\ Serving
  /\ s \in deleting
  /\ deleting' = deleting \ {s}
  /\ status' = [status EXCEPT ![s] = "deleted"]
  /\ jobs' = [j \in JobIds |-> IF jobs[j].session = s THEN NoRow ELSE jobs[j]]
  /\ transcript' = [transcript EXCEPT ![s] = NoTranscript]
  /\ summary' = [summary EXCEPT ![s] = NoSummary]
  /\ UNCHANGED <<app, stops, created, queue, run, history>>

\* transcript.save, renameSpeaker, mergeSpeakers: a new revision with the
\* provenance of the old one; saveTranscript() marks the session processing.
EditTranscript(s) ==
  /\ Serving
  /\ transcript[s].rev \in 1..(MaxRevision - 1)
  /\ transcript' = [transcript EXCEPT ![s].rev = @ + 1]
  /\ status' = [status EXCEPT ![s] = "processing"]
  /\ UNCHANGED <<app, stops, created, jobs, summary, deleting, queue, run, history>>

\* summary.save: a manually edited revision; saveSummary() marks it ready.
EditSummary(s) ==
  /\ Serving
  /\ summary[s].rev \in 1..(MaxRevision - 1)
  /\ summary' = [summary EXCEPT ![s].rev = @ + 1, ![s].edited = TRUE]
  /\ status' = [status EXCEPT ![s] = "ready"]
  /\ UNCHANGED <<app, stops, created, jobs, transcript, deleting, queue, run, history>>

----------------------------------------------------------------------------
(* run(): one job at a time, from the head of the queue.                   *)

\* Fault: a summary written before the job was asked for counts as its own.
AnySummary(j, s, stage, source, model) ==
  /\ stage = "summarize"
  /\ summary[s].rev > 0
  /\ ~summary[s].edited
  /\ summary[s].of = source
  /\ summary[s].model = model

\* hasPersistedSummaryForJob(): the summary this job was to produce is there.
HasPersistedSummary(j, s, stage, source, model) ==
  /\ stage = "summarize"
  /\ summary[s].rev > 0
  /\ ~summary[s].edited
  /\ summary[s].of = source
  /\ summary[s].model = model
  /\ summary[s].jobsThen >= j

\* Fault: a task whose job is no longer queued blocks the chain.
SkipOnlyQuitting ==
  /\ app = "quitting"
  /\ run = NoRun
  /\ queue # <<>>
  /\ queue' = Tail(queue)
  /\ UNCHANGED <<app, stops, created, jobs, status, docs, deleting, run, history>>

\* A scheduled task whose job is no longer queued, or that finds the
\* application shutting down, does nothing.
SkipTask ==
  /\ app \in {"up", "quitting"}
  /\ run = NoRun
  /\ queue # <<>>
  /\ app = "quitting" \/ jobs[Head(queue)].status # "queued"
  /\ queue' = Tail(queue)
  /\ UNCHANGED <<app, stops, created, jobs, status, docs, deleting, run, history>>

\* A queued job starts.  A full job is suspended in the probe of its media, a
\* summary job in its request, unless the summary is already there or its profile
\* was deleted before the job was retried.
StartTask ==
  LET j == Head(queue)
      s == jobs[j].session
      p == jobs[j].payload
      reused == HasPersistedSummary(j, s, jobs[j].stage, transcript[s].rev, p.summarizer)
  IN  /\ app = "up"
      /\ run = NoRun
      /\ queue # <<>>
      /\ jobs[j].status = "queued"
      /\ queue' = Tail(queue)
      /\ status' = [status EXCEPT ![s] = "processing"]
      /\ jobs' = [jobs EXCEPT
           ![j].status = "running",
           ![j].attempt = IF @ = 0 THEN 1 ELSE @,
           ![j].stage = IF p.kind = "full" THEN "probe" ELSE "summarize"]
      /\ \E next \in IF p.kind = "full" THEN {"probe"}
                     ELSE {"caught", IF reused THEN "returned" ELSE "summarize"} :
           run' = [job |-> j, session |-> s, payload |-> p, stage |-> jobs[j].stage,
                   pc |-> next, aborted |-> FALSE,
                   source |-> IF p.kind = "full" THEN 0 ELSE transcript[s].rev]
      /\ UNCHANGED <<app, stops, created, docs, deleting, history>>

\* Whatever run() awaits may throw, whether or not its signal was aborted.
\* diarizeIfAvailable() turns an error that is not an abort into a warning, and
\* removeWorkFiles() is caught where it is called.
Reject ==
  /\ \/ run.pc \in {"probe", "playback-proxy", "extract-audio", "transcribe",
                    "summarize", "rejecting"}
     \/ run.aborted /\ run.pc \in {"diarization-status", "diarize"}
  /\ Goto("caught")
  /\ UNCHANGED <<app, stops, created, jobs, status, docs, deleting, queue, history>>

\* The media is probed.  setRecording() throws if the session is gone.
Probed ==
  /\ At("probe")
  /\ Present(run.session)
  /\ \E next \in {"playback-proxy", "extract-audio"} :
       SetStage(run.job, next) /\ Goto(Suspend(next))
  /\ UNCHANGED <<app, stops, created, status, docs, deleting, queue, history>>

Proxied ==
  /\ At("playback-proxy")
  /\ SetStage(run.job, "extract-audio")
  /\ Goto(Suspend("extract-audio"))
  /\ UNCHANGED <<app, stops, created, status, docs, deleting, queue, history>>

\* A saved transcript is reused when this run was resumed in its summary stage,
\* or wants no summary, and the transcript came from the same provider.  (And from
\* the same recording, which nothing changes once it is attached.)
Reusable ==
  /\ run.stage = "summarize" \/ run.payload.summarizer = NoModel
  /\ transcript[run.session].rev > 0
  /\ transcript[run.session].model = run.payload.transcriber

\* The speech audio is extracted and hashed.
Extracted ==
  /\ At("extract-audio")
  /\ ~run.aborted
  /\ \/ /\ Reusable
        /\ run' = [run EXCEPT !.pc = "transcript-saved",
                              !.source = transcript[run.session].rev]
        /\ UNCHANGED jobs
     \/ /\ ~Reusable
        /\ SetStage(run.job, "transcribe")
        /\ Goto("transcribe")
  /\ UNCHANGED <<app, stops, created, status, docs, deleting, queue, history>>

\* transcribeAndPersist() ends: stage() and then saveTranscript(), which throws
\* if the session is gone and otherwise marks it processing.
SaveTranscript(stage) ==
  LET s == run.session
  IN  /\ SetStage(run.job, stage)
      /\ IF ~Present(s)
         THEN /\ Goto("caught")
              /\ UNCHANGED <<transcript, status>>
         ELSE /\ transcript' = [transcript EXCEPT
                    ![s] = [rev |-> @.rev + 1, model |-> run.payload.transcriber]]
              /\ status' = [status EXCEPT ![s] = "processing"]
              /\ run' = [run EXCEPT !.pc = "transcript-saved",
                                    !.source = transcript[s].rev + 1]

\* The transcript arrived; an abort is noticed here.  A meeting goes on to
\* diarization, any other recording is saved at once.
Transcribed ==
  /\ At("transcribe")
  /\ ~run.aborted
  /\ IF run.payload.meeting
     THEN /\ Goto("diarization-status")
          /\ UNCHANGED <<jobs, status, transcript>>
     ELSE SaveTranscript("transcribe")
  /\ UNCHANGED <<app, stops, created, summary, deleting, queue, history>>

\* The diarization runtime says whether it is installed.
DiarizationChecked ==
  /\ At("diarization-status")
  /\ ~run.aborted
  /\ \/ SaveTranscript("transcribe")
     \/ /\ SetStage(run.job, "diarize")
        /\ Goto("diarize")
        /\ UNCHANGED <<status, transcript>>
  /\ UNCHANGED <<app, stops, created, summary, deleting, queue, history>>

\* Diarization failed and the transcript is kept with a warning, or its segments
\* arrived and the PCM file is being removed.
Diarized ==
  /\ At("diarize")
  /\ \/ ~run.aborted /\ SaveTranscript("diarize")
     \/ /\ Goto("remove-pcm")
        /\ UNCHANGED <<jobs, status, transcript>>
  /\ UNCHANGED <<app, stops, created, summary, deleting, queue, history>>

\* The PCM file is removed, or could not be: an abort is noticed only in the
\* second case.
PcmRemoved ==
  /\ At("remove-pcm")
  /\ \/ SaveTranscript("diarize")
     \/ /\ run.aborted
        /\ Goto("caught")
        /\ UNCHANGED <<jobs, status, transcript>>
  /\ UNCHANGED <<app, stops, created, summary, deleting, queue, history>>

\* runFull() after its transcript: no summary is wanted, or its profile or the
\* session is gone, or the summary is already there, or it is requested.
Continue ==
  /\ At("transcript-saved")
  /\ IF run.payload.summarizer = NoModel
     THEN Goto("returned") /\ UNCHANGED <<jobs, reached>>
     ELSE /\ SetStage(run.job, "summarize")
          /\ reached' = reached \cup {run.job}
          /\ \/ Goto("caught")
             \/ /\ Present(run.session)
                /\ Goto(IF HasPersistedSummary(run.job, run.session, run.stage,
                                               run.source, run.payload.summarizer)
                        THEN "returned" ELSE Suspend("summarize"))
  /\ UNCHANGED <<app, stops, created, status, docs, deleting, queue, generated>>

\* The summary arrived; an abort is noticed before saveSummary(), which throws
\* if the session is gone and otherwise marks it ready.
Summarized ==
  LET s == run.session
  IN  /\ At("summarize")
      /\ ~run.aborted
      /\ IF ~Present(s)
         THEN /\ Goto("caught")
              /\ UNCHANGED <<summary, status, generated>>
         ELSE /\ summary' = [summary EXCEPT
                    ![s] = [rev |-> @.rev + 1, of |-> run.source,
                            model |-> run.payload.summarizer, edited |-> FALSE,
                            jobsThen |-> created]]
              /\ status' = [status EXCEPT ![s] = "ready"]
              /\ generated' = [generated EXCEPT ![s] = created]
              /\ Goto("returned")
      /\ UNCHANGED <<app, stops, created, jobs, transcript, deleting, queue, reached>>

\* run() after runFull() or runSummary(): an abort becomes an error, a job that
\* is gone or cancelled ends the run, and else the work files are removed.
Returned ==
  /\ At("returned")
  /\ IF run.aborted THEN Goto("caught")
     ELSE IF jobs[run.job].status \in {"none", "cancelled"} THEN run' = NoRun
     ELSE Goto("remove-work")
  /\ UNCHANGED <<app, stops, created, jobs, status, docs, deleting, queue, history>>

\* Fault: a cancellation during the removal goes unnoticed.
WorkRemovedUnchecked ==
  /\ At("remove-work")
  /\ Goto("session-ready")
  /\ status' = [status EXCEPT ![run.session] = "ready"]
  /\ UNCHANGED <<app, stops, created, jobs, docs, deleting, queue, history>>

\* The same checks again after that await, then the session becomes ready...
WorkRemoved ==
  LET done == ~run.aborted /\ jobs[run.job].status \notin {"none", "cancelled"}
  IN  /\ At("remove-work")
      /\ IF done THEN Goto("session-ready")
         ELSE IF run.aborted THEN Goto("caught") ELSE run' = NoRun
      /\ status' = IF done THEN [status EXCEPT ![run.session] = "ready"] ELSE status
      /\ UNCHANGED <<app, stops, created, jobs, docs, deleting, queue, history>>

\* ... and the job succeeded.
Succeed ==
  /\ At("session-ready")
  /\ jobs' = SetStatus(jobs, run.job, "succeeded")
  /\ run' = NoRun
  /\ UNCHANGED <<app, stops, created, status, docs, deleting, queue, history>>

\* The catch block of run(): nothing if the job is gone; an abort pauses the job
\* in a shutdown and otherwise leaves it cancelled; any other error fails it.
Caught ==
  LET j == run.job
      s == run.session
  IN  /\ At("caught")
      /\ run' = NoRun
      /\ \/ /\ ~Exists(j)
            /\ UNCHANGED <<jobs, status>>
         \/ /\ Exists(j) /\ run.aborted /\ app = "quitting"
            /\ jobs' = SetStatus(jobs, j, "queued")
            /\ UNCHANGED status
         \/ /\ Exists(j) /\ run.aborted /\ app = "up"
            /\ jobs[j].status # "cancelled"
            /\ status' = StatusAfterCancel(s, Active(jobs, s) \ {j})
            /\ jobs' = SetStatus(jobs, j, "cancelled")
         \/ /\ Exists(j) /\ run.aborted /\ app = "up"
            /\ jobs[j].status = "cancelled"
            /\ UNCHANGED <<jobs, status>>
         \/ /\ Exists(j) /\ ~run.aborted
            /\ status' = [status EXCEPT ![s] = "failed"]
            /\ jobs' = SetStatus(jobs, j, "failed")
      /\ UNCHANGED <<app, stops, created, docs, deleting, queue, history>>

RunStep ==
  \/ Reject \/ Probed \/ Proxied \/ Extracted \/ Transcribed
  \/ DiarizationChecked \/ Diarized \/ PcmRemoved \/ Continue \/ Summarized
  \/ Returned \/ WorkRemoved \/ Succeed \/ Caught

----------------------------------------------------------------------------
(* The process: quitting, crashing, starting again.                        *)

\* shutdown(), which the quit sequence calls once the IPC handlers have drained:
\* the running job is aborted and no further task starts.
Shutdown ==
  /\ Serving
  /\ deleting = {}
  /\ stops < MaxStops
  /\ app' = "quitting"
  /\ run' = IF run = NoRun THEN run ELSE [run EXCEPT !.aborted = TRUE]
  /\ UNCHANGED <<stops, created, jobs, status, docs, deleting, queue, history>>

Stopped ==
  /\ app' = "down"
  /\ stops' = stops + 1
  /\ run' = NoRun
  /\ queue' = <<>>
  /\ deleting' = {}
  /\ UNCHANGED <<created, jobs, docs, history>>

\* shutdown() has awaited the queue, and the process exits.
Exit ==
  /\ app = "quitting"
  /\ run = NoRun
  /\ queue = <<>>
  /\ Stopped
  /\ UNCHANGED status

\* The process dies between two steps.
Crash ==
  /\ app # "down"
  /\ stops < MaxStops
  /\ Stopped
  /\ UNCHANGED status

\* Or between the two commits of an action that writes the session before the
\* job: an import before its insertJob(), a cancellation, the catch block.  (The
\* longer series of sessions.delete is a series of cancellations.)
CrashMidway ==
  /\ app # "down"
  /\ stops < MaxStops
  /\ Stopped
  /\ \/ \E s \in Sessions : /\ Serving
                           /\ status[s] = "new"
                           /\ status' = [status EXCEPT ![s] = "processing"]
     \/ \E j \in JobIds :
          /\ Serving
          /\ jobs[j].status \in {"queued", "running"}
          /\ status' = StatusAfterCancel(jobs[j].session,
                                         Active(jobs, jobs[j].session) \ {j})
     \/ /\ At("caught") /\ Exists(run.job) /\ ~run.aborted
        /\ status' = [status EXCEPT ![run.session] = "failed"]
     \/ /\ At("caught") /\ run.aborted /\ app = "up"
        /\ jobs[run.job].status \in {"queued", "running"}
        /\ status' = StatusAfterCancel(run.session,
                                       Active(jobs, run.session) \ {run.job})

\* listQueuedJobs(): ORDER BY created_at.  The set has one element.
InOrder(S) ==
  {q \in [1..Cardinality(S) -> S] : \A a, b \in DOMAIN q : a < b => q[a] < q[b]}

\* Fault: only rows found queued are resumed.
RestartWithoutRecovery ==
  /\ app = "down"
  /\ app' = "up"
  /\ queue' \in InOrder({j \in JobIds : jobs[j].status = "queued"})
  /\ UNCHANGED <<stops, created, jobs, status, docs, deleting, run, history>>

\* startApplication(): recoverRunningJobs(), and resumePending() schedules every
\* queued job in the order of created_at.
Restart ==
  LET recovered == [j \in JobIds |->
        IF jobs[j].status = "running" THEN [jobs[j] EXCEPT !.status = "queued"]
        ELSE jobs[j]]
      pending == {j \in JobIds : recovered[j].status = "queued"}
  IN  /\ app = "down"
      /\ app' = "up"
      /\ jobs' = recovered
      /\ queue' \in InOrder(pending)
      /\ UNCHANGED <<stops, created, status, docs, deleting, run, history>>

----------------------------------------------------------------------------

Init ==
  /\ app = "up"
  /\ stops = 0
  /\ created = 0
  /\ jobs = [j \in JobIds |-> NoRow]
  /\ status = [s \in Sessions |-> "new"]
  /\ transcript = [s \in Sessions |-> NoTranscript]
  /\ summary = [s \in Sessions |-> NoSummary]
  /\ deleting = {}
  /\ queue = <<>>
  /\ run = NoRun
  /\ reached = {}
  /\ generated = [s \in Sessions |-> 0]

UserStep ==
  \/ \E s \in Sessions : \/ \E p \in Payloads : Enqueue(s, p) \/ GenerateSummary(s, p)
                         \/ EnqueueRejected(s)
                         \/ DeleteBegin(s) \/ DeleteEnd(s)
                         \/ EditTranscript(s) \/ EditSummary(s)
  \/ \E j \in JobIds : Retry(j) \/ Cancel(j)

Next ==
  \/ UserStep
  \/ SkipTask \/ StartTask \/ RunStep
  \/ Shutdown \/ Exit \/ Crash \/ CrashMidway \/ Restart

Spec == Init /\ [][Next]_vars

\* The event loop keeps running scheduled tasks and continuations, every awaited
\* operation ends (each has a timeout), and a quit that has begun exits.
Fairness == WF_vars(SkipTask \/ StartTask) /\ WF_vars(RunStep) /\ WF_vars(Exit)

FairSpec == Spec /\ Fairness

----------------------------------------------------------------------------
(* What the pipeline guarantees.                                           *)

\* Every variable keeps its type.
TypeOK ==
  /\ app \in {"up", "quitting", "down"}
  /\ stops \in Nat
  /\ created \in 0..MaxJobs
  /\ jobs \in [JobIds -> Row]
  /\ status \in [Sessions -> SessionStatuses]
  /\ transcript \in [Sessions -> TranscriptRow]
  /\ summary \in [Sessions -> SummaryRow]
  /\ deleting \subseteq Sessions
  /\ queue \in Seq(JobIds)
  /\ run \in Run
  /\ reached \subseteq JobIds
  /\ generated \in [Sessions -> 0..MaxJobs]

\* While the process lives, a row says running only for the job whose run() is
\* on the stack: cancelling, retrying and deleting a job while its run unwinds
\* never leaves a row running that nobody is working on.
RunningIsOwned ==
  app # "down" =>
    \A j \in JobIds : jobs[j].status = "running" => run.job = j

\* No queued row is forgotten: until the application shuts down, each has a
\* task in the promise chain, whichever of enqueueing, retrying, resuming and
\* unwinding made it queued.
QueuedIsScheduled ==
  app = "up" =>
    \A j \in JobIds :
      jobs[j].status = "queued" => \E i \in 1..Len(queue) : queue[i] = j

\* A job that succeeded has its results in the database: a transcript, and when
\* it was to write a summary, one generated after the job was asked for and not
\* one left over from an earlier job of the session.
SucceededHasResults ==
  \A j \in JobIds : jobs[j].status = "succeeded" =>
    LET s == jobs[j].session
    IN  /\ transcript[s].rev > 0
        /\ jobs[j].payload.summarizer # NoModel =>
             summary[s].rev > 0 /\ generated[s] >= j

\* A success is final: late cancellations, progress callbacks, shutdowns and
\* restarts never take it back; the row only goes when its session goes.
SucceededIsFinal ==
  [][\A j \in JobIds : jobs[j].status = "succeeded" =>
       jobs'[j].status \in {"succeeded", "none"}]_vars

\* A session that has a job says processing only while one of its jobs is queued
\* or running, so no cancellation, failure, crash or deletion leaves it processing
\* for ever.  (For recordings without diarization and documents nobody edits: the
\* exceptions are EditTranscript and the await of remove-pcm.  A session without a
\* job is the third: a crash came between its import and its insertJob().)
ProcessingHasActiveJob ==
  \A s \in Sessions :
    status[s] = "processing" /\ (\E j \in JobIds : jobs[j].session = s)
      => Active(jobs, s) # {}

\* Every accepted job is settled in the end, across crashes, quits, retries and
\* deletions of other jobs, unless the application is never started again.
JobsSettle ==
  \A j \in JobIds :
    jobs[j].status \in {"queued", "running"} ~>
      \/ jobs[j].status \notin {"queued", "running"}
      \/ [](app = "down")

\* The lifecycle of a job as its users know it.  A row that says running while
\* the process is down will be found queued again.
Phase == [j \in JobIds |->
  IF j > created THEN "new"
  ELSE IF jobs[j].status = "none" THEN "gone"
  ELSE IF jobs[j].status = "running" /\ app = "down" THEN "queued"
  ELSE jobs[j].status]

Lifecycle == INSTANCE JobLifecycle WITH JobIds <- JobIds, phase <- Phase

\* The pipeline implements the abstract lifecycle: one worker at a time, no
\* result without work, no outcome changed but by AskAgain.  (Shutdown asks again
\* too: it puts back the job whose run it interrupts, a cancelled one as well.)
ImplementsLifecycle == Lifecycle!LifecycleSpec

----------------------------------------------------------------------------
(* What the documentation says and the code does not do.                   *)

\* "Persisted stages resume after restart": a job that once recorded its summary
\* stage, behind a transcript that was saved, does not transcribe again.
SavedWorkIsNotRepeated ==
  run.pc = "transcribe" => run.job \notin reached

\* A cancelled run saves no transcript: in the diarization stage a cancellation
\* "always propagates".
CancelledRunSavesNothing ==
  [][run.pc # "transcript-saved" /\ transcript' # transcript
       /\ run'.pc = "transcript-saved" => ~run.aborted]_vars
=============================================================================
