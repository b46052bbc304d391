-------------------------- MODULE JobPipelineProofs --------------------------
(***************************************************************************)
(* Proofs about JobPipeline for every set of sessions, models and payloads *)
(* and every bound: types, the two invariants that tie the jobs table to   *)
(* the promise chain, the finality of a success, the refinement of         *)
(* JobLifecycle, that a job that succeeded has its results, and which      *)
(* steps leave a session processing behind its last job.                   *)
(***************************************************************************)
EXTENDS JobPipeline, FiniteSetTheorems, TLAPS

(* The inductive invariant.  Its parts say what the steps rely on: which    *)
(* rows exist, what the running job's row may have become while its run was *)
(* suspended, and what survives of the process when it is down.             *)

\* A row that exists was inserted, and belongs to a session.
RowsAreInserted ==
  \A j \in JobIds : jobs[j].status # "none" =>
    j <= created /\ jobs[j].session \in Sessions

\* What is on the stack is a run of an inserted job.
RunIsOfAJob ==
  run # NoRun =>
    /\ run.job \in 1..created
    /\ run.session \in Sessions
    /\ run.pc # "idle"

\* While a run is suspended its row can only be cancelled, queued again or
\* deleted, and unless it was deleted before anything cancelled it, the run's
\* signal is aborted first.
RunKeepsItsRow ==
  run # NoRun =>
    /\ jobs[run.job].status \in {"none", "queued", "running", "cancelled"}
    /\ ~run.aborted => jobs[run.job].status \in {"none", "running"}
    /\ run.pc = "session-ready" => jobs[run.job].status = "running"

\* Nothing of the process outlives it.
DownIsEmpty == app = "down" => run = NoRun /\ queue = <<>>

IInv ==
  /\ TypeOK
  /\ RowsAreInserted
  /\ RunIsOfAJob
  /\ RunKeepsItsRow
  /\ DownIsEmpty
  /\ RunningIsOwned
  /\ QueuedIsScheduled

----------------------------------------------------------------------------
(* Types.                                                                   *)

\* A run is NoRun, or has its fields in their types.
LEMMA NullTypes ==
  /\ NoRow \in Row
  /\ NoRun \in Run
  /\ NoTranscript \in TranscriptRow
  /\ NoSummary \in SummaryRow
BY ConstantsAssumption
DEF NoRow, Row, NoRun, Run, NoTranscript, TranscriptRow, NoSummary, SummaryRow,
    JobStatuses, Stages, Awaits, SyncSteps

\* Payloads name models, or none.
LEMMA PayloadModels ==
  ASSUME NEW p \in Payloads \cup {NoPayload}
  PROVE  /\ p.transcriber \in Models \cup {NoModel}
         /\ p.summarizer \in Models \cup {NoModel}
BY ConstantsAssumption DEF FullPayload, SummaryPayload, NoPayload

\* Updates of the records keep their types.
LEMMA RowUpdate ==
  ASSUME NEW r \in Row, NEW st \in JobStatuses, NEW n \in Nat
  PROVE  [r EXCEPT !.status = st, !.attempt = n] \in Row
BY DEF Row

LEMMA TranscriptUpdate ==
  ASSUME NEW r \in TranscriptRow, NEW n \in Nat
  PROVE  [r EXCEPT !.rev = n] \in TranscriptRow
BY DEF TranscriptRow

LEMMA SummaryUpdate ==
  ASSUME NEW r \in SummaryRow, NEW n \in Nat
  PROVE  [r EXCEPT !.rev = n, !.edited = TRUE] \in SummaryRow
BY DEF SummaryRow

\* A new row, and the queue with its task.
LEMMA InsertTypes ==
  ASSUME TypeOK, NEW s \in Sessions, NEW p \in Payloads, NEW stage \in Stages,
         Insert(s, p, stage)
  PROVE  /\ created' \in 0..MaxJobs
         /\ jobs' \in [JobIds -> Row]
         /\ queue' \in Seq(JobIds)
<1>1. created + 1 \in JobIds
  BY ConstantsAssumption DEF Insert, TypeOK, JobIds
<1>2. [status |-> "queued", stage |-> stage, attempt |-> 0, session |-> s,
       payload |-> p] \in Row
  BY DEF Row, JobStatuses
<1>3. QED
  BY <1>1, <1>2, ConstantsAssumption DEF Insert, TypeOK, JobIds

LEMMA UserTypes ==
  ASSUME TypeOK, RowsAreInserted, UserStep
  PROVE  TypeOK'
<1> USE ConstantsAssumption, NullTypes
<1>1. ASSUME NEW s \in Sessions, NEW p \in Payloads, Enqueue(s, p)
      PROVE  TypeOK'
  <2>1. Insert(s, p, "probe") /\ "probe" \in Stages
    BY <1>1 DEF Enqueue, Stages
  <2>2. QED
    BY <1>1, <2>1, InsertTypes DEF Enqueue, TypeOK, SessionStatuses, docs, history
<1>2. ASSUME NEW s \in Sessions, NEW p \in Payloads, GenerateSummary(s, p)
      PROVE  TypeOK'
  <2>1. Insert(s, p, "summarize") /\ "summarize" \in Stages
    BY <1>2 DEF GenerateSummary, Stages
  <2>2. QED
    BY <1>2, <2>1, InsertTypes DEF GenerateSummary, TypeOK, docs, history
<1>3. ASSUME NEW s \in Sessions, EnqueueRejected(s)
      PROVE  TypeOK'
  BY <1>3 DEF EnqueueRejected, TypeOK, SessionStatuses, docs, history
<1>4. ASSUME NEW s \in Sessions, DeleteBegin(s)
      PROVE  TypeOK'
  BY <1>4 DEF DeleteBegin, TypeOK, SessionStatuses, StatusAfterCancel, Run, Row,
              JobStatuses, docs, history
<1>5. ASSUME NEW s \in Sessions, DeleteEnd(s)
      PROVE  TypeOK'
  BY <1>5 DEF DeleteEnd, TypeOK, SessionStatuses, history
<1>6. ASSUME NEW s \in Sessions, EditTranscript(s)
      PROVE  TypeOK'
  <2>1. [transcript[s] EXCEPT !.rev = @ + 1] \in TranscriptRow
    <3>1. transcript[s].rev + 1 \in Nat
      BY DEF TypeOK, TranscriptRow
    <3>2. QED
      BY <3>1, TranscriptUpdate DEF TypeOK
  <2>2. transcript' = [transcript EXCEPT ![s] = [transcript[s] EXCEPT !.rev = @ + 1]]
    BY <1>6 DEF EditTranscript
  <2>3. QED
    BY <1>6, <2>1, <2>2 DEF EditTranscript, TypeOK, SessionStatuses, history
<1>7. ASSUME NEW s \in Sessions, EditSummary(s)
      PROVE  TypeOK'
  <2>1. [summary[s] EXCEPT !.rev = @ + 1, !.edited = TRUE] \in SummaryRow
    <3>1. summary[s].rev + 1 \in Nat
      BY DEF TypeOK, SummaryRow
    <3>2. QED
      BY <3>1, SummaryUpdate DEF TypeOK
  <2>2. summary' = [summary EXCEPT
          ![s] = [summary[s] EXCEPT !.rev = @ + 1, !.edited = TRUE]]
    BY <1>7 DEF EditSummary, TypeOK
  <2>3. QED
    BY <1>7, <2>1, <2>2 DEF EditSummary, TypeOK, SessionStatuses, history
<1>8. ASSUME NEW j \in JobIds, Retry(j)
      PROVE  TypeOK'
  <2>1. [jobs[j] EXCEPT !.status = "queued", !.attempt = @ + 1] \in Row
    <3>1. jobs[j].attempt + 1 \in Nat
      BY DEF TypeOK, Row
    <3>2. QED
      BY <3>1, RowUpdate DEF TypeOK, JobStatuses
  <2>2. jobs' = [jobs EXCEPT
          ![j] = [jobs[j] EXCEPT !.status = "queued", !.attempt = @ + 1]]
    BY <1>8 DEF Retry, TypeOK
  <2>3. Append(queue, j) \in Seq(JobIds)
    BY DEF TypeOK
  <2>4. QED
    BY <1>8, <2>1, <2>2, <2>3 DEF Retry, TypeOK, docs, history
<1>9. ASSUME NEW j \in JobIds, Cancel(j)
      PROVE  TypeOK'
  BY <1>9 DEF Cancel, SetStatus, StatusAfterCancel, TypeOK, SessionStatuses, Run,
              Row, JobStatuses, docs, history
<1>10. QED
  BY <1>1, <1>2, <1>3, <1>4, <1>5, <1>6, <1>7, <1>8, <1>9 DEF UserStep
\* SetStage writes a stage into a row that exists.
LEMMA SetStageTypes ==
  ASSUME TypeOK, NEW j, NEW stage \in Stages, SetStage(j, stage)
  PROVE  jobs' \in [JobIds -> Row]
<1>1. CASE Exists(j) /\ j \in JobIds
  <2>1. [jobs[j] EXCEPT !.stage = stage] \in Row
    BY <1>1 DEF TypeOK, Row
  <2>2. QED
    BY <1>1, <2>1 DEF SetStage, TypeOK
<1>2. CASE ~(Exists(j) /\ j \in JobIds)
  BY <1>2 DEF SetStage, TypeOK
<1>3. QED
  BY <1>1, <1>2

\* The run moves on and keeps its other fields.
LEMMA GotoTypes ==
  ASSUME TypeOK, NEW pc \in Awaits \cup SyncSteps, Goto(pc)
  PROVE  run' \in Run
BY DEF TypeOK, Run, Goto

LEMMA SuspendTypes ==
  ASSUME NEW pc \in Awaits
  PROVE  Suspend(pc) \in Awaits
BY DEF Suspend, Awaits

LEMMA SaveTranscriptTypes ==
  ASSUME TypeOK, RunIsOfAJob, run # NoRun, NEW stage \in Stages,
         SaveTranscript(stage)
  PROVE  /\ jobs' \in [JobIds -> Row]
         /\ status' \in [Sessions -> SessionStatuses]
         /\ transcript' \in [Sessions -> TranscriptRow]
         /\ run' \in Run
<1> DEFINE s == run.session
<1>1. jobs' \in [JobIds -> Row]
  BY SetStageTypes DEF SaveTranscript
<1>2. s \in Sessions /\ transcript[s].rev + 1 \in Nat
  BY DEF RunIsOfAJob, TypeOK, TranscriptRow
<1>3. run.payload.transcriber \in Models \cup {NoModel}
  BY PayloadModels DEF TypeOK, Run
<1>4. CASE ~Present(s)
  BY <1>1, <1>4, GotoTypes DEF SaveTranscript, TypeOK, SyncSteps
<1>5. CASE Present(s)
  <2>1. [rev |-> transcript[s].rev + 1, model |-> run.payload.transcriber]
          \in TranscriptRow
    BY <1>2, <1>3 DEF TranscriptRow
  <2>2. transcript' = [transcript EXCEPT ![s] =
          [rev |-> transcript[s].rev + 1, model |-> run.payload.transcriber]]
    BY <1>5 DEF SaveTranscript
  <2>3. run' = [run EXCEPT !.pc = "transcript-saved",
                           !.source = transcript[s].rev + 1]
    BY <1>5 DEF SaveTranscript
  <2>4. run' \in Run
    BY <1>2, <2>3 DEF TypeOK, Run, SyncSteps
  <2>5. status' = [status EXCEPT ![s] = "processing"]
    BY <1>5 DEF SaveTranscript
  <2>6. QED
    BY <1>1, <2>1, <2>2, <2>4, <2>5 DEF TypeOK, SessionStatuses
<1>6. QED
  BY <1>4, <1>5

LEMMA StartTypes ==
  ASSUME TypeOK, RowsAreInserted, SkipTask \/ StartTask
  PROVE  TypeOK'
<1>1. CASE SkipTask
  <2>1. Tail(queue) \in Seq(JobIds)
    BY <1>1 DEF SkipTask, TypeOK
  <2>2. QED
    BY <1>1, <2>1 DEF SkipTask, TypeOK, docs, history
<1>2. CASE StartTask
  <2> DEFINE j == Head(queue)
             s == jobs[j].session
             p == jobs[j].payload
  <2>1. j \in JobIds /\ Tail(queue) \in Seq(JobIds)
    BY <1>2 DEF StartTask, TypeOK
  <2>2. s \in Sessions
    BY <1>2, <2>1 DEF StartTask, RowsAreInserted
  <2>3. p \in Payloads \cup {NoPayload} /\ jobs[j].stage \in Stages
    BY <2>1 DEF TypeOK, Row
  <2>4. jobs' \in [JobIds -> Row]
    <3> DEFINE n == IF jobs[j].attempt = 0 THEN 1 ELSE jobs[j].attempt
               st == IF p.kind = "full" THEN "probe" ELSE "summarize"
    <3>0. n \in Nat /\ st \in Stages
      BY <2>1 DEF TypeOK, Row, Stages
    <3>1. jobs' = [jobs EXCEPT ![j] =
            [jobs[j] EXCEPT !.status = "running", !.attempt = n, !.stage = st]]
      BY <1>2, <2>1 DEF StartTask, TypeOK
    <3> HIDE DEF n, st
    <3>2. [jobs[j] EXCEPT !.status = "running", !.attempt = n, !.stage = st] \in Row
      BY <2>1, <3>0 DEF TypeOK, Row, JobStatuses
    <3>3. QED
      BY <2>1, <3>1, <3>2 DEF TypeOK
  <2>5. run' \in Run
    <3>1. transcript[s].rev \in Nat
      BY <2>2 DEF TypeOK, TranscriptRow
    <3> DEFINE from == IF p.kind = "full" THEN 0 ELSE transcript[s].rev
    <3>2. \E at \in {"probe", "caught", "returned", "summarize"} :
            run' = [job |-> j, session |-> s, payload |-> p, stage |-> jobs[j].stage,
                    pc |-> at, aborted |-> FALSE, source |-> from]
      BY <1>2 DEF StartTask
    <3>3. from \in Nat /\ j \in 0..MaxJobs
      BY <2>1, <3>1 DEF JobIds
    <3>4. {"probe", "caught", "returned", "summarize"} \subseteq Awaits \cup SyncSteps
      BY DEF Awaits, SyncSteps
    <3> HIDE DEF j, s, p, from
    <3>5. QED
      BY <2>2, <2>3, <3>2, <3>3, <3>4 DEF Run
  <2>6. QED
    BY <1>2, <2>1, <2>4, <2>5 DEF StartTask, TypeOK, SessionStatuses, docs, history
<1>3. QED
  BY <1>1, <1>2
LEMMA RunTypes ==
  ASSUME TypeOK, RunIsOfAJob, RunStep
  PROVE  TypeOK'
<1> USE ConstantsAssumption, NullTypes
<1>1. ASSUME run # NoRun
      PROVE  run.job \in JobIds /\ run.session \in Sessions
  BY <1>1 DEF RunIsOfAJob, TypeOK, JobIds
<1>2. CASE Reject
  BY <1>2, GotoTypes DEF Reject, TypeOK, SyncSteps, docs, history
<1>3. CASE Probed
  <2>1. PICK next \in {"playback-proxy", "extract-audio"} :
          SetStage(run.job, next) /\ Goto(Suspend(next))
    BY <1>3 DEF Probed
  <2>2. next \in Stages /\ next \in Awaits
    BY DEF Stages, Awaits
  <2>3. QED
    BY <1>3, <2>1, <2>2, SetStageTypes, GotoTypes, SuspendTypes
    DEF Probed, TypeOK, docs, history
<1>4. CASE Proxied
  <2>1. "extract-audio" \in Stages /\ "extract-audio" \in Awaits
    BY DEF Stages, Awaits
  <2>2. QED
    BY <1>4, <2>1, SetStageTypes, GotoTypes, SuspendTypes
    DEF Proxied, TypeOK, docs, history
<1>5. CASE Extracted
  <2>1. run.session \in Sessions
    BY <1>1, <1>5 DEF Extracted, At, NoRun
  <2>2. CASE Reusable
    <3>1. transcript[run.session].rev \in Nat
      BY <2>1 DEF TypeOK, TranscriptRow
    <3>2. QED
      BY <1>5, <2>2, <3>1 DEF Extracted, TypeOK, Run, SyncSteps, docs, history
  <2>3. CASE ~Reusable
    <3>1. "transcribe" \in Stages /\ "transcribe" \in Awaits
      BY DEF Stages, Awaits
    <3>2. QED
      BY <1>5, <2>3, <3>1, SetStageTypes, GotoTypes
      DEF Extracted, TypeOK, docs, history
  <2>4. QED
    BY <2>2, <2>3
<1>6. ASSUME NEW stage \in {"transcribe", "diarize"}, SaveTranscript(stage),
             run # NoRun,
             UNCHANGED <<app, stops, created, summary, deleting, queue, history>>
      PROVE  TypeOK'
  <2>1. stage \in Stages
    BY DEF Stages
  <2>2. QED
    BY <1>6, <2>1, SaveTranscriptTypes DEF TypeOK, history
<1>7. CASE Transcribed
  <2>1. run # NoRun
    BY <1>7 DEF Transcribed, At, NoRun
  <2>2. CASE run.payload.meeting
    BY <1>7, <2>2, GotoTypes DEF Transcribed, TypeOK, Awaits, history
  <2>3. CASE ~run.payload.meeting
    BY <1>6, <1>7, <2>1, <2>3 DEF Transcribed
  <2>4. QED
    BY <2>2, <2>3
<1>8. CASE DiarizationChecked
  <2>1. run # NoRun
    BY <1>8 DEF DiarizationChecked, At, NoRun
  <2>2. CASE SaveTranscript("transcribe")
    BY <1>6, <1>8, <2>1, <2>2 DEF DiarizationChecked
  <2>3. CASE SetStage(run.job, "diarize") /\ Goto("diarize")
             /\ UNCHANGED <<status, transcript>>
    BY <1>8, <2>3, SetStageTypes, GotoTypes
    DEF DiarizationChecked, TypeOK, Stages, Awaits, history
  <2>4. QED
    BY <1>8, <2>2, <2>3 DEF DiarizationChecked
<1>9. CASE Diarized
  <2>1. run # NoRun
    BY <1>9 DEF Diarized, At, NoRun
  <2>2. CASE SaveTranscript("diarize")
    BY <1>6, <1>9, <2>1, <2>2 DEF Diarized
  <2>3. CASE Goto("remove-pcm") /\ UNCHANGED <<jobs, status, transcript>>
    BY <1>9, <2>3, GotoTypes DEF Diarized, TypeOK, Awaits, history
  <2>4. QED
    BY <1>9, <2>2, <2>3 DEF Diarized
<1>10. CASE PcmRemoved
  <2>1. run # NoRun
    BY <1>10 DEF PcmRemoved, At, NoRun
  <2>2. CASE SaveTranscript("diarize")
    BY <1>6, <1>10, <2>1, <2>2 DEF PcmRemoved
  <2>3. CASE Goto("caught") /\ UNCHANGED <<jobs, status, transcript>>
    BY <1>10, <2>3, GotoTypes DEF PcmRemoved, TypeOK, SyncSteps, history
  <2>4. QED
    BY <1>10, <2>2, <2>3 DEF PcmRemoved
<1>11. CASE Continue
  <2>1. CASE run.payload.summarizer = NoModel
    BY <1>11, <2>1, GotoTypes DEF Continue, TypeOK, SyncSteps, docs
  <2>2. CASE run.payload.summarizer # NoModel
    <3>1. SetStage(run.job, "summarize") /\ reached' = reached \cup {run.job}
      BY <1>11, <2>2 DEF Continue
    <3>2. jobs' \in [JobIds -> Row]
      BY <3>1, SetStageTypes DEF Stages
    <3>3. run.job \in JobIds
      BY <1>1, <1>11 DEF Continue, At, NoRun
    <3>4. run' \in Run
      <4>1. Suspend("summarize") \in Awaits
        BY SuspendTypes DEF Awaits
      <4>2. \E pc \in Awaits \cup SyncSteps : Goto(pc)
        BY <1>11, <2>2, <4>1 DEF Continue, SyncSteps
      <4>3. QED
        BY <4>2, GotoTypes
    <3>5. QED
      BY <1>11, <3>1, <3>2, <3>3, <3>4 DEF Continue, TypeOK, docs
  <2>3. QED
    BY <2>1, <2>2
<1>12. CASE Summarized
  <2> DEFINE s == run.session
             written == [rev |-> summary[s].rev + 1, of |-> run.source,
                         model |-> run.payload.summarizer, edited |-> FALSE,
                         jobsThen |-> created]
  <2>1. s \in Sessions
    BY <1>1, <1>12 DEF Summarized, At, NoRun
  <2>2. written \in SummaryRow
    <3>1. run.payload.summarizer \in Models \cup {NoModel}
      BY PayloadModels DEF TypeOK, Run
    <3>2. summary[s].rev + 1 \in Nat /\ run.source \in Nat
      BY <2>1 DEF TypeOK, SummaryRow, Run
    <3>3. QED
      BY <3>1, <3>2 DEF SummaryRow, TypeOK
  <2>3. CASE ~Present(s)
    BY <1>12, <2>3, GotoTypes DEF Summarized, TypeOK, SyncSteps
  <2>4. CASE Present(s)
    <3>1. Goto("returned") /\ summary' = [summary EXCEPT ![s] = written]
      BY <1>12, <2>4 DEF Summarized
    <3>2. run' \in Run
      BY <3>1, GotoTypes DEF SyncSteps
    <3> HIDE DEF written
    <3>3. summary' \in [Sessions -> SummaryRow]
      BY <2>2, <3>1 DEF TypeOK
    <3>4. status' \in [Sessions -> SessionStatuses]
      BY <1>12, <2>4 DEF Summarized, TypeOK, SessionStatuses
    <3>5. generated' \in [Sessions -> 0..MaxJobs]
      BY <1>12, <2>4 DEF Summarized, TypeOK
    <3>6. QED
      BY <1>12, <3>2, <3>3, <3>4, <3>5 DEF Summarized, TypeOK
  <2>5. QED
    BY <2>3, <2>4
<1>13. CASE Returned
  BY <1>13, GotoTypes DEF Returned, TypeOK, SyncSteps, Awaits, docs, history
<1>14. CASE WorkRemoved
  BY <1>14, GotoTypes DEF WorkRemoved, TypeOK, SyncSteps, SessionStatuses, docs, history
<1>15. CASE Succeed
  BY <1>15 DEF Succeed, SetStatus, TypeOK, Row, JobStatuses, docs, history
<1>16. CASE Caught
  <2>1. jobs' \in [JobIds -> Row]
    <3>1. run.job \in JobIds
      BY <1>1, <1>16 DEF Caught, At, NoRun
    <3>2. \A st \in JobStatuses : [jobs[run.job] EXCEPT !.status = st] \in Row
      BY <3>1 DEF TypeOK, Row
    <3>3. \/ jobs' = jobs
          \/ \E st \in JobStatuses :
               jobs' = [jobs EXCEPT ![run.job] = [jobs[run.job] EXCEPT !.status = st]]
      BY <1>16 DEF Caught, SetStatus, JobStatuses
    <3>4. QED
      BY <3>2, <3>3 DEF TypeOK
  <2>2. status' \in [Sessions -> SessionStatuses]
    BY <1>16 DEF Caught, StatusAfterCancel, TypeOK, SessionStatuses
  <2>3. QED
    BY <1>16, <2>1, <2>2 DEF Caught, TypeOK, docs, history
<1>17. QED
  BY <1>2, <1>3, <1>4, <1>5, <1>7, <1>8, <1>9, <1>10, <1>11, <1>12, <1>13, <1>14,
     <1>15, <1>16 DEF RunStep
\* listQueuedJobs() lists every queued job and nothing else.
LEMMA InOrderIsComplete ==
  ASSUME NEW S, IsFiniteSet(S), NEW q \in InOrder(S), S \subseteq Nat
  PROVE  /\ q \in Seq(S)
         /\ \A x \in S : \E i \in 1..Len(q) : q[i] = x
<1> DEFINE n == Cardinality(S)
<1>1. n \in Nat
  BY FS_CardinalityType
<1>2. q \in [1..n -> S] /\ \A a, b \in 1..n : a < b => q[a] < q[b]
  BY DEF InOrder
<1>3. q \in Seq(S) /\ Len(q) = n
  BY <1>1, <1>2
<1>4. IsFiniteSet(1..n) /\ Cardinality(1..n) = n
  BY <1>1, FS_Interval
<1>5. \A a, b \in 1..n : q[a] = q[b] => a = b
  <2> SUFFICES ASSUME NEW a \in 1..n, NEW b \in 1..n, a # b
               PROVE  q[a] # q[b]
    OBVIOUS
  <2>1. a < b \/ b < a
    BY <1>1
  <2>2. q[a] \in Nat /\ q[b] \in Nat
    BY <1>2
  <2>3. QED
    BY <1>2, <2>1, <2>2
<1>6. q \in Injection(1..n, S)
  BY <1>2, <1>5 DEF Injection, IsInjective
<1>7. q \in Surjection(1..n, S)
  BY <1>4, <1>6, FS_Injection
<1>8. QED
  BY <1>3, <1>7 DEF Surjection

\* The rows that are queued after recovery are finitely many.
LEMMA PendingIsFinite ==
  ASSUME NEW S \in SUBSET JobIds
  PROVE  IsFiniteSet(S) /\ S \subseteq Nat
<1>1. IsFiniteSet(JobIds) /\ JobIds \subseteq Nat
  BY FS_Interval, ConstantsAssumption DEF JobIds
<1>2. QED
  BY <1>1, FS_Subset

LEMMA ProcessTypes ==
  ASSUME TypeOK, Shutdown \/ Exit \/ Crash \/ CrashMidway \/ Restart
  PROVE  TypeOK'
<1> USE ConstantsAssumption, NullTypes
<1>1. CASE Shutdown
  BY <1>1 DEF Shutdown, TypeOK, Run, docs, history
<1>2. CASE Exit \/ Crash
  <2>1. Stopped /\ UNCHANGED status
    BY <1>2 DEF Exit, Crash
  <2>2. <<>> \in Seq(JobIds) /\ stops + 1 \in Nat
    BY DEF TypeOK
  <2>3. QED
    BY <2>1, <2>2 DEF Stopped, TypeOK, docs, history
<1>3. CASE CrashMidway
  <2>1. status' \in [Sessions -> SessionStatuses]
    BY <1>3 DEF CrashMidway, StatusAfterCancel, TypeOK, SessionStatuses
  <2>2. QED
    BY <1>3, <2>1 DEF CrashMidway, Stopped, TypeOK, docs, history
<1>4. CASE Restart
  <2> DEFINE recovered == [j \in JobIds |->
               IF jobs[j].status = "running"
               THEN [jobs[j] EXCEPT !.status = "queued"] ELSE jobs[j]]
             pending == {j \in JobIds : recovered[j].status = "queued"}
  <2>1. jobs' = recovered /\ queue' \in InOrder(pending)
    BY <1>4 DEF Restart
  <2>2. recovered \in [JobIds -> Row]
    BY DEF TypeOK, Row, JobStatuses
  <2>3. queue' \in Seq(JobIds)
    <3>1. pending \in SUBSET JobIds
      OBVIOUS
    <3> HIDE DEF pending
    <3>2. queue' \in Seq(pending)
      BY <2>1, <3>1, PendingIsFinite, InOrderIsComplete
    <3>3. QED
      BY <3>1, <3>2
  <2>4. QED
    BY <1>4, <2>1, <2>2, <2>3 DEF Restart, TypeOK, docs, history
<1>5. QED
  BY <1>1, <1>2, <1>3, <1>4

----------------------------------------------------------------------------
(* What the steps of a run do to the rows.                                  *)

\* Steps that leave every row's status alone.
RowsKeep ==
  /\ UNCHANGED <<app, created, queue>>
  /\ \A j \in JobIds : /\ jobs'[j].status = jobs[j].status
                       /\ jobs'[j].session = jobs[j].session

\* The run is suspended somewhere else, as the same run.
RunGoesOn ==
  /\ run # NoRun
  /\ run' # NoRun
  /\ run'.job = run.job
  /\ run'.session = run.session
  /\ run'.aborted = run.aborted
  /\ run'.pc # "idle"
  /\ run'.pc = "session-ready" => jobs[run.job].status = "running"

LEMMA RunningJob ==
  ASSUME TypeOK, RunIsOfAJob, run # NoRun
  PROVE  run.job \in JobIds /\ run.job <= created
BY ConstantsAssumption DEF TypeOK, RunIsOfAJob, JobIds

LEMMA GotoGoesOn ==
  ASSUME TypeOK, run # NoRun, RunIsOfAJob, NEW pc \in Awaits \cup SyncSteps,
         pc # "session-ready", Goto(pc)
  PROVE  RunGoesOn
BY DEF RunGoesOn, Goto, TypeOK, Run, NoRun, Awaits, SyncSteps

LEMMA SetStageKeeps ==
  ASSUME TypeOK, NEW j, NEW stage, SetStage(j, stage),
         UNCHANGED <<app, created, queue>>
  PROVE  RowsKeep
BY DEF TypeOK, Row, SetStage, RowsKeep
QuietStep ==
  \/ Reject \/ Probed \/ Proxied \/ Extracted \/ Transcribed
  \/ DiarizationChecked \/ Diarized \/ PcmRemoved \/ Continue \/ Summarized

LEMMA SavedRunGoesOn ==
  ASSUME TypeOK, RunIsOfAJob, run # NoRun, NEW n,
         run' = [run EXCEPT !.pc = "transcript-saved", !.source = n]
  PROVE  RunGoesOn
BY DEF RunGoesOn, RunIsOfAJob, TypeOK, Run, NoRun

LEMMA SaveTranscriptIsQuiet ==
  ASSUME TypeOK, RunIsOfAJob, run # NoRun, NEW stage, SaveTranscript(stage),
         UNCHANGED <<app, created, queue>>
  PROVE  RowsKeep /\ RunGoesOn
<1>1. RowsKeep
  BY SetStageKeeps DEF SaveTranscript
<1>2. CASE ~Present(run.session)
  BY <1>1, <1>2, GotoGoesOn DEF SaveTranscript, SyncSteps
<1>3. CASE Present(run.session)
  <2>1. run' = [run EXCEPT !.pc = "transcript-saved",
                           !.source = transcript[run.session].rev + 1]
    BY <1>3 DEF SaveTranscript
  <2>2. QED
    BY <1>1, <2>1, SavedRunGoesOn
<1>4. QED
  BY <1>2, <1>3

LEMMA QuietSteps ==
  ASSUME TypeOK, RunIsOfAJob, QuietStep
  PROVE  RowsKeep /\ RunGoesOn
<1>1. run # NoRun
  BY DEF QuietStep, Reject, Probed, Proxied, Extracted, Transcribed,
         DiarizationChecked, Diarized, PcmRemoved, Continue, Summarized, At, NoRun
<1>2. UNCHANGED <<app, created, queue>>
  BY DEF QuietStep, Reject, Probed, Proxied, Extracted, Transcribed,
         DiarizationChecked, Diarized, PcmRemoved, Continue, Summarized
<1>3. \A pc \in Awaits \cup SyncSteps :
        pc # "session-ready" /\ Goto(pc) => RunGoesOn
  BY <1>1, GotoGoesOn
<1>4. ASSUME NEW pc \in Awaits, Goto(Suspend(pc))
      PROVE  RunGoesOn
  <2>1. Suspend(pc) \in Awaits /\ Suspend(pc) # "session-ready"
    BY SuspendTypes DEF Suspend, Awaits
  <2>2. QED
    BY <1>3, <1>4, <2>1
<1>5. UNCHANGED jobs => RowsKeep
  BY <1>2 DEF RowsKeep
<1>6. \A stage : SetStage(run.job, stage) => RowsKeep
  BY <1>2, SetStageKeeps
<1>7. \A stage : SaveTranscript(stage) => RowsKeep /\ RunGoesOn
  BY <1>1, <1>2, SaveTranscriptIsQuiet
<1>8. CASE Reject
  BY <1>3, <1>5, <1>8 DEF Reject, SyncSteps
<1>9. CASE Probed \/ Proxied
  BY <1>4, <1>6, <1>9 DEF Probed, Proxied, Awaits
<1>10. CASE Extracted
  <2>1. CASE Reusable
    <3>1. run' = [run EXCEPT !.pc = "transcript-saved",
                             !.source = transcript[run.session].rev]
      BY <1>10, <2>1 DEF Extracted
    <3>2. QED
      BY <1>1, <1>5, <1>10, <2>1, <3>1, SavedRunGoesOn DEF Extracted
  <2>2. CASE ~Reusable
    BY <1>3, <1>6, <1>10, <2>2 DEF Extracted, Awaits
  <2>3. QED
    BY <2>1, <2>2
<1>11. CASE Transcribed \/ DiarizationChecked \/ Diarized \/ PcmRemoved
  BY <1>3, <1>5, <1>6, <1>7, <1>11
  DEF Transcribed, DiarizationChecked, Diarized, PcmRemoved, Awaits, SyncSteps
<1>12. CASE Continue
  <2>1. \E pc \in Awaits \cup SyncSteps : pc # "session-ready" /\ Goto(pc)
    BY <1>12, SuspendTypes DEF Continue, Awaits, SyncSteps, Suspend
  <2>2. QED
    BY <1>3, <1>5, <1>6, <1>12, <2>1 DEF Continue
<1>13. CASE Summarized
  BY <1>3, <1>5, <1>13 DEF Summarized, SyncSteps
<1>14. QED
  BY <1>8, <1>9, <1>10, <1>11, <1>12, <1>13 DEF QuietStep

----------------------------------------------------------------------------
(* The inductive step, one lemma per group of actions.                      *)

LEMMA GoesOnInv ==
  ASSUME IInv, TypeOK', RowsKeep, RunGoesOn
  PROVE  IInv'
<1>1. RowsAreInserted'
  BY DEF IInv, RowsKeep, RowsAreInserted
<1>2. RunIsOfAJob'
  BY DEF IInv, RowsKeep, RunGoesOn, RunIsOfAJob
<1>3. RunKeepsItsRow'
  <2>1. run.job \in JobIds
    BY RunningJob DEF IInv, RunGoesOn
  <2>2. jobs'[run'.job].status = jobs[run.job].status
    BY <2>1 DEF RowsKeep, RunGoesOn
  <2>3. QED
    BY <2>2 DEF IInv, RunGoesOn, RunKeepsItsRow
<1>4. DownIsEmpty'
  BY DEF IInv, RowsKeep, RunGoesOn, DownIsEmpty
<1>5. RunningIsOwned'
  BY DEF IInv, RowsKeep, RunGoesOn, RunningIsOwned
<1>6. QueuedIsScheduled'
  BY DEF IInv, RowsKeep, QueuedIsScheduled
<1>7. QED
  BY <1>1, <1>2, <1>3, <1>4, <1>5, <1>6 DEF IInv

\* A step that ends the run, and changes no row's status but its own.  The row is
\* not left running, nor made queued unless the application is quitting.
RunEnds ==
  /\ UNCHANGED <<app, created, queue>>
  /\ run' = NoRun
  /\ \A j \in JobIds :
       /\ jobs'[j].session = jobs[j].session
       /\ j # run.job => jobs'[j].status = jobs[j].status
       /\ jobs[j].status = "none" => jobs'[j].status = "none"
  /\ jobs'[run.job].status # "running"
  /\ jobs'[run.job].status = "queued" =>
       app = "quitting" \/ jobs[run.job].status = "queued"

LEMMA EndsInv ==
  ASSUME IInv, TypeOK', RunEnds
  PROVE  IInv'
<1>1. RowsAreInserted'
  BY DEF IInv, RunEnds, RowsAreInserted
<1>2. RunIsOfAJob' /\ RunKeepsItsRow'
  BY DEF RunEnds, RunIsOfAJob, RunKeepsItsRow
<1>3. DownIsEmpty'
  BY DEF IInv, RunEnds, DownIsEmpty
<1>4. RunningIsOwned'
  BY DEF IInv, RunEnds, RunningIsOwned
<1>5. QueuedIsScheduled'
  BY DEF IInv, RunEnds, QueuedIsScheduled
<1>6. QED
  BY <1>1, <1>2, <1>3, <1>4, <1>5 DEF IInv

LEMMA RunStepEffect ==
  ASSUME IInv, RunStep
  PROVE  (RowsKeep /\ RunGoesOn) \/ RunEnds
<1>1. run # NoRun
  BY DEF RunStep, QuietStep, Reject, Probed, Proxied, Extracted, Transcribed,
         DiarizationChecked, Diarized, PcmRemoved, Continue, Summarized, Returned,
         WorkRemoved, Succeed, Caught, At, NoRun
<1>2. run.job \in JobIds
  BY <1>1, RunningJob DEF IInv
<1>3. jobs[run.job].status \in {"none", "queued", "running", "cancelled"}
  BY <1>1 DEF IInv, RunKeepsItsRow
<1>4. ~run.aborted => jobs[run.job].status \in {"none", "running"}
  BY <1>1 DEF IInv, RunKeepsItsRow
<1>5. CASE QuietStep
  BY <1>5, QuietSteps DEF IInv
<1>6. \A pc \in Awaits \cup SyncSteps :
        pc # "session-ready" /\ Goto(pc) => RunGoesOn
  BY <1>1, GotoGoesOn DEF IInv
<1>7. CASE Returned
  <2>1. RowsKeep
    BY <1>7 DEF Returned, RowsKeep
  <2>2. CASE run' = NoRun
    BY <1>2, <1>4, <1>7, <2>2 DEF Returned, RunEnds, Goto, IInv, TypeOK, Run, NoRun
  <2>3. CASE run' # NoRun
    BY <1>6, <1>7, <2>1, <2>3 DEF Returned, Awaits, SyncSteps
  <2>4. QED
    BY <2>2, <2>3
<1>8. CASE WorkRemoved
  <2>1. RowsKeep
    BY <1>8 DEF WorkRemoved, RowsKeep
  <2>2. CASE ~run.aborted /\ jobs[run.job].status = "running"
    <3>1. Goto("session-ready")
      BY <1>8, <2>2 DEF WorkRemoved
    <3>2. RunGoesOn
      BY <1>1, <2>2, <3>1 DEF RunGoesOn, Goto, IInv, TypeOK, Run, NoRun
    <3>3. QED
      BY <2>1, <3>2
  <2>3. CASE run.aborted
    BY <1>6, <1>8, <2>1, <2>3 DEF WorkRemoved, SyncSteps
  <2>4. CASE ~run.aborted /\ jobs[run.job].status = "none"
    BY <1>2, <1>8, <2>4 DEF WorkRemoved, RunEnds
  <2>5. QED
    BY <1>4, <2>2, <2>3, <2>4
<1>9. CASE Succeed
  BY <1>1, <1>2, <1>9
  DEF Succeed, SetStatus, RunEnds, IInv, RunKeepsItsRow, At, TypeOK, Row
<1>10. CASE Caught
  <2>1. CASE UNCHANGED jobs /\ jobs[run.job].status \in {"none", "cancelled"}
    BY <1>2, <1>10, <2>1 DEF Caught, RunEnds
  <2>2. ASSUME NEW st \in {"queued", "cancelled", "failed"},
               st = "queued" => app = "quitting",
               jobs[run.job].status # "none",
               jobs' = SetStatus(jobs, run.job, st)
        PROVE  RunEnds
    BY <1>2, <1>10, <2>2 DEF Caught, SetStatus, RunEnds, IInv, TypeOK, Row
  <2>3. QED
    BY <1>10, <2>1, <2>2 DEF Caught, Exists
<1>11. QED
  BY <1>5, <1>7, <1>8, <1>9, <1>10 DEF RunStep, QuietStep

LEMMA RunInv ==
  ASSUME IInv, RunStep
  PROVE  IInv'
<1>1. TypeOK'
  BY RunTypes DEF IInv
<1>2. QED
  BY <1>1, RunStepEffect, GoesOnInv, EndsInv
----------------------------------------------------------------------------
(* User operations, the promise chain, and the process.                     *)

\* Appending a task keeps the tasks that were there.
LEMMA AppendKeeps ==
  ASSUME NEW q \in Seq(JobIds), NEW j \in JobIds
  PROVE  /\ \E i \in 1..Len(Append(q, j)) : Append(q, j)[i] = j
         /\ \A k : (\E i \in 1..Len(q) : q[i] = k)
                  => \E i \in 1..Len(Append(q, j)) : Append(q, j)[i] = k
<1>1. Len(Append(q, j)) = Len(q) + 1 /\ Len(q) \in Nat
  OBVIOUS
<1>2. Append(q, j)[Len(q) + 1] = j
  OBVIOUS
<1>3. \A i \in 1..Len(q) : Append(q, j)[i] = q[i]
  OBVIOUS
<1>4. QED
  BY <1>1, <1>2, <1>3

\* Taking the head task away keeps the others.
LEMMA TailKeeps ==
  ASSUME NEW q \in Seq(JobIds), q # <<>>, NEW k, k # Head(q),
         \E i \in 1..Len(q) : q[i] = k
  PROVE  \E i \in 1..Len(Tail(q)) : Tail(q)[i] = k
<1>1. PICK i \in 1..Len(q) : q[i] = k
  OBVIOUS
<1>2. i # 1
  BY <1>1
<1>3. i - 1 \in 1..Len(Tail(q)) /\ Tail(q)[i - 1] = k
  BY <1>1, <1>2
<1>4. QED
  BY <1>3

\* A new row is queued and scheduled, and no other row changes.
LEMMA InsertInv ==
  ASSUME IInv, TypeOK', NEW s \in Sessions, NEW p, NEW stage,
         Insert(s, p, stage), UNCHANGED <<app, run>>, app = "up"
  PROVE  IInv'
<1> DEFINE j == created + 1
<1>1. j \in JobIds /\ created' = j
  BY ConstantsAssumption DEF Insert, IInv, TypeOK, JobIds
<1>2. /\ jobs'[j].status = "queued" /\ jobs'[j].session = s
      /\ \A k \in JobIds : k # j => jobs'[k] = jobs[k]
  BY <1>1 DEF Insert, IInv, TypeOK
<1>3. queue' = Append(queue, j)
  BY DEF Insert
<1>4. run # NoRun => run.job \in JobIds /\ run.job <= created /\ run.job # j
  BY RunningJob DEF IInv, TypeOK
<1> HIDE DEF j
<1>5. RowsAreInserted'
  <2>1. created \in Nat /\ created <= created'
    BY <1>1 DEF IInv, TypeOK, j
  <2>2. QED
    BY <1>1, <1>2, <2>1 DEF IInv, RowsAreInserted, JobIds
<1>6. RunIsOfAJob'
  BY <1>1 DEF IInv, RunIsOfAJob, TypeOK, j
<1>7. RunKeepsItsRow'
  BY <1>2, <1>4 DEF IInv, RunKeepsItsRow
<1>8. DownIsEmpty'
  BY DEF DownIsEmpty
<1>9. RunningIsOwned'
  BY <1>2 DEF IInv, RunningIsOwned
<1>10. QueuedIsScheduled'
  <2> SUFFICES ASSUME NEW k \in JobIds, jobs'[k].status = "queued"
               PROVE  \E i \in 1..Len(queue') : queue'[i] = k
    BY DEF QueuedIsScheduled
  <2>1. queue \in Seq(JobIds)
    BY DEF IInv, TypeOK
  <2>2. CASE k = j
    BY <1>1, <1>3, <2>1, <2>2, AppendKeeps
  <2>3. CASE k # j
    <3>1. \E i \in 1..Len(queue) : queue[i] = k
      BY <1>2, <2>3 DEF IInv, QueuedIsScheduled
    <3>2. QED
      BY <1>1, <1>3, <2>1, <3>1, AppendKeeps
  <2>4. QED
    BY <2>2, <2>3
<1>11. QED
  BY <1>5, <1>6, <1>7, <1>8, <1>9, <1>10 DEF IInv

\* retry(): the row of a suspended run that is cancelled has an aborted signal.
LEMMA RetryInv ==
  ASSUME IInv, TypeOK', NEW j \in JobIds, Retry(j)
  PROVE  IInv'
<1>1. /\ jobs'[j].status = "queued" /\ jobs'[j].session = jobs[j].session
      /\ \A k \in JobIds : k # j => jobs'[k] = jobs[k]
  BY DEF Retry, IInv, TypeOK, Row
<1>2. UNCHANGED <<app, run, created>> /\ app = "up" /\ queue' = Append(queue, j)
  BY DEF Retry, Serving
<1>3. run # NoRun => run.job \in JobIds
  BY RunningJob DEF IInv
<1>4. RowsAreInserted'
  BY <1>1, <1>2 DEF IInv, RowsAreInserted, Retry
<1>5. RunIsOfAJob'
  BY <1>2 DEF IInv, RunIsOfAJob
<1>6. RunKeepsItsRow'
  BY <1>1, <1>2, <1>3 DEF IInv, RunKeepsItsRow, Retry, Serving, SyncSteps
<1>7. DownIsEmpty'
  BY <1>2 DEF DownIsEmpty
<1>8. RunningIsOwned'
  BY <1>1, <1>2 DEF IInv, RunningIsOwned
<1>9. QueuedIsScheduled'
  BY <1>1, <1>2, AppendKeeps DEF IInv, TypeOK, QueuedIsScheduled
<1>10. QED
  BY <1>4, <1>5, <1>6, <1>7, <1>8, <1>9 DEF IInv

\* Some queued or running rows are cancelled, and the run of one of them is
\* aborted.
Cancels(S) ==
  /\ UNCHANGED <<app, created, queue>>
  /\ run' = IF run.job \in S THEN [run EXCEPT !.aborted = TRUE] ELSE run
  /\ \A k \in JobIds :
       /\ jobs'[k].session = jobs[k].session
       /\ jobs'[k].status = IF k \in S THEN "cancelled" ELSE jobs[k].status

LEMMA CancelsInv ==
  ASSUME IInv, TypeOK', NEW S \in SUBSET JobIds, Cancels(S), Serving,
         \A k \in S : jobs[k].status \in {"queued", "running"}
  PROVE  IInv'
<1>1. app = "up" /\ run.pc # "session-ready"
  BY DEF Serving, SyncSteps
<1>2. run = NoRun => run' = NoRun
  BY ConstantsAssumption DEF Cancels, NoRun, JobIds
<1>3. run # NoRun => /\ run.job \in JobIds
                     /\ run'.job = run.job /\ run'.session = run.session
                     /\ run'.pc = run.pc
                     /\ run'.aborted = (run.aborted \/ run.job \in S)
  BY RunningJob DEF Cancels, IInv, TypeOK, Run
<1>4. RowsAreInserted'
  BY DEF IInv, RowsAreInserted, Cancels
<1>5. RunIsOfAJob'
  BY <1>2, <1>3 DEF IInv, RunIsOfAJob, Cancels
<1>6. RunKeepsItsRow'
  BY <1>1, <1>2, <1>3 DEF IInv, RunKeepsItsRow, Cancels
<1>7. DownIsEmpty'
  BY <1>1 DEF Cancels, DownIsEmpty
<1>8. RunningIsOwned'
  BY <1>1, <1>3 DEF Cancels, IInv, RunningIsOwned, JobIds, NoRun
<1>9. QueuedIsScheduled'
  BY <1>1 DEF Cancels, IInv, QueuedIsScheduled
<1>10. QED
  BY <1>4, <1>5, <1>6, <1>7, <1>8, <1>9 DEF IInv
\* deleteSession() takes the rows of one session away.
LEMMA DeleteEndInv ==
  ASSUME IInv, TypeOK', NEW s \in Sessions, DeleteEnd(s)
  PROVE  IInv'
<1>1. /\ UNCHANGED <<app, created, queue, run>> /\ app = "up"
      /\ run.pc # "session-ready"
  BY DEF DeleteEnd, Serving, SyncSteps
<1>2. \A k \in JobIds : jobs'[k].status = "none" \/ jobs'[k] = jobs[k]
  BY DEF DeleteEnd, NoRow
<1>3. run # NoRun => run.job \in JobIds
  BY RunningJob DEF IInv
<1>4. RowsAreInserted'
  BY <1>1, <1>2 DEF IInv, RowsAreInserted
<1>5. RunIsOfAJob'
  BY <1>1 DEF IInv, RunIsOfAJob
<1>6. RunKeepsItsRow'
  BY <1>1, <1>2, <1>3 DEF IInv, RunKeepsItsRow
<1>7. DownIsEmpty'
  BY <1>1 DEF DownIsEmpty
<1>8. RunningIsOwned'
  BY <1>1, <1>2 DEF IInv, RunningIsOwned
<1>9. QueuedIsScheduled'
  BY <1>1, <1>2 DEF IInv, QueuedIsScheduled
<1>10. QED
  BY <1>4, <1>5, <1>6, <1>7, <1>8, <1>9 DEF IInv

LEMMA UserInv ==
  ASSUME IInv, UserStep
  PROVE  IInv'
<1>1. TypeOK'
  BY UserTypes DEF IInv
<1>2. ASSUME NEW s \in Sessions, NEW p \in Payloads,
             Enqueue(s, p) \/ GenerateSummary(s, p)
      PROVE  IInv'
  BY <1>1, <1>2, InsertInv DEF Enqueue, GenerateSummary, Serving
<1>3. ASSUME NEW s \in Sessions,
             EnqueueRejected(s) \/ EditTranscript(s) \/ EditSummary(s)
      PROVE  IInv'
  BY <1>1, <1>3
  DEF EnqueueRejected, EditTranscript, EditSummary, IInv, RowsAreInserted,
      RunIsOfAJob, RunKeepsItsRow, DownIsEmpty, RunningIsOwned, QueuedIsScheduled
<1>4. ASSUME NEW s \in Sessions, DeleteBegin(s)
      PROVE  IInv'
  <2> DEFINE mine == Active(jobs, s)
  <2>1. mine \in SUBSET JobIds /\ \A k \in mine : jobs[k].status \in {"queued", "running"}
    BY DEF Active
  <2>2. jobs' = [k \in JobIds |->
          IF k \in mine THEN [jobs[k] EXCEPT !.status = "cancelled"] ELSE jobs[k]]
    BY <1>4 DEF DeleteBegin
  <2>3. run' = IF run.job \in mine THEN [run EXCEPT !.aborted = TRUE] ELSE run
    BY <1>4 DEF DeleteBegin
  <2>4. UNCHANGED <<app, created, queue>> /\ Serving
    BY <1>4 DEF DeleteBegin
  <2> HIDE DEF mine
  <2>5. Cancels(mine)
    BY <2>2, <2>3, <2>4 DEF Cancels, IInv, TypeOK, Row
  <2>6. QED
    BY <1>1, <2>1, <2>4, <2>5, CancelsInv
<1>5. ASSUME NEW s \in Sessions, DeleteEnd(s)
      PROVE  IInv'
  BY <1>1, <1>5, DeleteEndInv
<1>6. ASSUME NEW j \in JobIds, Retry(j)
      PROVE  IInv'
  BY <1>1, <1>6, RetryInv
<1>7. ASSUME NEW j \in JobIds, Cancel(j)
      PROVE  IInv'
  <2>1. Cancels({j})
    BY <1>7 DEF Cancel, Cancels, SetStatus, IInv, TypeOK, Row
  <2>2. Serving /\ jobs[j].status \in {"queued", "running"}
    BY <1>7 DEF Cancel
  <2>3. QED
    BY <1>1, <2>1, <2>2, CancelsInv
<1>8. QED
  BY <1>2, <1>3, <1>4, <1>5, <1>6, <1>7 DEF UserStep

LEMMA SkipInv ==
  ASSUME IInv, SkipTask
  PROVE  IInv'
<1>1. TypeOK'
  BY StartTypes DEF IInv
<1>2. UNCHANGED <<app, created, jobs, run>> /\ queue # <<>> /\ queue' = Tail(queue)
  BY DEF SkipTask
<1>3. RowsAreInserted' /\ RunIsOfAJob' /\ RunKeepsItsRow' /\ RunningIsOwned'
  BY <1>2 DEF IInv, RowsAreInserted, RunIsOfAJob, RunKeepsItsRow, RunningIsOwned
<1>4. DownIsEmpty'
  BY <1>2 DEF IInv, DownIsEmpty
<1>5. QueuedIsScheduled'
  <2> SUFFICES ASSUME app = "up", NEW k \in JobIds, jobs[k].status = "queued"
               PROVE  \E i \in 1..Len(queue') : queue'[i] = k
    BY <1>2 DEF QueuedIsScheduled
  <2>1. k # Head(queue)
    BY DEF SkipTask
  <2>2. queue \in Seq(JobIds) /\ \E i \in 1..Len(queue) : queue[i] = k
    BY DEF IInv, TypeOK, QueuedIsScheduled
  <2>3. QED
    BY <1>2, <2>1, <2>2, TailKeeps
<1>6. QED
  BY <1>1, <1>3, <1>4, <1>5 DEF IInv
\* The queued job at the head starts: no row was running, and the tasks of the
\* other queued rows are behind it.
LEMMA StartInv ==
  ASSUME IInv, StartTask
  PROVE  IInv'
<1> DEFINE j == Head(queue)
<1>1. TypeOK'
  BY StartTypes DEF IInv
<1>2. /\ j \in JobIds /\ queue \in Seq(JobIds) /\ queue # <<>>
      /\ jobs[j].status = "queued" /\ queue' = Tail(queue)
      /\ app = "up" /\ run = NoRun /\ UNCHANGED <<app, created>>
  BY DEF StartTask, IInv, TypeOK
<1>3. /\ jobs'[j].status = "running" /\ jobs'[j].session = jobs[j].session
      /\ \A k \in JobIds : k # j => jobs'[k] = jobs[k]
  BY <1>2 DEF StartTask, IInv, TypeOK, Row
<1>4. /\ run'.job = j /\ run'.session = jobs[j].session /\ ~run'.aborted
      /\ run'.pc \in {"probe", "returned", "summarize", "caught"}
  BY DEF StartTask
<1>5. \A k \in JobIds : jobs[k].status # "running"
  BY <1>2 DEF IInv, RunningIsOwned, NoRun, JobIds
<1> HIDE DEF j
<1>6. RowsAreInserted'
  BY <1>2, <1>3 DEF IInv, RowsAreInserted
<1>7. RunIsOfAJob'
  BY <1>2, <1>4 DEF IInv, RunIsOfAJob, RowsAreInserted, TypeOK, JobIds
<1>8. RunKeepsItsRow'
  BY <1>3, <1>4 DEF RunKeepsItsRow
<1>9. DownIsEmpty'
  BY <1>2 DEF DownIsEmpty
<1>10. RunningIsOwned'
  BY <1>3, <1>4, <1>5 DEF RunningIsOwned
<1>11. QueuedIsScheduled'
  <2> SUFFICES ASSUME NEW k \in JobIds, jobs'[k].status = "queued"
               PROVE  \E i \in 1..Len(queue') : queue'[i] = k
    BY DEF QueuedIsScheduled
  <2>1. k # Head(queue) /\ jobs[k].status = "queued"
    BY <1>3 DEF j
  <2>2. \E i \in 1..Len(queue) : queue[i] = k
    BY <1>2, <2>1 DEF IInv, QueuedIsScheduled
  <2>3. QED
    BY <1>2, <2>1, <2>2, TailKeeps
<1>12. QED
  BY <1>1, <1>6, <1>7, <1>8, <1>9, <1>10, <1>11 DEF IInv

\* shutdown() aborts the run and starts nothing more.
LEMMA ShutdownInv ==
  ASSUME IInv, Shutdown
  PROVE  IInv'
<1>1. TypeOK'
  BY ProcessTypes DEF IInv
<1>2. /\ UNCHANGED <<created, jobs, queue>> /\ app = "up" /\ app' = "quitting"
      /\ run.pc # "session-ready"
  BY DEF Shutdown, Serving, SyncSteps
<1>3. run = NoRun => run' = NoRun
  BY DEF Shutdown
<1>4. run # NoRun => /\ run'.job = run.job /\ run'.session = run.session
                     /\ run'.pc = run.pc /\ run'.aborted
  BY DEF Shutdown, IInv, TypeOK, Run
<1>5. RowsAreInserted'
  BY <1>2 DEF IInv, RowsAreInserted
<1>6. RunIsOfAJob'
  BY <1>2, <1>3, <1>4 DEF IInv, RunIsOfAJob
<1>7. RunKeepsItsRow'
  BY <1>2, <1>3, <1>4 DEF IInv, RunKeepsItsRow
<1>8. DownIsEmpty' /\ QueuedIsScheduled'
  BY <1>2 DEF DownIsEmpty, QueuedIsScheduled
<1>9. RunningIsOwned'
  BY <1>2, <1>3, <1>4 DEF IInv, RunningIsOwned
<1>10. QED
  BY <1>1, <1>5, <1>6, <1>7, <1>8, <1>9 DEF IInv

LEMMA StoppedInv ==
  ASSUME IInv, Exit \/ Crash \/ CrashMidway
  PROVE  IInv'
<1>1. TypeOK'
  BY ProcessTypes DEF IInv
<1>2. Stopped
  BY DEF Exit, Crash, CrashMidway
<1>3. QED
  BY <1>1, <1>2
  DEF Stopped, IInv, RowsAreInserted, RunIsOfAJob, RunKeepsItsRow, DownIsEmpty,
      RunningIsOwned, QueuedIsScheduled

\* A restart leaves no row running and schedules every queued one.
LEMMA RestartInv ==
  ASSUME IInv, Restart
  PROVE  IInv'
<1> DEFINE recovered == [j \in JobIds |->
             IF jobs[j].status = "running"
             THEN [jobs[j] EXCEPT !.status = "queued"] ELSE jobs[j]]
           pending == {j \in JobIds : recovered[j].status = "queued"}
<1>1. TypeOK'
  BY ProcessTypes DEF IInv
<1>2. /\ jobs' = recovered /\ queue' \in InOrder(pending)
      /\ app = "down" /\ app' = "up" /\ UNCHANGED <<created, run>>
  BY DEF Restart
<1>3. run = NoRun /\ run' = NoRun
  BY <1>2 DEF IInv, DownIsEmpty
<1>4. \A j \in JobIds :
        /\ recovered[j].session = jobs[j].session
        /\ recovered[j].status # "running"
        /\ jobs[j].status = "none" => recovered[j].status = "none"
  BY DEF IInv, TypeOK, Row
<1>5. \A j \in JobIds : recovered[j].status = "queued" =>
        \E i \in 1..Len(queue') : queue'[i] = j
  <2>1. pending \in SUBSET JobIds
    OBVIOUS
  <2>2. \A j \in JobIds : recovered[j].status = "queued" => j \in pending
    OBVIOUS
  <2> HIDE DEF pending, recovered
  <2>3. \A j \in pending : \E i \in 1..Len(queue') : queue'[i] = j
    BY <1>2, <2>1, PendingIsFinite, InOrderIsComplete
  <2>4. QED
    BY <2>2, <2>3
<1> HIDE DEF pending, recovered
<1>6. RowsAreInserted'
  BY <1>2, <1>4 DEF IInv, RowsAreInserted
<1>7. RunIsOfAJob' /\ RunKeepsItsRow' /\ DownIsEmpty'
  BY <1>2, <1>3 DEF RunIsOfAJob, RunKeepsItsRow, DownIsEmpty
<1>8. RunningIsOwned'
  BY <1>2, <1>4 DEF RunningIsOwned
<1>9. QueuedIsScheduled'
  BY <1>2, <1>5 DEF QueuedIsScheduled
<1>10. QED
  BY <1>1, <1>6, <1>7, <1>8, <1>9 DEF IInv

----------------------------------------------------------------------------
(* The invariant holds of every behaviour.                                  *)

LEMMA InitInv == Init => IInv
<1> SUFFICES ASSUME Init
             PROVE  IInv
  OBVIOUS
<1>1. TypeOK
  BY NullTypes, ConstantsAssumption DEF Init, TypeOK, SessionStatuses
<1>2. QED
  BY <1>1
  DEF Init, IInv, RowsAreInserted, RunIsOfAJob, RunKeepsItsRow, DownIsEmpty,
      RunningIsOwned, QueuedIsScheduled, NoRow

LEMMA NextInv == IInv /\ [Next]_vars => IInv'
<1> SUFFICES ASSUME IInv, [Next]_vars
             PROVE  IInv'
  OBVIOUS
<1>1. CASE UNCHANGED vars
  <2>1. TypeOK'
    BY <1>1 DEF vars, IInv, TypeOK
  <2>2. RowsAreInserted' /\ RunIsOfAJob' /\ RunKeepsItsRow'
    BY <1>1 DEF vars, IInv, RowsAreInserted, RunIsOfAJob, RunKeepsItsRow
  <2>3. DownIsEmpty' /\ RunningIsOwned' /\ QueuedIsScheduled'
    BY <1>1 DEF vars, IInv, DownIsEmpty, RunningIsOwned, QueuedIsScheduled
  <2>4. QED
    BY <2>1, <2>2, <2>3 DEF IInv
<1>2. CASE Next
  BY <1>2, UserInv, SkipInv, StartInv, RunInv, ShutdownInv, StoppedInv, RestartInv
  DEF Next
<1>3. QED
  BY <1>1, <1>2

LEMMA Invariance == Spec => []IInv
BY InitInv, NextInv, PTL DEF Spec

\* Every variable keeps its type, whatever the sessions, payloads and bounds.
THEOREM TypeCorrect == Spec => []TypeOK
<1>1. IInv => TypeOK
  BY DEF IInv
<1>2. QED
  BY <1>1, Invariance, PTL

\* No row is ever left running without a run that works on it.
THEOREM RunningRowsAreOwned == Spec => []RunningIsOwned
<1>1. IInv => RunningIsOwned
  BY DEF IInv
<1>2. QED
  BY <1>1, Invariance, PTL

\* No queued row is ever without a task.
THEOREM QueuedRowsAreScheduled == Spec => []QueuedIsScheduled
<1>1. IInv => QueuedIsScheduled
  BY DEF IInv
<1>2. QED
  BY <1>1, Invariance, PTL
----------------------------------------------------------------------------
(* A success is final.                                                      *)

Final ==
  \A j \in JobIds : jobs[j].status = "succeeded" =>
    jobs'[j].status \in {"succeeded", "none"}

LEMMA UserStepsKeepSuccess ==
  ASSUME IInv, UserStep
  PROVE  Final
<1>1. ASSUME NEW s \in Sessions, NEW p, NEW stage, Insert(s, p, stage)
      PROVE  Final
  <2>1. jobs[created + 1].status = "none" /\ created + 1 \in JobIds
    BY <1>1, ConstantsAssumption DEF Insert, IInv, TypeOK, RowsAreInserted, JobIds, Row
  <2>2. QED
    BY <1>1, <2>1 DEF Insert, Final, IInv, TypeOK
<1>2. ASSUME NEW j \in JobIds, Retry(j) \/ Cancel(j)
      PROVE  Final
  BY <1>2 DEF Retry, Cancel, SetStatus, Final, IInv, TypeOK
<1>3. ASSUME NEW s \in Sessions, DeleteBegin(s)
      PROVE  Final
  BY <1>3 DEF DeleteBegin, Active, Final
<1>4. ASSUME NEW s \in Sessions, DeleteEnd(s)
      PROVE  Final
  BY <1>4 DEF DeleteEnd, NoRow, Final
<1>5. UNCHANGED jobs => Final
  BY DEF Final
<1>6. QED
  BY <1>1, <1>2, <1>3, <1>4, <1>5
  DEF UserStep, Enqueue, GenerateSummary, EnqueueRejected, EditTranscript, EditSummary

\* The row of a run that is on the stack has not succeeded.
LEMMA RunStepsKeepSuccess ==
  ASSUME IInv, RunStep
  PROVE  Final
<1>1. CASE RowsKeep /\ RunGoesOn
  BY <1>1 DEF RowsKeep, Final
<1>2. CASE RunEnds
  <2>1. run # NoRun
    BY DEF RunStep, QuietStep, Reject, Probed, Proxied, Extracted, Transcribed,
           DiarizationChecked, Diarized, PcmRemoved, Continue, Summarized, Returned,
           WorkRemoved, Succeed, Caught, At, NoRun
  <2>2. jobs[run.job].status # "succeeded"
    BY <2>1 DEF IInv, RunKeepsItsRow
  <2>3. QED
    BY <1>2, <2>2 DEF RunEnds, Final
<1>3. QED
  BY <1>1, <1>2, RunStepEffect

LEMMA StepsKeepSuccess ==
  ASSUME IInv, [Next]_vars
  PROVE  Final
<1>1. CASE SkipTask \/ Shutdown \/ Exit \/ Crash \/ CrashMidway \/ UNCHANGED vars
  BY <1>1 DEF SkipTask, Shutdown, Exit, Crash, CrashMidway, Stopped, vars, Final
<1>2. CASE StartTask
  <2>1. Head(queue) \in JobIds /\ jobs[Head(queue)].status = "queued"
    BY <1>2 DEF StartTask, IInv, TypeOK
  <2>2. \A k \in JobIds : k # Head(queue) => jobs'[k] = jobs[k]
    BY <1>2, <2>1 DEF StartTask, IInv, TypeOK
  <2>3. QED
    BY <2>1, <2>2 DEF Final
<1>3. CASE Restart
  BY <1>3 DEF Restart, Final
<1>4. QED
  BY <1>1, <1>2, <1>3, UserStepsKeepSuccess, RunStepsKeepSuccess DEF Next

\* Late cancellations, shutdowns and restarts never take a success back.
THEOREM SuccessIsFinal == Spec => SucceededIsFinal
<1>1. IInv /\ [Next]_vars => [Final]_vars
  BY StepsKeepSuccess
<1>2. QED
  BY <1>1, Invariance, PTL DEF Spec, SucceededIsFinal, Final

----------------------------------------------------------------------------
(* The refinement of JobLifecycle, a lemma per action of the abstract       *)
(* specification that a step may map to.                                    *)

Simulated == [Lifecycle!LifecycleNext]_Phase

\* The step of one job from one phase to another.
LEMMA OneJobMoves ==
  ASSUME NEW j \in JobIds, NEW from, NEW to,
         Phase[j] \in from, Phase'[j] = to,
         \A k \in JobIds : k # j => Phase'[k] = Phase[k]
  PROVE  Lifecycle!Become(j, from, to)
<1>1. Phase' = [Phase EXCEPT ![j] = to]
  <2>1. Phase' = [k \in JobIds |-> Phase'[k]] /\ Phase = [k \in JobIds |-> Phase[k]]
    BY DEF Phase
  <2>2. QED
    BY <2>1
<1>2. QED
  BY <1>1 DEF Lifecycle!Become

\* A step that changes no phase.
LEMMA NoJobMoves ==
  ASSUME \A k \in JobIds : Phase'[k] = Phase[k]
  PROVE  Simulated
<1>1. Phase' = [k \in JobIds |-> Phase'[k]] /\ Phase = [k \in JobIds |-> Phase[k]]
  BY DEF Phase
<1>2. QED
  BY <1>1 DEF Simulated

\* Rows, the process's life and the count of rows determine the phases.
LEMMA SamePhases ==
  ASSUME UNCHANGED created, app = "down" <=> app' = "down", NEW k \in JobIds,
         jobs'[k].status = jobs[k].status
  PROVE  Phase'[k] = Phase[k]
BY DEF Phase

LEMMA PhaseOfRow ==
  ASSUME IInv, NEW j \in JobIds, app # "down", jobs[j].status # "none"
  PROVE  Phase[j] = jobs[j].status
BY ConstantsAssumption DEF Phase, IInv, RowsAreInserted, TypeOK, JobIds

LEMMA PhaseOfRowNext ==
  ASSUME IInv', NEW j \in JobIds, app' # "down", jobs'[j].status # "none"
  PROVE  Phase'[j] = jobs'[j].status
BY ConstantsAssumption DEF Phase, IInv, RowsAreInserted, TypeOK, JobIds

\* One row changes its status, while the process lives.
LEMMA OneRowMoves ==
  ASSUME IInv, IInv', UNCHANGED created, app # "down", app' # "down",
         NEW j \in JobIds, jobs[j].status # "none", jobs'[j].status # "none",
         \A k \in JobIds : k # j => jobs'[k].status = jobs[k].status
  PROVE  \A from : jobs[j].status \in from =>
           Lifecycle!Become(j, from, jobs'[j].status)
<1>1. \A k \in JobIds : k # j => Phase'[k] = Phase[k]
  BY SamePhases
<1>2. Phase[j] = jobs[j].status /\ Phase'[j] = jobs'[j].status
  BY PhaseOfRow, PhaseOfRowNext
<1>3. QED
  BY <1>1, <1>2, OneJobMoves

\* Some unfinished rows are cancelled.
LEMMA RowsCancelled ==
  ASSUME IInv, IInv', UNCHANGED created, app # "down", app' # "down",
         NEW S \in SUBSET JobIds,
         \A k \in S : jobs[k].status \in {"queued", "running"},
         \A k \in JobIds :
           jobs'[k].status = IF k \in S THEN "cancelled" ELSE jobs[k].status
  PROVE  Lifecycle!CancelAll(S)
<1>1. S \subseteq Lifecycle!Unfinished
  BY PhaseOfRow DEF Lifecycle!Unfinished
<1>2. \A k \in JobIds : Phase'[k] = IF k \in S THEN "cancelled" ELSE Phase[k]
  BY SamePhases, PhaseOfRowNext
<1>3. Phase' = [k \in JobIds |-> IF k \in S THEN "cancelled" ELSE Phase[k]]
  <2>1. Phase' = [k \in JobIds |-> Phase'[k]]
    BY DEF Phase
  <2>2. QED
    BY <1>2, <2>1
<1>4. QED
  BY <1>1, <1>3 DEF Lifecycle!CancelAll

LEMMA InsertIsSubmit ==
  ASSUME IInv, NEW s, NEW p, NEW stage, Insert(s, p, stage), UNCHANGED app,
         app = "up"
  PROVE  Simulated
<1> DEFINE j == created + 1
<1>1. j \in JobIds /\ created \in Nat /\ created' = j
  BY ConstantsAssumption DEF Insert, IInv, TypeOK, JobIds
<1>2. jobs'[j].status = "queued" /\ \A k \in JobIds : k # j => jobs'[k] = jobs[k]
  BY <1>1 DEF Insert, IInv, TypeOK
<1>3. Phase[j] = "new" /\ Phase'[j] = "queued"
  BY <1>1, <1>2 DEF Phase
<1>4. \A k \in JobIds : k # j => Phase'[k] = Phase[k]
  BY <1>1, <1>2 DEF Phase, JobIds
<1>5. Lifecycle!Submit(j)
  BY <1>1, <1>3, <1>4, OneJobMoves DEF Lifecycle!Submit
<1>6. QED
  BY <1>1, <1>5 DEF Simulated, Lifecycle!LifecycleNext

LEMMA DeleteIsDiscard ==
  ASSUME IInv, NEW s \in Sessions, DeleteEnd(s)
  PROVE  Simulated
<1> DEFINE S == {k \in JobIds : k <= created /\ jobs[k].session = s}
<1>1. UNCHANGED <<app, created>> /\ app = "up" /\ created \in Nat
  BY DEF DeleteEnd, Serving, IInv, TypeOK
<1>2. \A k \in JobIds : jobs'[k] = IF jobs[k].session = s THEN NoRow ELSE jobs[k]
  BY DEF DeleteEnd
<1>3. \A k \in S : Phase[k] # "new"
  <2> SUFFICES ASSUME NEW k \in S
               PROVE  Phase[k] # "new"
    OBVIOUS
  <2>1. k \in JobIds /\ ~(k > created)
    BY <1>1 DEF JobIds
  <2>2. jobs[k].status # "new"
    BY <2>1 DEF IInv, TypeOK, Row, JobStatuses
  <2>3. QED
    BY <2>1, <2>2 DEF Phase
<1>4. \A k \in JobIds : Phase'[k] = IF k \in S THEN "gone" ELSE Phase[k]
  BY <1>1, <1>2 DEF Phase, NoRow, JobIds
<1>5. Phase' = [k \in JobIds |-> IF k \in S THEN "gone" ELSE Phase[k]]
  <2>1. Phase' = [k \in JobIds |-> Phase'[k]]
    BY DEF Phase
  <2> HIDE DEF S
  <2>2. QED
    BY <1>4, <2>1
<1>6. Lifecycle!Discard(S)
  BY <1>3, <1>5 DEF Lifecycle!Discard
<1>7. S \in SUBSET JobIds
  OBVIOUS
<1> HIDE DEF S
<1>8. QED
  BY <1>6, <1>7 DEF Simulated, Lifecycle!LifecycleNext

LEMMA UserSimulated ==
  ASSUME IInv, IInv', UserStep
  PROVE  Simulated
<1>1. ASSUME NEW s \in Sessions, NEW p \in Payloads,
             Enqueue(s, p) \/ GenerateSummary(s, p)
      PROVE  Simulated
  BY <1>1, InsertIsSubmit DEF Enqueue, GenerateSummary, Serving
<1>2. ASSUME NEW s \in Sessions,
             EnqueueRejected(s) \/ EditTranscript(s) \/ EditSummary(s)
      PROVE  Simulated
  <2>1. UNCHANGED <<app, created, jobs>>
    BY <1>2 DEF EnqueueRejected, EditTranscript, EditSummary
  <2>2. QED
    BY <2>1, SamePhases, NoJobMoves
<1>3. ASSUME NEW s \in Sessions, DeleteBegin(s)
      PROVE  Simulated
  <2> DEFINE mine == Active(jobs, s)
  <2>1. mine \in SUBSET JobIds /\ \A k \in mine : jobs[k].status \in {"queued", "running"}
    BY DEF Active
  <2>2. UNCHANGED <<app, created>> /\ app # "down"
    BY <1>3 DEF DeleteBegin, Serving
  <2>3. \A k \in JobIds :
          jobs'[k].status = IF k \in mine THEN "cancelled" ELSE jobs[k].status
    BY <1>3 DEF DeleteBegin, IInv, TypeOK, Row
  <2> HIDE DEF mine
  <2>4. Lifecycle!CancelAll(mine)
    BY <2>1, <2>2, <2>3, RowsCancelled
  <2>5. QED
    BY <2>1, <2>4 DEF Simulated, Lifecycle!LifecycleNext
<1>4. ASSUME NEW s \in Sessions, DeleteEnd(s)
      PROVE  Simulated
  BY <1>4, DeleteIsDiscard
<1>5. ASSUME NEW j \in JobIds, Retry(j)
      PROVE  Simulated
  <2>1. /\ UNCHANGED <<app, created>> /\ app # "down"
        /\ jobs[j].status \in {"failed", "cancelled"} /\ jobs'[j].status = "queued"
        /\ \A k \in JobIds : k # j => jobs'[k].status = jobs[k].status
    BY <1>5 DEF Retry, Serving, IInv, TypeOK, Row
  <2>2. Lifecycle!AskAgain(j)
    BY <2>1, OneRowMoves DEF Lifecycle!AskAgain
  <2>3. QED
    BY <2>2 DEF Simulated, Lifecycle!LifecycleNext
<1>6. ASSUME NEW j \in JobIds, Cancel(j)
      PROVE  Simulated
  <2>1. /\ UNCHANGED <<app, created>> /\ app # "down"
        /\ jobs[j].status \in {"queued", "running"}
        /\ \A k \in JobIds :
             jobs'[k].status = IF k \in {j} THEN "cancelled" ELSE jobs[k].status
    BY <1>6 DEF Cancel, SetStatus, Serving, IInv, TypeOK, Row
  <2>2. Lifecycle!CancelAll({j})
    BY <2>1, RowsCancelled
  <2>3. QED
    BY <2>2 DEF Simulated, Lifecycle!LifecycleNext
<1>7. QED
  BY <1>1, <1>2, <1>3, <1>4, <1>5, <1>6 DEF UserStep
LEMMA StartSimulated ==
  ASSUME IInv, IInv', StartTask
  PROVE  Simulated
<1> DEFINE j == Head(queue)
<1>1. /\ j \in JobIds /\ jobs[j].status = "queued" /\ run = NoRun
      /\ UNCHANGED <<app, created>> /\ app # "down"
  BY DEF StartTask, IInv, TypeOK
<1>2. /\ jobs'[j].status = "running"
      /\ \A k \in JobIds : k # j => jobs'[k] = jobs[k]
  BY <1>1 DEF StartTask, IInv, TypeOK, Row
<1>3. \A k \in JobIds : Phase[k] # "running"
  BY <1>1 DEF Phase, IInv, RunningIsOwned, NoRun, JobIds
<1> HIDE DEF j
<1>4. Lifecycle!Become(j, {"queued"}, "running")
  BY <1>1, <1>2, OneRowMoves
<1>5. QED
  BY <1>1, <1>3, <1>4 DEF Simulated, Lifecycle!LifecycleNext, Lifecycle!Begin

\* What became of the row of a run that ended.
LEMMA RunEndSimulated ==
  ASSUME IInv, IInv', RunStep, RunEnds, app # "down"
  PROVE  Simulated
<1> DEFINE j == run.job
<1>1. run # NoRun
  BY DEF RunStep, QuietStep, Reject, Probed, Proxied, Extracted, Transcribed,
         DiarizationChecked, Diarized, PcmRemoved, Continue, Summarized, Returned,
         WorkRemoved, Succeed, Caught, At, NoRun
<1>2. /\ j \in JobIds
      /\ jobs[j].status \in {"none", "queued", "running", "cancelled"}
      /\ ~run.aborted => jobs[j].status \in {"none", "running"}
  BY <1>1, RunningJob DEF IInv, RunKeepsItsRow
<1>3. /\ UNCHANGED <<app, created>>
      /\ \A k \in JobIds : k # j => jobs'[k].status = jobs[k].status
  BY DEF RunEnds
<1>4. CASE jobs'[j].status = jobs[j].status
  BY <1>2, <1>3, <1>4, SamePhases, NoJobMoves
<1>5. ASSUME NEW st, jobs' = SetStatus(jobs, j, st), st # "none",
             jobs[j].status # "none", st # jobs[j].status
      PROVE  \A from : jobs[j].status \in from => Lifecycle!Become(j, from, st)
  <2>1. jobs'[j].status = st
    BY <1>2, <1>5 DEF SetStatus, IInv, TypeOK, Row
  <2>2. QED
    BY <1>2, <1>3, <1>5, <2>1, OneRowMoves
<1>6. CASE Succeed
  <2>1. jobs[j].status = "running" /\ jobs' = SetStatus(jobs, j, "succeeded")
    BY <1>1, <1>6 DEF Succeed, IInv, RunKeepsItsRow, At
  <2>2. Lifecycle!Complete(j)
    BY <1>5, <2>1 DEF Lifecycle!Complete
  <2>3. QED
    BY <1>2, <2>2 DEF Simulated, Lifecycle!LifecycleNext
<1>7. CASE Caught
  <2>1. CASE jobs' = SetStatus(jobs, j, "failed") /\ Exists(j) /\ ~run.aborted
    <3>1. Lifecycle!GiveUp(j)
      BY <1>2, <1>5, <2>1 DEF Lifecycle!GiveUp, Exists
    <3>2. QED
      BY <1>2, <3>1 DEF Simulated, Lifecycle!LifecycleNext
  <2>2. CASE jobs' = SetStatus(jobs, j, "queued") /\ Exists(j)
             /\ jobs[j].status # "queued"
    <3>1. Lifecycle!PutBack(j) \/ Lifecycle!AskAgain(j)
      BY <1>2, <1>5, <2>2 DEF Lifecycle!PutBack, Lifecycle!AskAgain, Exists
    <3>2. QED
      BY <1>2, <3>1 DEF Simulated, Lifecycle!LifecycleNext
  <2>3. CASE jobs' = SetStatus(jobs, j, "cancelled") /\ Exists(j)
             /\ jobs[j].status # "cancelled"
    <3>1. \A k \in JobIds :
            jobs'[k].status = IF k \in {j} THEN "cancelled" ELSE jobs[k].status
      BY <1>2, <1>3, <2>3 DEF SetStatus, IInv, TypeOK, Row
    <3>2. Lifecycle!CancelAll({j})
      BY <1>2, <1>3, <2>3, <3>1, RowsCancelled DEF Exists
    <3>3. QED
      BY <1>2, <3>2 DEF Simulated, Lifecycle!LifecycleNext
  <2>4. CASE jobs' = SetStatus(jobs, j, "queued") /\ jobs[j].status = "queued"
    <3>1. jobs'[j].status = jobs[j].status
      BY <1>2, <2>4 DEF SetStatus, IInv, TypeOK, Row
    <3>2. QED
      BY <1>4, <3>1
  <2>5. QED
    BY <1>4, <1>7, <2>1, <2>2, <2>3, <2>4 DEF Caught
<1>8. UNCHANGED jobs => jobs'[j].status = jobs[j].status
  OBVIOUS
<1>9. CASE QuietStep
  BY <1>9, QuietSteps DEF IInv, RunGoesOn, RunEnds
<1>10. CASE Returned \/ WorkRemoved
  BY <1>4, <1>8, <1>10 DEF Returned, WorkRemoved
<1>11. QED
  BY <1>6, <1>7, <1>9, <1>10 DEF RunStep, QuietStep

LEMMA RunSimulated ==
  ASSUME IInv, IInv', RunStep
  PROVE  Simulated
<1>1. run # NoRun
  BY DEF RunStep, QuietStep, Reject, Probed, Proxied, Extracted, Transcribed,
         DiarizationChecked, Diarized, PcmRemoved, Continue, Summarized, Returned,
         WorkRemoved, Succeed, Caught, At, NoRun
<1>2. app # "down"
  BY <1>1 DEF IInv, DownIsEmpty
<1>3. CASE RowsKeep
  BY <1>3, SamePhases, NoJobMoves DEF RowsKeep
<1>4. QED
  BY <1>2, <1>3, RunStepEffect, RunEndSimulated

\* The process ends: the one row that may be running will be found queued.
LEMMA StopSimulated ==
  ASSUME IInv, Exit \/ Crash \/ CrashMidway
  PROVE  Simulated
<1> DEFINE j == run.job
<1>1. /\ app # "down" /\ app' = "down" /\ UNCHANGED <<created, jobs>>
  BY DEF Exit, Crash, CrashMidway, Stopped
<1>2. \A k \in JobIds : jobs[k].status = "running" => k = j
  BY <1>1 DEF IInv, RunningIsOwned
<1>3. \A k \in JobIds : jobs[k].status # "running" => Phase'[k] = Phase[k]
  BY <1>1 DEF Phase
<1>4. CASE j \in JobIds /\ jobs[j].status = "running"
  <2>1. Phase[j] = "running"
    BY <1>1, <1>4, PhaseOfRow
  <2>2. Phase'[j] = "queued"
    BY <1>1, <1>4, <2>1 DEF Phase
  <2>3. Lifecycle!PutBack(j)
    BY <1>2, <1>3, <1>4, <2>1, <2>2, OneJobMoves DEF Lifecycle!PutBack
  <2>4. QED
    BY <1>4, <2>3 DEF Simulated, Lifecycle!LifecycleNext
<1>5. CASE ~(j \in JobIds /\ jobs[j].status = "running")
  BY <1>2, <1>3, <1>5, NoJobMoves
<1>6. QED
  BY <1>4, <1>5

LEMMA RestartSimulated ==
  ASSUME IInv, Restart
  PROVE  Simulated
<1>1. app = "down" /\ app' = "up" /\ UNCHANGED created
  BY DEF Restart
<1>2. \A k \in JobIds : jobs'[k].status =
        IF jobs[k].status = "running" THEN "queued" ELSE jobs[k].status
  BY DEF Restart, IInv, TypeOK, Row
<1>3. QED
  BY <1>1, <1>2, NoJobMoves DEF Phase

LEMMA StepSimulated ==
  ASSUME IInv, IInv', [Next]_vars
  PROVE  Simulated
<1>1. CASE SkipTask \/ Shutdown \/ UNCHANGED vars
  <2>1. UNCHANGED <<created, jobs>> /\ (app = "down" <=> app' = "down")
    BY <1>1 DEF SkipTask, Shutdown, Serving, vars
  <2>2. QED
    BY <2>1, SamePhases, NoJobMoves
<1>2. QED
  BY <1>1, UserSimulated, StartSimulated, RunSimulated, StopSimulated,
     RestartSimulated DEF Next

\* Every behaviour of the pipeline is one of the abstract lifecycle.
THEOREM PipelineImplementsLifecycle == Spec => ImplementsLifecycle
<1>1. Init => Lifecycle!LifecycleInit
  BY DEF Init, Lifecycle!LifecycleInit, Phase, JobIds
<1>2. IInv /\ IInv' /\ [Next]_vars => [Lifecycle!LifecycleNext]_Phase
  BY StepSimulated DEF Simulated
<1>3. QED
  BY <1>1, <1>2, Invariance, PTL
  DEF Spec, ImplementsLifecycle, Lifecycle!LifecycleSpec

----------------------------------------------------------------------------
(* A job that succeeded has its results.  The argument follows a result    *)
(* from the await in which it is written to the row that says succeeded:   *)
(* documents only go when their session goes, and then the rows of the     *)
(* session go with them.                                                   *)

\* A summary generated for job j or for one asked for later.
Generated(s, j) == summary[s].rev > 0 /\ generated[s] >= j

\* A summary that says that j jobs existed was generated when they did.
SummariesAreCounted ==
  \A s \in Sessions : summary[s].jobsThen <= generated[s] /\ generated[s] <= created

\* Summary jobs are asked for sessions that have a transcript; successes have it all.
RowHasResults(j) ==
  jobs[j].status # "none" =>
    /\ jobs[j].payload.kind # "full" \/ jobs[j].status = "succeeded" =>
         transcript[jobs[j].session].rev > 0
    /\ jobs[j].status = "succeeded" /\ jobs[j].payload.summarizer # NoModel =>
         Generated(jobs[j].session, j)

\* Where a run has its transcript, and where it has its summary, if it is to have one.
TranscriptSaved ==
  {"transcript-saved", "summarize", "returned", "remove-work", "session-ready"}
SummarySaved == {"returned", "remove-work", "session-ready"}

\* A run whose row was not deleted works for that row, and has what it passed.
RunHasResults ==
  run # NoRun /\ jobs[run.job].status # "none" =>
    /\ jobs[run.job].session = run.session
    /\ jobs[run.job].payload = run.payload
    /\ run.pc \in TranscriptSaved => transcript[run.session].rev > 0
    /\ run.pc \in SummarySaved /\ run.payload.summarizer # NoModel =>
         Generated(run.session, run.job)

Results ==
  /\ SummariesAreCounted
  /\ \A j \in JobIds : RowHasResults(j)
  /\ RunHasResults

----------------------------------------------------------------------------
(* What almost every step does: it keeps rows, documents and the run.      *)

DocsKept(s) ==
  /\ transcript[s].rev > 0 => transcript'[s].rev > 0
  /\ summary[s].rev > 0 => summary'[s].rev > 0
  /\ generated'[s] >= generated[s]

RowKept(j) ==
  jobs'[j].status # "none" =>
    /\ jobs[j].status # "none"
    /\ jobs'[j].session = jobs[j].session
    /\ jobs'[j].payload = jobs[j].payload
    /\ DocsKept(jobs[j].session)

\* The run, if it goes on, is the same one, and gets what the await it comes to demands.
RunKept ==
  run' # NoRun =>
    /\ run # NoRun
    /\ run'.job = run.job /\ run'.session = run.session /\ run'.payload = run.payload
    /\ run'.pc \in TranscriptSaved =>
         run.pc \in TranscriptSaved \/ transcript'[run.session].rev > 0
    /\ run'.pc \in SummarySaved =>
         \/ run.pc \in SummarySaved \/ run.payload.summarizer = NoModel
         \/ summary'[run.session].rev > 0 /\ generated'[run.session] >= run.job

LEMMA SessionOfRow ==
  ASSUME IInv, NEW j \in JobIds, jobs[j].status # "none"
  PROVE  jobs[j].session \in Sessions /\ j <= created
BY DEF IInv, RowsAreInserted

LEMMA CountsAreNumbers ==
  ASSUME TypeOK, NEW s \in Sessions
  PROVE  /\ generated[s] \in Nat /\ created \in Nat
         /\ summary[s].rev \in Nat /\ summary[s].jobsThen \in Nat
         /\ transcript[s].rev \in Nat
BY ConstantsAssumption DEF TypeOK, SummaryRow, TranscriptRow

LEMMA GeneratedStays ==
  ASSUME TypeOK, TypeOK', NEW s \in Sessions, NEW j \in JobIds, DocsKept(s), Generated(s, j)
  PROVE  summary'[s].rev > 0 /\ generated'[s] >= j
<1>1. j \in Nat /\ generated[s] \in Nat /\ generated'[s] \in Nat
  BY ConstantsAssumption DEF TypeOK, JobIds
<1>2. QED
  BY <1>1 DEF DocsKept, Generated

LEMMA RowStays ==
  ASSUME IInv, TypeOK', NEW j \in JobIds, RowHasResults(j), RowKept(j),
         jobs'[j].status = "succeeded" => jobs[j].status = "succeeded"
  PROVE  RowHasResults(j)'
<1>1. CASE jobs'[j].status = "none"
  BY <1>1 DEF RowHasResults
<1>2. CASE jobs'[j].status # "none"
  <2>1. DocsKept(jobs[j].session) /\ jobs[j].session \in Sessions
    BY <1>2, SessionOfRow DEF RowKept
  <2>2. Generated(jobs[j].session, j) =>
          summary'[jobs[j].session].rev > 0 /\ generated'[jobs[j].session] >= j
    BY <2>1, GeneratedStays DEF IInv
  <2>3. QED
    BY <1>2, <2>1, <2>2 DEF RowHasResults, RowKept, DocsKept, Generated
<1>3. QED
  BY <1>1, <1>2

LEMMA RunStays ==
  ASSUME IInv, TypeOK', RunHasResults, RunKept, \A j \in JobIds : RowKept(j)
  PROVE  RunHasResults'
<1>1. CASE run' = NoRun
  BY <1>1 DEF RunHasResults
<1>2. CASE run' # NoRun /\ jobs'[run.job].status = "none"
  BY <1>2 DEF RunHasResults, RunKept
<1>3. CASE run' # NoRun /\ jobs'[run.job].status # "none"
  <2>1. run # NoRun /\ run.job \in JobIds
    BY <1>3, RunningJob DEF RunKept, IInv
  <2>2. /\ jobs[run.job].status # "none"
        /\ jobs'[run.job].session = run.session /\ jobs'[run.job].payload = run.payload
        /\ DocsKept(run.session) /\ run.session \in Sessions
    BY <1>3, <2>1, SessionOfRow DEF RowKept, RunHasResults
  <2>3. Generated(run.session, run.job) =>
          summary'[run.session].rev > 0 /\ generated'[run.session] >= run.job
    BY <2>1, <2>2, GeneratedStays DEF IInv
  <2>4. QED
    BY <1>3, <2>1, <2>2, <2>3 DEF RunHasResults, RunKept, DocsKept, Generated
<1>4. QED
  BY <1>1, <1>2, <1>3

\* A step that keeps everything, whatever it does to the rows besides.
LEMMA KeepsResults ==
  ASSUME IInv, TypeOK', Results, SummariesAreCounted', RunKept,
         \A j \in JobIds :
           RowKept(j) /\ (jobs'[j].status = "succeeded" => jobs[j].status = "succeeded")
  PROVE  Results'
BY RowStays, RunStays DEF Results

\* A step that writes no document keeps the documents.
LEMMA DocsStay ==
  ASSUME IInv, UNCHANGED <<summary, generated, transcript>>, NEW j \in JobIds,
         jobs'[j].status # "none" =>
           /\ jobs[j].status # "none"
           /\ jobs'[j].session = jobs[j].session
           /\ jobs'[j].payload = jobs[j].payload
  PROVE  RowKept(j)
<1>1. ASSUME jobs'[j].status # "none" PROVE DocsKept(jobs[j].session)
  BY <1>1, SessionOfRow, CountsAreNumbers DEF DocsKept, IInv
<1>2. QED
  BY <1>1 DEF RowKept

LEMMA CountsStay ==
  ASSUME SummariesAreCounted, UNCHANGED <<summary, generated, created>>
  PROVE  SummariesAreCounted'
BY DEF SummariesAreCounted

----------------------------------------------------------------------------
(* The user's operations.                                                  *)

\* A new row has no result to show, but a summary job has its transcript.
LEMMA InsertHasResults ==
  ASSUME IInv, TypeOK', Results, NEW s \in Sessions, NEW p \in Payloads, NEW stage,
         Insert(s, p, stage), p.kind = "full" \/ transcript[s].rev > 0,
         UNCHANGED <<docs, run, history>>
  PROVE  Results'
<1> DEFINE new == created + 1
<1>1. /\ jobs' = [jobs EXCEPT ![new] = [status |-> "queued", stage |-> stage,
                    attempt |-> 0, session |-> s, payload |-> p]]
      /\ new \in JobIds
  BY ConstantsAssumption DEF Insert, IInv, TypeOK, JobIds
<1>2. UNCHANGED <<summary, generated, transcript, run>>
  BY DEF docs, history
<1>3. jobs[new].status = "none"
  BY <1>1, SessionOfRow, ConstantsAssumption DEF IInv, TypeOK, Row
<1>4. \A j \in JobIds : j # new => jobs'[j] = jobs[j]
  BY <1>1 DEF IInv, TypeOK
<1>5. jobs'[new] = [status |-> "queued", stage |-> stage, attempt |-> 0,
                    session |-> s, payload |-> p]
  BY <1>1 DEF IInv, TypeOK
<1> HIDE DEF new
<1>6. ASSUME NEW j \in JobIds PROVE RowHasResults(j)'
  <2>1. CASE j = new
    BY <1>2, <1>5, <2>1 DEF RowHasResults
  <2>2. CASE j # new
    BY <1>2, <1>4, <2>2 DEF RowHasResults, Results, Generated
  <2>3. QED
    BY <2>1, <2>2
<1>7. RunHasResults'
  <2>1. CASE run # NoRun
    <3>1. run.job # new /\ run.job \in JobIds
      BY <2>1, <1>3, RunningJob, ConstantsAssumption DEF RunIsOfAJob, IInv, new, TypeOK
    <3>2. QED
      BY <1>2, <1>4, <3>1 DEF RunHasResults, Results, Generated
  <2>2. CASE run = NoRun
    BY <1>2, <2>2 DEF RunHasResults
  <2>3. QED
    BY <2>1, <2>2
<1>8. SummariesAreCounted'
  <2>1. \A r \in Sessions : generated[r] \in Nat
    BY CountsAreNumbers DEF IInv
  <2>2. created \in Nat /\ created' = created + 1
    BY ConstantsAssumption DEF Insert, IInv, TypeOK
  <2>3. QED
    BY <1>2, <2>1, <2>2 DEF Results, SummariesAreCounted
<1>9. QED
  BY <1>6, <1>7, <1>8 DEF Results

\* Retry, cancel and the first half of a deletion change statuses and the signal.
LEMMA StatusStepsKeepResults ==
  ASSUME IInv, TypeOK', Results,
         \/ \E j \in JobIds : Retry(j) \/ Cancel(j)
         \/ \E s \in Sessions : DeleteBegin(s)
  PROVE  Results'
<1>1. UNCHANGED <<summary, generated, transcript, created>>
  BY DEF Retry, Cancel, DeleteBegin, docs, history
<1>2. run' = run \/ (run # NoRun /\ run' = [run EXCEPT !.aborted = TRUE])
  <2>1. ASSUME NEW j \in JobIds, Retry(j) \/ Cancel(j)
        PROVE  run' = run \/ (run.job = j /\ run' = [run EXCEPT !.aborted = TRUE])
    BY <2>1 DEF Retry, Cancel
  <2>2. ASSUME NEW s \in Sessions, DeleteBegin(s)
        PROVE  run' = run \/ (run.job \in JobIds /\ run' = [run EXCEPT !.aborted = TRUE])
    BY <2>2 DEF DeleteBegin, Active
  <2>3. NoRun.job \notin JobIds
    BY ConstantsAssumption DEF NoRun, JobIds
  <2>4. QED
    BY <2>1, <2>2, <2>3
<1>3. RunKept
  BY <1>2 DEF RunKept, IInv, TypeOK, Run
<1>4. ASSUME NEW k \in JobIds
      PROVE  /\ jobs'[k].session = jobs[k].session /\ jobs'[k].payload = jobs[k].payload
             /\ jobs'[k].status # "none" => jobs[k].status # "none"
             /\ jobs'[k].status = "succeeded" => jobs[k].status = "succeeded"
  <2>1. ASSUME NEW j \in JobIds, Retry(j) \/ Cancel(j)
        PROVE  /\ jobs'[k].session = jobs[k].session /\ jobs'[k].payload = jobs[k].payload
               /\ jobs'[k].status = jobs[k].status \/ jobs'[k].status \in {"queued", "cancelled"}
               /\ jobs'[k].status # jobs[k].status => jobs[k].status # "none"
    <3>1. jobs \in [JobIds -> Row] /\ jobs[k] \in Row
      BY DEF IInv, TypeOK
    <3>2. CASE Retry(j)
      <4>1. jobs' = [jobs EXCEPT
              ![j] = [jobs[j] EXCEPT !.status = "queued", !.attempt = @ + 1]]
        BY <3>1, <3>2 DEF Retry
      <4>2. jobs'[k] = IF k = j THEN [jobs[j] EXCEPT !.status = "queued", !.attempt = @ + 1]
                       ELSE jobs[k]
        BY <3>1, <4>1
      <4>3. jobs[j].status # "none"
        BY <3>2 DEF Retry
      <4>4. QED
        BY <3>1, <4>2, <4>3 DEF Row
    <3>3. CASE Cancel(j)
      <4>1. jobs'[k] = IF k = j THEN [jobs[j] EXCEPT !.status = "cancelled"] ELSE jobs[k]
        BY <3>1, <3>3 DEF Cancel, SetStatus
      <4>2. jobs[j].status # "none"
        BY <3>3 DEF Cancel
      <4>3. QED
        BY <3>1, <4>1, <4>2 DEF Row
    <3>4. QED
      BY <2>1, <3>2, <3>3
  <2>2. ASSUME NEW s \in Sessions, DeleteBegin(s)
        PROVE  /\ jobs'[k].session = jobs[k].session /\ jobs'[k].payload = jobs[k].payload
               /\ jobs'[k].status = jobs[k].status \/ jobs'[k].status = "cancelled"
               /\ jobs'[k].status # jobs[k].status => jobs[k].status # "none"
    <3>1. jobs'[k] = IF k \in Active(jobs, s) THEN [jobs[k] EXCEPT !.status = "cancelled"]
                     ELSE jobs[k]
      BY <2>2 DEF DeleteBegin
    <3>2. k \in Active(jobs, s) => jobs[k].status # "none"
      BY DEF Active
    <3>3. jobs[k] \in Row
      BY DEF IInv, TypeOK
    <3>4. QED
      BY <3>1, <3>2, <3>3 DEF Row
  <2>3. QED
    BY <2>1, <2>2
<1>5. QED
  BY <1>1, <1>3, <1>4, DocsStay, CountsStay, KeepsResults DEF Results

\* The documents of a session go with its rows.
LEMMA DeleteEndKeepsResults ==
  ASSUME IInv, TypeOK', Results, NEW s \in Sessions, DeleteEnd(s)
  PROVE  Results'
<1>1. UNCHANGED <<run, generated, created>>
  BY DEF DeleteEnd, history
<1>2. \A r \in Sessions : r # s =>
        transcript'[r] = transcript[r] /\ summary'[r] = summary[r]
  BY DEF DeleteEnd, IInv, TypeOK
<1>3. SummariesAreCounted'
  <2>1. summary'[s].jobsThen = 0
    BY DEF DeleteEnd, IInv, TypeOK, NoSummary
  <2>2. \A r \in Sessions : generated[r] \in Nat
    BY CountsAreNumbers DEF IInv
  <2>3. QED
    BY <1>1, <1>2, <2>1, <2>2 DEF Results, SummariesAreCounted
<1>4. ASSUME NEW j \in JobIds
      PROVE  RowKept(j) /\ (jobs'[j].status = "succeeded" => jobs[j].status = "succeeded")
  <2>1. CASE jobs[j].session = s
    BY <2>1 DEF DeleteEnd, NoRow, RowKept
  <2>2. CASE jobs[j].session # s
    <3>1. jobs'[j] = jobs[j]
      BY <2>2 DEF DeleteEnd
    <3>2. ASSUME jobs[j].status # "none" PROVE DocsKept(jobs[j].session)
      BY <1>1, <1>2, <2>2, <3>2, SessionOfRow, CountsAreNumbers DEF DocsKept, IInv
    <3>3. QED
      BY <3>1, <3>2 DEF RowKept
  <2>3. QED
    BY <2>1, <2>2
<1>5. RunKept
  BY <1>1 DEF RunKept
<1>6. QED
  BY <1>3, <1>4, <1>5, KeepsResults

\* An edit adds a revision, of the summary with the count of the one before.
LEMMA EditsKeepResults ==
  ASSUME IInv, TypeOK', Results, NEW s \in Sessions, EditTranscript(s) \/ EditSummary(s)
  PROVE  Results'
<1>1. UNCHANGED <<run, generated, jobs, created>>
  BY DEF EditTranscript, EditSummary, history
<1>2. ASSUME NEW r \in Sessions
      PROVE  /\ transcript[r].rev > 0 => transcript'[r].rev > 0
             /\ summary[r].rev > 0 => summary'[r].rev > 0
             /\ summary'[r].jobsThen = summary[r].jobsThen
  <2>1. /\ transcript \in [Sessions -> TranscriptRow] /\ transcript[r].rev \in Nat
        /\ summary \in [Sessions -> SummaryRow] /\ summary[r].rev \in Nat
    BY CountsAreNumbers DEF IInv, TypeOK
  <2>2. CASE EditTranscript(s)
    <3>1. /\ summary' = summary
          /\ transcript'[r] = IF r = s THEN [transcript[s] EXCEPT !.rev = @ + 1]
                              ELSE transcript[r]
      BY <2>1, <2>2 DEF EditTranscript
    <3>2. QED
      BY <2>1, <3>1 DEF TranscriptRow
  <2>3. CASE EditSummary(s)
    <3>1. /\ transcript' = transcript
          /\ summary' = [summary EXCEPT
                ![s] = [summary[s] EXCEPT !.rev = @ + 1, !.edited = TRUE]]
      BY <2>1, <2>3 DEF EditSummary
    <3>2. summary'[r] = IF r = s THEN [summary[s] EXCEPT !.rev = @ + 1, !.edited = TRUE]
                        ELSE summary[r]
      BY <2>1, <3>1
    <3>3. QED
      BY <2>1, <3>1, <3>2 DEF SummaryRow
  <2>4. QED
    BY <2>2, <2>3
<1>3. SummariesAreCounted'
  BY <1>1, <1>2 DEF Results, SummariesAreCounted
<1>4. ASSUME NEW j \in JobIds PROVE RowKept(j)
  BY <1>1, <1>2, SessionOfRow, CountsAreNumbers DEF RowKept, DocsKept, IInv
<1>5. RunKept
  BY <1>1 DEF RunKept
<1>6. QED
  BY <1>1, <1>3, <1>4, <1>5, KeepsResults

LEMMA UserKeepsResults ==
  ASSUME IInv, TypeOK', Results, UserStep
  PROVE  Results'
<1>1. ASSUME NEW s \in Sessions, NEW p \in Payloads, Enqueue(s, p)
      PROVE  Results'
  <2>1. Insert(s, p, "probe") /\ p.kind = "full" /\ UNCHANGED <<docs, run, history>>
    BY <1>1 DEF Enqueue
  <2>2. QED
    BY <2>1, InsertHasResults
<1>2. ASSUME NEW s \in Sessions, NEW p \in Payloads, GenerateSummary(s, p)
      PROVE  Results'
  <2>1. /\ Insert(s, p, "summarize") /\ transcript[s].rev > 0
        /\ UNCHANGED <<docs, run, history>>
    BY <1>2 DEF GenerateSummary
  <2>2. QED
    BY <2>1, InsertHasResults
<1>3. ASSUME NEW s \in Sessions, EnqueueRejected(s)
      PROVE  Results'
  BY <1>3 DEF EnqueueRejected, docs, history, Results, SummariesAreCounted, RowHasResults,
     RunHasResults, Generated
<1>4. QED
  BY <1>1, <1>2, <1>3, StatusStepsKeepResults, DeleteEndKeepsResults, EditsKeepResults
  DEF UserStep

----------------------------------------------------------------------------
(* The run.                                                                *)

\* Steps that leave every row as it is but for its stage.
JobsKeep ==
  \A j \in JobIds : /\ jobs'[j].status = jobs[j].status
                    /\ jobs'[j].session = jobs[j].session
                    /\ jobs'[j].payload = jobs[j].payload

LEMMA StageKeepsJobs ==
  ASSUME IInv, NEW j, NEW stage, SetStage(j, stage)
  PROVE  JobsKeep
BY DEF IInv, TypeOK, Row, SetStage, JobsKeep

\* The run goes to an await that demands nothing.
LEMMA GotoKeepsRun ==
  ASSUME IInv, run # NoRun, NEW pc \in Awaits \cup SyncSteps, Goto(pc),
         \/ pc \notin TranscriptSaved \cup SummarySaved
         \/ run.pc \in SummarySaved
         \/ run.pc \in TranscriptSaved /\ pc \notin SummarySaved
         \/ run.pc \in TranscriptSaved /\ run.payload.summarizer = NoModel
  PROVE  RunKept
<1>1. run \in Run /\ run' = [run EXCEPT !.pc = pc]
  BY DEF IInv, TypeOK, Goto
<1>2. /\ run'.job = run.job /\ run'.session = run.session /\ run'.payload = run.payload
      /\ run'.pc = pc
  BY <1>1 DEF Run
<1>3. run.pc \in SummarySaved => run.pc \in TranscriptSaved
  BY DEF SummarySaved, TranscriptSaved
<1>4. QED
  BY <1>2, <1>3 DEF RunKept

LEMMA EndKeepsRun == ASSUME run' = NoRun PROVE RunKept
BY DEF RunKept

\* A step that writes no document, and whose run is kept.
LEMMA QuietKeepsResults ==
  ASSUME IInv, TypeOK', Results, RunKept, JobsKeep,
         UNCHANGED <<summary, generated, transcript, created>>
  PROVE  Results'
<1>1. ASSUME NEW j \in JobIds
      PROVE  RowKept(j) /\ (jobs'[j].status = "succeeded" => jobs[j].status = "succeeded")
  BY DocsStay DEF JobsKeep
<1>2. QED
  BY <1>1, CountsStay, KeepsResults DEF Results

\* transcribeAndPersist() leaves a transcript, or fails.
LEMMA SavedKeepsResults ==
  ASSUME IInv, TypeOK', Results, run # NoRun, NEW stage, SaveTranscript(stage),
         UNCHANGED <<summary, generated, created>>
  PROVE  Results'
<1>1. JobsKeep
  BY StageKeepsJobs DEF SaveTranscript
<1>2. CASE ~Present(run.session)
  <2>1. Goto("caught") /\ UNCHANGED transcript
    BY <1>2 DEF SaveTranscript
  <2>2. RunKept
    BY <2>1, GotoKeepsRun DEF SyncSteps, TranscriptSaved, SummarySaved
  <2>3. QED
    BY <1>1, <2>1, <2>2, QuietKeepsResults
<1>3. CASE Present(run.session)
  <2>1. run.session \in Sessions /\ run \in Run /\ transcript[run.session].rev \in Nat
    BY CountsAreNumbers DEF IInv, RunIsOfAJob, TypeOK
  <2>2. transcript' = [transcript EXCEPT ![run.session] =
          [rev |-> transcript[run.session].rev + 1, model |-> run.payload.transcriber]]
    BY <1>3 DEF SaveTranscript
  <2>3. /\ transcript'[run.session].rev > 0
        /\ \A r \in Sessions : r # run.session => transcript'[r] = transcript[r]
    BY <2>1, <2>2 DEF IInv, TypeOK
  <2>4. run' = [run EXCEPT !.pc = "transcript-saved",
                           !.source = transcript[run.session].rev + 1]
    BY <1>3 DEF SaveTranscript
  <2>5. RunKept
    BY <2>1, <2>3, <2>4 DEF RunKept, Run, SummarySaved
  <2>6. ASSUME NEW j \in JobIds
        PROVE  RowKept(j) /\ (jobs'[j].status = "succeeded" => jobs[j].status = "succeeded")
    BY <1>1, <2>3, SessionOfRow, CountsAreNumbers DEF JobsKeep, RowKept, DocsKept, IInv
  <2>7. QED
    BY <2>5, <2>6, CountsStay, KeepsResults DEF Results
<1>4. QED
  BY <1>2, <1>3

\* The steps up to the transcript and those that end a run without success.
LEMMA WorkKeepsResults ==
  ASSUME IInv, TypeOK', Results,
         \/ Reject \/ Probed \/ Proxied \/ Extracted \/ Transcribed
         \/ DiarizationChecked \/ Diarized \/ PcmRemoved
  PROVE  Results'
<1>1. run # NoRun /\ UNCHANGED <<summary, generated, created>>
  BY DEF Reject, Probed, Proxied, Extracted, Transcribed, DiarizationChecked, Diarized,
         PcmRemoved, At, NoRun, docs, history
<1>2. UNCHANGED jobs => JobsKeep
  BY DEF JobsKeep
<1>3. \A stage : SetStage(run.job, stage) => JobsKeep
  BY StageKeepsJobs
<1>4. \A pc \in {"playback-proxy", "extract-audio", "transcribe", "diarization-status",
                 "diarize", "remove-pcm", "rejecting", "caught"} : Goto(pc) => RunKept
  BY <1>1, GotoKeepsRun DEF TranscriptSaved, SummarySaved, Awaits, SyncSteps
<1>5. JobsKeep /\ RunKept /\ UNCHANGED transcript => Results'
  BY <1>1, QuietKeepsResults
<1>6. \A stage : SaveTranscript(stage) => Results'
  BY <1>1, SavedKeepsResults
<1>7. CASE Reject
  BY <1>2, <1>4, <1>5, <1>7 DEF Reject, docs
<1>8. CASE Probed \/ Proxied
  BY <1>3, <1>4, <1>5, <1>8 DEF Probed, Proxied, Suspend, docs
<1>9. CASE Extracted
  <2>1. UNCHANGED transcript
    BY <1>9 DEF Extracted, docs
  <2>2. CASE Reusable
    <3>1. run' = [run EXCEPT !.pc = "transcript-saved",
                             !.source = transcript[run.session].rev]
          /\ UNCHANGED jobs /\ transcript'[run.session].rev > 0
      BY <1>9, <2>1, <2>2 DEF Extracted, Reusable
    <3>2. RunKept
      BY <1>1, <3>1 DEF RunKept, IInv, TypeOK, Run, SummarySaved
    <3>3. QED
      BY <1>2, <1>5, <2>1, <3>1, <3>2
  <2>3. CASE ~Reusable
    BY <1>3, <1>4, <1>5, <1>9, <2>1, <2>3 DEF Extracted
  <2>4. QED
    BY <2>2, <2>3
<1>10. CASE Transcribed \/ DiarizationChecked \/ Diarized \/ PcmRemoved
  BY <1>2, <1>3, <1>4, <1>5, <1>6, <1>10
  DEF Transcribed, DiarizationChecked, Diarized, PcmRemoved
<1>11. QED
  BY <1>7, <1>8, <1>9, <1>10

\* A summary that was there already was generated after the job was asked for.
LEMMA PersistedIsGenerated ==
  ASSUME IInv, Results, NEW s \in Sessions, NEW j \in JobIds, NEW stage, NEW source,
         NEW model, HasPersistedSummary(j, s, stage, source, model)
  PROVE  Generated(s, j)
<1>1. summary[s].rev > 0 /\ summary[s].jobsThen >= j /\ summary[s].jobsThen <= generated[s]
  BY DEF HasPersistedSummary, Results, SummariesAreCounted
<1>2. j \in Nat /\ summary[s].jobsThen \in Nat /\ generated[s] \in Nat
  BY CountsAreNumbers, ConstantsAssumption DEF IInv, JobIds
<1>3. QED
  BY <1>1, <1>2 DEF Generated

LEMMA ContinueKeepsResults ==
  ASSUME IInv, TypeOK', Results, Continue
  PROVE  Results'
<1>1. run # NoRun /\ run.pc = "transcript-saved"
      /\ UNCHANGED <<summary, generated, transcript, created>>
  BY DEF Continue, At, NoRun, docs
<1>2. run.session \in Sessions /\ run.job \in JobIds /\ run \in Run
  BY <1>1, RunningJob DEF IInv, RunIsOfAJob, TypeOK
<1>3. JobsKeep
  BY StageKeepsJobs DEF Continue, JobsKeep
<1>4. RunKept
  <2>1. CASE run.payload.summarizer = NoModel
    <3>1. Goto("returned")
      BY <2>1 DEF Continue
    <3>2. QED
      BY <1>1, <2>1, <3>1, GotoKeepsRun DEF TranscriptSaved, SyncSteps
  <2>2. CASE Goto("caught") \/ Goto("rejecting") \/ Goto("summarize")
    BY <1>1, <2>2, GotoKeepsRun DEF TranscriptSaved, SummarySaved, SyncSteps, Awaits
  <2>3. CASE /\ Goto("returned")
             /\ HasPersistedSummary(run.job, run.session, run.stage, run.source,
                                    run.payload.summarizer)
    <3>1. Generated(run.session, run.job)
      BY <1>2, <2>3, PersistedIsGenerated
    <3>2. run'.job = run.job /\ run'.session = run.session /\ run'.payload = run.payload
      BY <1>2, <2>3 DEF Goto, Run
    <3>3. QED
      BY <1>1, <3>1, <3>2 DEF RunKept, Generated, TranscriptSaved
  <2>4. QED
    BY <2>1, <2>2, <2>3 DEF Continue, Suspend
<1>5. QED
  BY <1>1, <1>3, <1>4, QuietKeepsResults

\* The summary that arrives is the newest, and counts all jobs there are.
LEMMA SummarizedKeepsResults ==
  ASSUME IInv, TypeOK', Results, Summarized
  PROVE  Results'
<1>1. run # NoRun /\ run.pc = "summarize" /\ UNCHANGED <<jobs, transcript, created>>
  BY DEF Summarized, At, NoRun
<1>2. /\ run.session \in Sessions /\ run.job \in JobIds /\ run.job <= created /\ run \in Run
      /\ created \in 0..MaxJobs
  BY <1>1, RunningJob DEF IInv, RunIsOfAJob, TypeOK
<1>3. JobsKeep
  BY <1>1 DEF JobsKeep
<1>4. CASE ~Present(run.session)
  <2>1. Goto("caught") /\ UNCHANGED <<summary, generated>>
    BY <1>4 DEF Summarized
  <2>2. RunKept
    BY <1>1, <2>1, GotoKeepsRun DEF SyncSteps, TranscriptSaved, SummarySaved
  <2>3. QED
    BY <1>1, <1>3, <2>1, <2>2, QuietKeepsResults
<1>5. CASE Present(run.session)
  <2>1. /\ summary' = [summary EXCEPT ![run.session] =
             [rev |-> summary[run.session].rev + 1, of |-> run.source,
              model |-> run.payload.summarizer, edited |-> FALSE, jobsThen |-> created]]
        /\ generated' = [generated EXCEPT ![run.session] = created]
        /\ Goto("returned")
    BY <1>5 DEF Summarized
  <2>2. /\ \A s \in Sessions : generated[s] \in 0..MaxJobs
        /\ summary[run.session].rev \in Nat
        /\ \A s \in Sessions : summary[s].jobsThen \in 0..MaxJobs
    BY <1>2, CountsAreNumbers DEF IInv, TypeOK, SummaryRow
  <2>3. /\ summary'[run.session].rev > 0 /\ summary'[run.session].jobsThen = created
        /\ generated'[run.session] = created
        /\ \A s \in Sessions : s # run.session =>
             summary'[s] = summary[s] /\ generated'[s] = generated[s]
    BY <1>2, <2>1, <2>2 DEF IInv, TypeOK
  <2>4. SummariesAreCounted'
    BY <1>1, <1>2, <2>2, <2>3, ConstantsAssumption DEF Results, SummariesAreCounted
  <2>5. RunKept
    <3>1. run'.job = run.job /\ run'.session = run.session /\ run'.payload = run.payload
      BY <1>2, <2>1 DEF Goto, Run
    <3>2. QED
      BY <1>1, <1>2, <2>3, <3>1, ConstantsAssumption DEF RunKept, TranscriptSaved, JobIds
  <2>6. \A s \in Sessions : generated[s] <= created
    BY DEF Results, SummariesAreCounted
  <2>7. ASSUME NEW j \in JobIds PROVE RowKept(j)
    <3>1. ASSUME jobs[j].status # "none" PROVE DocsKept(jobs[j].session)
      <4>1. jobs[j].session \in Sessions
        BY <3>1, SessionOfRow
      <4>2. generated'[jobs[j].session] >= generated[jobs[j].session]
        BY <1>2, <2>2, <2>3, <2>6, <4>1, ConstantsAssumption
      <4>3. summary[jobs[j].session].rev > 0 => summary'[jobs[j].session].rev > 0
        BY <2>3, <4>1
      <4>4. QED
        BY <1>1, <4>2, <4>3 DEF DocsKept
    <3>2. QED
      BY <1>1, <3>1 DEF RowKept
  <2>8. QED
    BY <1>3, <2>4, <2>5, <2>7, KeepsResults DEF JobsKeep
<1>6. QED
  BY <1>4, <1>5

\* Succeed, and the ends of a run without success.
LEMMA EndKeepsResults ==
  ASSUME IInv, TypeOK', Results, Returned \/ WorkRemoved \/ Succeed \/ Caught
  PROVE  Results'
<1>1. run # NoRun /\ UNCHANGED <<summary, generated, transcript, created>>
  BY DEF Returned, WorkRemoved, Succeed, Caught, At, NoRun, docs, history
<1>2. run.job \in JobIds /\ run.session \in Sessions
  BY <1>1, RunningJob DEF IInv, RunIsOfAJob
<1>3. CASE Returned \/ WorkRemoved
  <2>1. JobsKeep
    BY <1>3 DEF Returned, WorkRemoved, JobsKeep
  <2>2. \/ run' = NoRun \/ Goto("caught")
        \/ run.pc \in SummarySaved /\ (Goto("remove-work") \/ Goto("session-ready"))
    BY <1>3 DEF Returned, WorkRemoved, At, SummarySaved
  <2>3. RunKept
    BY <1>1, <2>2, GotoKeepsRun, EndKeepsRun
    DEF SyncSteps, Awaits, TranscriptSaved, SummarySaved
  <2>4. QED
    BY <1>1, <2>1, <2>3, QuietKeepsResults
<1>4. CASE Caught
  <2>1. run' = NoRun
    BY <1>4 DEF Caught
  <2>2. ASSUME NEW j \in JobIds
        PROVE  /\ jobs'[j].session = jobs[j].session /\ jobs'[j].payload = jobs[j].payload
               /\ jobs'[j].status # "none" => jobs[j].status # "none"
               /\ jobs'[j].status = "succeeded" => jobs[j].status = "succeeded"
    <3>1. jobs[j] \in Row /\ jobs \in [JobIds -> Row]
      BY DEF IInv, TypeOK
    <3>2. \/ jobs' = jobs
          \/ /\ jobs[run.job].status # "none"
             /\ \E st \in {"queued", "cancelled", "failed"} :
                  jobs' = [jobs EXCEPT ![run.job].status = st]
      BY <1>4 DEF Caught, SetStatus, Exists
    <3>3. QED
      BY <3>1, <3>2 DEF Row
  <2>3. ASSUME NEW j \in JobIds PROVE RowKept(j)
    BY <1>1, <2>2, DocsStay
  <2>4. QED
    BY <1>1, <2>1, <2>2, <2>3, EndKeepsRun, CountsStay, KeepsResults DEF Results
<1>5. CASE Succeed
  <2>1. /\ run' = NoRun /\ run.pc = "session-ready"
        /\ jobs' = [jobs EXCEPT ![run.job].status = "succeeded"]
    BY <1>5 DEF Succeed, SetStatus, At
  <2>2. jobs[run.job].status = "running"
    BY <1>1, <2>1 DEF IInv, RunKeepsItsRow
  <2>3. /\ transcript[jobs[run.job].session].rev > 0
        /\ jobs[run.job].payload.summarizer # NoModel =>
             Generated(jobs[run.job].session, run.job)
    BY <1>1, <2>1, <2>2 DEF Results, RunHasResults, TranscriptSaved, SummarySaved
  <2>4. ASSUME NEW j \in JobIds PROVE RowHasResults(j)'
    <3>1. CASE j = run.job
      <4>1. jobs'[j] = [jobs[j] EXCEPT !.status = "succeeded"] /\ jobs[j] \in Row
        BY <1>2, <2>1, <3>1 DEF IInv, TypeOK
      <4>2. jobs'[j].session = jobs[j].session /\ jobs'[j].payload = jobs[j].payload
        BY <4>1 DEF Row
      <4>3. QED
        BY <1>1, <2>3, <3>1, <4>2 DEF RowHasResults, Generated
    <3>2. CASE j # run.job
      <4>1. jobs'[j] = jobs[j]
        BY <1>2, <2>1, <3>2 DEF IInv, TypeOK
      <4>2. QED
        BY <1>1, <4>1 DEF Results, RowHasResults, Generated
    <3>3. QED
      BY <3>1, <3>2
  <2>5. RunHasResults' /\ SummariesAreCounted'
    BY <1>1, <2>1, CountsStay DEF RunHasResults, Results
  <2>6. QED
    BY <2>4, <2>5 DEF Results
<1>6. QED
  BY <1>3, <1>4, <1>5

\* A job starts with what its session has.
LEMMA StartKeepsResults ==
  ASSUME IInv, TypeOK', Results, StartTask
  PROVE  Results'
<1> DEFINE j == Head(queue)
           p == jobs[j].payload
<1>1. /\ j \in JobIds /\ jobs[j].status = "queued" /\ jobs[j] \in Row
      /\ jobs \in [JobIds -> Row]
      /\ UNCHANGED <<summary, generated, transcript, created>>
  BY DEF StartTask, IInv, TypeOK, docs, history
<1>2. /\ jobs'[j].session = jobs[j].session /\ jobs'[j].payload = jobs[j].payload
      /\ jobs'[j].status = "running"
      /\ \A k \in JobIds : k # j => jobs'[k] = jobs[k]
  BY <1>1 DEF StartTask, Row
<1>3. run'.job = j /\ run'.session = jobs[j].session /\ run'.payload = jobs[j].payload
  BY DEF StartTask
<1>4. jobs[j].session \in Sessions
  BY <1>1, SessionOfRow
<1>5. run'.pc \in TranscriptSaved => p.kind # "full"
  BY DEF StartTask, TranscriptSaved
<1>6. run'.pc \in SummarySaved =>
        HasPersistedSummary(j, jobs[j].session, jobs[j].stage,
                            transcript[jobs[j].session].rev, p.summarizer)
  BY DEF StartTask, SummarySaved
<1> HIDE DEF j, p
<1>7. ASSUME NEW k \in JobIds
      PROVE  RowKept(k) /\ (jobs'[k].status = "succeeded" => jobs[k].status = "succeeded")
  <2>1. RowKept(k)
    BY <1>1, <1>2, DocsStay
  <2>2. QED
    BY <1>2, <2>1
<1>8. ASSUME NEW k \in JobIds PROVE RowHasResults(k)'
  BY <1>7, RowStays DEF Results
<1>9. RunHasResults'
  <2>1. run'.pc \in TranscriptSaved => transcript[jobs[j].session].rev > 0
    BY <1>1, <1>5 DEF Results, RowHasResults, p
  <2>2. run'.pc \in SummarySaved => Generated(jobs[j].session, j)
    BY <1>1, <1>4, <1>6, PersistedIsGenerated
  <2>3. QED
    BY <1>1, <1>2, <1>3, <2>1, <2>2 DEF RunHasResults, Generated
<1>10. QED
  BY <1>1, <1>8, <1>9, CountsStay DEF Results

\* The process: nothing is written, and a run is aborted or gone.
LEMMA ProcessKeepsResults ==
  ASSUME IInv, TypeOK', Results,
         SkipTask \/ Shutdown \/ Exit \/ Crash \/ CrashMidway \/ Restart
  PROVE  Results'
<1>1. UNCHANGED <<summary, generated, transcript, created>>
  BY DEF SkipTask, Shutdown, Exit, Crash, CrashMidway, Restart, Stopped, docs, history
<1>2. run' = run \/ run' = NoRun \/ (run # NoRun /\ run' = [run EXCEPT !.aborted = TRUE])
  BY DEF SkipTask, Shutdown, Exit, Crash, CrashMidway, Restart, Stopped
<1>3. RunKept
  BY <1>2 DEF RunKept, IInv, TypeOK, Run
<1>4. JobsKeep \/ Restart
  BY DEF SkipTask, Shutdown, Exit, Crash, CrashMidway, Stopped, JobsKeep
<1>5. ASSUME NEW j \in JobIds
      PROVE  /\ jobs'[j].session = jobs[j].session /\ jobs'[j].payload = jobs[j].payload
             /\ jobs'[j].status # "none" => jobs[j].status # "none"
             /\ jobs'[j].status = "succeeded" => jobs[j].status = "succeeded"
  <2>1. CASE JobsKeep
    BY <2>1 DEF JobsKeep
  <2>2. CASE Restart
    <3>1. jobs'[j] = IF jobs[j].status = "running" THEN [jobs[j] EXCEPT !.status = "queued"]
                     ELSE jobs[j]
      BY <2>2 DEF Restart
    <3>2. jobs[j] \in Row
      BY DEF IInv, TypeOK
    <3>3. QED
      BY <3>1, <3>2 DEF Row
  <2>3. QED
    BY <1>4, <2>1, <2>2
<1>6. ASSUME NEW j \in JobIds PROVE RowKept(j)
  BY <1>1, <1>5, DocsStay
<1>7. QED
  BY <1>1, <1>3, <1>5, <1>6, CountsStay, KeepsResults DEF Results

----------------------------------------------------------------------------

LEMMA InitHasResults == ASSUME Init PROVE Results
<1>1. SummariesAreCounted
  BY DEF Init, SummariesAreCounted, NoSummary
<1>2. ASSUME NEW j \in JobIds PROVE RowHasResults(j)
  BY DEF Init, RowHasResults, NoRow
<1>3. RunHasResults
  BY DEF Init, RunHasResults
<1>4. QED
  BY <1>1, <1>2, <1>3 DEF Results

LEMMA NextKeepsResults == ASSUME IInv, IInv', Results, [Next]_vars PROVE Results'
<1>1. TypeOK'
  BY DEF IInv
<1>2. CASE UNCHANGED vars
  BY <1>2 DEF vars, Results, SummariesAreCounted, RowHasResults, RunHasResults, Generated
<1>3. CASE RunStep
  BY <1>1, <1>3, WorkKeepsResults, ContinueKeepsResults, SummarizedKeepsResults,
     EndKeepsResults DEF RunStep
<1>4. QED
  BY <1>1, <1>2, <1>3, UserKeepsResults, StartKeepsResults, ProcessKeepsResults DEF Next

\* DurableProcessingController.run(): a job is marked succeeded only behind a transcript
\* and, when it was to write one, a summary generated after the job was asked for;
\* deletions, retries, edits, crashes and reused documents do not change that.
THEOREM SuccessHasResults == Spec => []SucceededHasResults
<1>1. Init => Results
  BY InitHasResults
<1>2. IInv /\ IInv' /\ Results /\ [Next]_vars => Results'
  BY NextKeepsResults
<1>3. IInv /\ Results => SucceededHasResults
  BY DEF Results, RowHasResults, Generated, SucceededHasResults
<1>4. QED
  BY <1>1, <1>2, <1>3, Invariance, PTL DEF Spec

----------------------------------------------------------------------------
(* A session says processing only while a job of it is queued or running.  *)
(* Two steps of the code break this, and the argument is that no other     *)
(* does: an edit of a transcript, and the save of a transcript whose run   *)
(* was aborted while its PCM file was being removed.                       *)

LateSave == PcmRemoved /\ run.aborted /\ transcript' # transcript
Reopens == LateSave \/ \E s \in Sessions : EditTranscript(s)

Named(s) == \E j \in JobIds : jobs[j].session = s
Working(s) ==
  \E j \in JobIds : jobs[j].session = s /\ jobs[j].status \in {"queued", "running"}

Accounted(s) == status[s] = "processing" /\ Named(s) => Working(s)

\* A session that is not there, or not yet, has no documents and no jobs.
Vacant(s) ==
  status[s] \in {"new", "deleted"} =>
    transcript[s].rev = 0 /\ summary[s].rev = 0 /\ ~Named(s)

\* A row that is gone while its run is on the stack went with its session, and a
\* session is out of processing before its job succeeds.
RunIsAccounted ==
  run # NoRun =>
    /\ jobs[run.job].status = "none" => status[run.session] = "deleted"
    /\ run.pc = "session-ready" => status[run.session] # "processing"

Accounts ==
  /\ \A s \in Sessions : Accounted(s) /\ Vacant(s)
  /\ RunIsAccounted

\* What a step does to a session, and to the run, when it keeps the accounts.
SessionKept(s) ==
  /\ status[s] = "deleted" => status'[s] = "deleted"
  /\ status'[s] \in {"new", "deleted"} =>
       /\ status[s] \in {"new", "deleted"}
       /\ transcript'[s].rev = transcript[s].rev
       /\ summary'[s].rev = summary[s].rev
       /\ Named(s)' => Named(s)
  /\ status'[s] = "processing" =>
       \/ Working(s)'
       \/ ~Named(s)'
       \/ /\ status[s] = "processing"
          /\ Named(s)' => Named(s)
          /\ Working(s) => Working(s)'

RunFollows ==
  run' # NoRun =>
    /\ run # NoRun
    /\ run'.job = run.job /\ run'.session = run.session
    /\ jobs'[run.job].status = "none" => jobs[run.job].status = "none"
    /\ run'.pc = "session-ready" => status'[run.session] # "processing"

LEMMA SessionsKept ==
  ASSUME Accounts, \A s \in Sessions : SessionKept(s)
  PROVE  \A s \in Sessions : Accounted(s)' /\ Vacant(s)'
<1>1. ASSUME NEW s \in Sessions PROVE Accounted(s)'
  BY <1>1 DEF Accounts, SessionKept, Accounted
<1>2. ASSUME NEW s \in Sessions PROVE Vacant(s)'
  BY <1>2 DEF Accounts, SessionKept, Vacant
<1>3. QED
  BY <1>1, <1>2

LEMMA KeepsAccounts ==
  ASSUME IInv, Accounts, RunFollows, \A s \in Sessions : SessionKept(s)
  PROVE  Accounts'
<1>1. RunIsAccounted'
  <2>1. CASE run' = NoRun
    BY <2>1 DEF RunIsAccounted
  <2>2. CASE run' # NoRun
    <3>1. /\ run # NoRun /\ run'.job = run.job /\ run'.session = run.session
          /\ run.session \in Sessions
      BY <2>2 DEF RunFollows, IInv, RunIsOfAJob
    <3>2. jobs'[run.job].status = "none" => status'[run.session] = "deleted"
      BY <2>2, <3>1 DEF RunFollows, Accounts, RunIsAccounted, SessionKept
    <3>3. QED
      BY <2>2, <3>1, <3>2 DEF RunFollows, RunIsAccounted
  <2>3. QED
    BY <2>1, <2>2
<1>2. QED
  BY <1>1, SessionsKept DEF Accounts

\* A step that keeps every row's session, and the unfinished rows of this one.
LEMMA NamedStays ==
  ASSUME NEW s, \A j \in JobIds : jobs'[j].session = jobs[j].session
  PROVE  Named(s)' <=> Named(s)
BY DEF Named

LEMMA WorkingStays ==
  ASSUME NEW s,
         \A j \in JobIds :
           jobs[j].session = s /\ jobs[j].status \in {"queued", "running"} =>
             jobs'[j].session = s /\ jobs'[j].status \in {"queued", "running"}
  PROVE  Working(s) => Working(s)'
BY DEF Working

\* The statuses of rows and sessions stay, and so do the documents that are missing.
LEMMA RowsKeepSessions ==
  ASSUME NEW s, status'[s] = status[s],
         status[s] \in {"new", "deleted"} =>
           transcript'[s].rev = transcript[s].rev /\ summary'[s].rev = summary[s].rev,
         \A j \in JobIds : /\ jobs'[j].session = jobs[j].session
                           /\ jobs[j].status \in {"queued", "running"} =>
                                jobs'[j].status \in {"queued", "running"}
  PROVE  SessionKept(s)
<1>1. (Named(s)' <=> Named(s)) /\ (Working(s) => Working(s)')
  BY NamedStays, WorkingStays
<1>2. QED
  BY <1>1 DEF SessionKept

\* A session that is there gets a status that makes no promise.
LEMMA SessionSettles ==
  ASSUME NEW s, status[s] # "deleted", status'[s] \in {"ready", "failed", "interrupted"}
  PROVE  SessionKept(s)
BY DEF SessionKept

\* A session that has a row is there.
LEMMA RowsArePresent ==
  ASSUME IInv, Accounts, NEW j \in JobIds, jobs[j].status # "none"
  PROVE  /\ jobs[j].session \in Sessions
         /\ status[jobs[j].session] \notin {"new", "deleted"}
<1>1. jobs[j].session \in Sessions
  BY SessionOfRow
<1>2. Named(jobs[j].session)
  BY DEF Named
<1>3. QED
  BY <1>1, <1>2 DEF Accounts, Vacant

----------------------------------------------------------------------------
(* The user's operations, each of one session.                             *)

LEMMA InsertKeepsAccounts ==
  ASSUME IInv, Accounts, NEW s \in Sessions, NEW p \in Payloads, NEW stage,
         Insert(s, p, stage), UNCHANGED <<docs, run>>, run.pc # "session-ready",
         \/ status[s] = "new" /\ status' = [status EXCEPT ![s] = "processing"]
         \/ transcript[s].rev > 0 /\ status' = status
  PROVE  Accounts'
<1> DEFINE new == created + 1
<1>1. /\ jobs' = [jobs EXCEPT ![new] = [status |-> "queued", stage |-> stage,
                    attempt |-> 0, session |-> s, payload |-> p]]
      /\ new \in JobIds
  BY ConstantsAssumption DEF Insert, IInv, TypeOK, JobIds
<1>2. jobs[new].status = "none"
  BY <1>1, SessionOfRow, ConstantsAssumption DEF IInv, TypeOK, Row
<1>3. /\ \A j \in JobIds : j # new => jobs'[j] = jobs[j]
      /\ jobs'[new].session = s /\ jobs'[new].status = "queued"
  BY <1>1 DEF IInv, TypeOK
<1>4. RunFollows
  <2>1. CASE run = NoRun
    BY <2>1 DEF RunFollows
  <2>2. CASE run # NoRun
    <3>1. run.job # new /\ run.job \in JobIds
      BY <2>2, <1>1, RunningJob, ConstantsAssumption DEF RunIsOfAJob, IInv, TypeOK
    <3>2. QED
      BY <1>3, <3>1 DEF RunFollows
  <2>3. QED
    BY <2>1, <2>2
<1> HIDE DEF new
<1>5. SessionKept(s)
  <2>1. Working(s)'
    BY <1>1, <1>3 DEF Working
  <2>2. status'[s] \notin {"new", "deleted"} /\ status[s] # "deleted"
    <3>1. transcript[s].rev > 0 => status[s] \notin {"new", "deleted"}
      BY DEF Accounts, Vacant
    <3>2. QED
      BY <3>1 DEF IInv, TypeOK
  <2>3. QED
    BY <2>1, <2>2 DEF SessionKept
<1>6. ASSUME NEW r \in Sessions, r # s PROVE SessionKept(r)
  <2>1. status'[r] = status[r] /\ UNCHANGED <<transcript, summary>>
    BY <1>6 DEF IInv, TypeOK, docs
  <2>2. Named(r)' => Named(r)
    BY <1>1, <1>3, <1>6 DEF Named
  <2>3. Working(r) => Working(r)'
    BY <1>1, <1>2, <1>3, <1>6 DEF Working
  <2>4. QED
    BY <2>1, <2>2, <2>3 DEF SessionKept
<1>7. QED
  BY <1>4, <1>5, <1>6, KeepsAccounts

\* A step of the user that keeps every row, and sets the signal of a run at most.
LEMMA RunIsKept ==
  ASSUME IInv, run.pc # "session-ready",
         run' = run \/ (run # NoRun /\ run' = [run EXCEPT !.aborted = TRUE]),
         \A j \in JobIds : jobs'[j].status = "none" => jobs[j].status = "none"
  PROVE  RunFollows
<1>1. CASE run' = NoRun
  BY <1>1 DEF RunFollows
<1>2. CASE run' # NoRun
  <2>1. /\ run # NoRun /\ run'.job = run.job /\ run'.session = run.session
        /\ run'.pc = run.pc
    BY <1>2 DEF IInv, TypeOK, Run
  <2>2. run.job \in JobIds
    BY <2>1, RunningJob DEF IInv
  <2>3. QED
    BY <2>1, <2>2 DEF RunFollows
<1>3. QED
  BY <1>1, <1>2

LEMMA LoopIsFree ==
  ASSUME Serving
  PROVE  run.pc # "session-ready" /\ run.pc # "caught"
BY DEF Serving, SyncSteps

LEMMA RetryKeepsAccounts ==
  ASSUME IInv, Accounts, NEW j \in JobIds, Retry(j)
  PROVE  Accounts'
<1>1. /\ jobs' = [jobs EXCEPT
              ![j] = [jobs[j] EXCEPT !.status = "queued", !.attempt = @ + 1]]
      /\ UNCHANGED <<status, transcript, summary, run>>
      /\ jobs[j].status \in {"failed", "cancelled"}
  BY DEF Retry, docs, IInv, TypeOK
<1>2. jobs \in [JobIds -> Row]
  BY DEF IInv, TypeOK
<1>3. \A k \in JobIds : jobs'[k] = IF k = j
        THEN [jobs[j] EXCEPT !.status = "queued", !.attempt = @ + 1] ELSE jobs[k]
  BY <1>1, <1>2
<1>4. \A k \in JobIds : /\ jobs'[k].session = jobs[k].session
                        /\ jobs'[k].status = IF k = j THEN "queued" ELSE jobs[k].status
  BY <1>2, <1>3 DEF Row
<1>5. RunFollows
  BY <1>1, <1>4, RunIsKept, LoopIsFree DEF Retry
<1>6. ASSUME NEW s \in Sessions PROVE SessionKept(s)
  BY <1>1, <1>4, RowsKeepSessions
<1>7. QED
  BY <1>5, <1>6, KeepsAccounts

\* Unfinished rows of session s are cancelled, and it is interrupted if none is left.
LEMMA CancelsKeepSessions ==
  ASSUME IInv, NEW s \in Sessions, NEW S \in SUBSET JobIds,
         \A k \in S : jobs[k].session = s,
         \A k \in JobIds :
           /\ jobs'[k].session = jobs[k].session
           /\ jobs'[k].status = IF k \in S THEN "cancelled" ELSE jobs[k].status,
         status' = StatusAfterCancel(s, Active(jobs, s) \ S),
         UNCHANGED docs, NEW r \in Sessions
  PROVE  SessionKept(r)
<1>0. UNCHANGED <<transcript, summary>>
  BY DEF docs
<1>1. CASE r # s
  <2>1. status'[r] = status[r]
    BY <1>1 DEF StatusAfterCancel, IInv, TypeOK
  <2>2. (Named(r)' <=> Named(r)) /\ (Working(r) => Working(r)')
    BY <1>1, NamedStays, WorkingStays
  <2>3. QED
    BY <1>0, <2>1, <2>2 DEF SessionKept
<1>2. CASE r = s /\ status[s] = "processing" /\ Active(jobs, s) \subseteq S
  <2>1. Active(jobs, s) \ S = {}
    BY <1>2
  <2>2. status'[s] = "interrupted" /\ status[s] # "deleted"
    BY <1>2, <2>1 DEF StatusAfterCancel, IInv, TypeOK
  <2>3. QED
    BY <1>2, <2>2, SessionSettles
<1>3. CASE r = s /\ ~(status[s] = "processing" /\ Active(jobs, s) \subseteq S)
  <2>1. status' = status
    BY <1>3 DEF StatusAfterCancel
  <2>2. Named(s)' <=> Named(s)
    BY NamedStays
  <2>3. status[s] = "processing" => Working(s)'
    BY <1>3 DEF Working, Active
  <2>4. QED
    BY <1>0, <1>3, <2>1, <2>2, <2>3 DEF SessionKept
<1>4. QED
  BY <1>1, <1>2, <1>3

LEMMA CancelKeepsAccounts ==
  ASSUME IInv, Accounts, NEW j \in JobIds, Cancel(j)
  PROVE  Accounts'
<1>1. jobs \in [JobIds -> Row] /\ jobs' = [jobs EXCEPT ![j].status = "cancelled"]
  BY DEF Cancel, SetStatus, IInv, TypeOK
<1>2. \A k \in JobIds :
        /\ jobs'[k].session = jobs[k].session
        /\ jobs'[k].status = IF k \in {j} THEN "cancelled" ELSE jobs[k].status
  BY <1>1 DEF Row
<1>3. jobs[j].session \in Sessions
  BY SessionOfRow DEF Cancel
<1>4. run' = run \/ (run # NoRun /\ run' = [run EXCEPT !.aborted = TRUE])
  BY ConstantsAssumption DEF Cancel, NoRun, JobIds
<1>5. RunFollows
  BY <1>2, <1>4, RunIsKept, LoopIsFree DEF Cancel
<1>6. ASSUME NEW r \in Sessions PROVE SessionKept(r)
  <2> DEFINE s == jobs[j].session
             S == {j}
  <2>1. /\ s \in Sessions /\ S \in SUBSET JobIds /\ \A k \in S : jobs[k].session = s
        /\ status' = StatusAfterCancel(s, Active(jobs, s) \ S) /\ UNCHANGED docs
    BY <1>3 DEF Cancel
  <2>2. \A k \in JobIds :
          /\ jobs'[k].session = jobs[k].session
          /\ jobs'[k].status = IF k \in S THEN "cancelled" ELSE jobs[k].status
    BY <1>2
  <2> HIDE DEF s, S
  <2>3. QED
    BY <2>1, <2>2, CancelsKeepSessions
<1>7. QED
  BY <1>5, <1>6, KeepsAccounts

LEMMA DeleteBeginKeepsAccounts ==
  ASSUME IInv, Accounts, NEW s \in Sessions, DeleteBegin(s)
  PROVE  Accounts'
<1> DEFINE mine == Active(jobs, s)
<1>1. /\ mine \in SUBSET JobIds /\ \A k \in mine : jobs[k].session = s
      /\ run' = run \/ (run # NoRun /\ run' = [run EXCEPT !.aborted = TRUE])
  BY ConstantsAssumption DEF DeleteBegin, Active, NoRun, JobIds
<1>2. \A k \in JobIds :
        /\ jobs'[k].session = jobs[k].session
        /\ jobs'[k].status = IF k \in mine THEN "cancelled" ELSE jobs[k].status
  <2>1. \A k \in JobIds : jobs'[k] =
          IF k \in mine THEN [jobs[k] EXCEPT !.status = "cancelled"] ELSE jobs[k]
    BY DEF DeleteBegin
  <2>2. \A k \in JobIds : jobs[k] \in Row
    BY DEF IInv, TypeOK
  <2> HIDE DEF mine
  <2>3. QED
    BY <2>1, <2>2 DEF Row
<1>3. RunFollows
  BY <1>1, <1>2, RunIsKept, LoopIsFree DEF DeleteBegin
<1>4. ASSUME NEW r \in Sessions PROVE SessionKept(r)
  <2>1. CASE mine = {}
    <3>1. UNCHANGED <<status, transcript, summary>>
      BY <2>1 DEF DeleteBegin, docs
    <3>2. QED
      BY <1>2, <2>1, <3>1, RowsKeepSessions
  <2>2. CASE mine # {}
    <3>1. status' = StatusAfterCancel(s, Active(jobs, s) \ mine)
      <4>1. Active(jobs, s) \ mine = {}
        OBVIOUS
      <4>2. QED
        BY <2>2, <4>1 DEF DeleteBegin
    <3>2. UNCHANGED docs
      BY DEF DeleteBegin
    <3>3. QED
      BY <1>1, <1>2, <3>1, <3>2, CancelsKeepSessions
  <2>3. QED
    BY <2>1, <2>2
<1>5. QED
  BY <1>3, <1>4, KeepsAccounts

\* The rows and documents of a session go with it.
LEMMA DeleteEndKeepsAccounts ==
  ASSUME IInv, Results, Accounts, NEW s \in Sessions, DeleteEnd(s)
  PROVE  Accounts'
<1>1. \A k \in JobIds : jobs'[k] = IF jobs[k].session = s THEN NoRow ELSE jobs[k]
  BY DEF DeleteEnd
<1>2. UNCHANGED run /\ run.pc # "session-ready"
  BY LoopIsFree DEF DeleteEnd
<1>3. /\ status'[s] = "deleted" /\ transcript'[s].rev = 0 /\ summary'[s].rev = 0
      /\ \A r \in Sessions : r # s =>
           /\ status'[r] = status[r]
           /\ transcript'[r] = transcript[r] /\ summary'[r] = summary[r]
  BY DEF DeleteEnd, IInv, TypeOK, NoTranscript, NoSummary
<1>4. ASSUME NEW r \in Sessions, r # s PROVE SessionKept(r)
  <2>1. (Named(r)' => Named(r)) /\ (Working(r) => Working(r)')
    BY <1>1, <1>4, ConstantsAssumption DEF Named, Working, NoRow
  <2>2. QED
    BY <1>3, <1>4, <2>1 DEF SessionKept
<1>5. ~Named(s)'
  BY <1>1, ConstantsAssumption DEF Named, NoRow
<1>6. \A r \in Sessions : Accounted(r)' /\ Vacant(r)'
  <2>1. Accounted(s)' /\ Vacant(s)'
    BY <1>3, <1>5 DEF Accounted, Vacant
  <2>2. ASSUME NEW r \in Sessions, r # s PROVE Accounted(r)'
    BY <1>4, <2>2 DEF Accounts, SessionKept, Accounted
  <2>3. ASSUME NEW r \in Sessions, r # s PROVE Vacant(r)'
    BY <1>4, <2>3 DEF Accounts, SessionKept, Vacant
  <2>4. QED
    BY <2>1, <2>2, <2>3
<1>7. RunIsAccounted'
  <2>1. CASE run = NoRun
    BY <1>2, <2>1 DEF RunIsAccounted
  <2>2. CASE run # NoRun
    <3>1. run.session \in Sessions /\ run.job \in JobIds
      BY <2>2, RunningJob DEF IInv, RunIsOfAJob
    <3>2. CASE run.session = s
      BY <1>2, <1>3, <3>2 DEF RunIsAccounted
    <3>3. CASE run.session # s
      <4>1. jobs'[run.job].status = "none" =>
              jobs[run.job].status = "none" \/ jobs[run.job].session = s
        BY <1>1, <3>1
      <4>2. jobs[run.job].status = "none" => status[run.session] = "deleted"
        BY <2>2 DEF Accounts, RunIsAccounted
      <4>3. jobs[run.job].status # "none" => jobs[run.job].session = run.session
        BY <2>2 DEF Results, RunHasResults
      <4>4. QED
        BY <1>2, <1>3, <3>1, <3>3, <4>1, <4>2, <4>3 DEF RunIsAccounted
    <3>4. QED
      BY <3>2, <3>3
  <2>3. QED
    BY <2>1, <2>2
<1>8. QED
  BY <1>6, <1>7 DEF Accounts

LEMMA UserKeepsAccounts ==
  ASSUME IInv, Results, Accounts, UserStep, ~Reopens
  PROVE  Accounts'
<1>1. ASSUME NEW s \in Sessions, NEW p \in Payloads, Enqueue(s, p) PROVE Accounts'
  BY <1>1, InsertKeepsAccounts, LoopIsFree DEF Enqueue
<1>2. ASSUME NEW s \in Sessions, NEW p \in Payloads, GenerateSummary(s, p)
      PROVE  Accounts'
  BY <1>2, InsertKeepsAccounts, LoopIsFree DEF GenerateSummary
<1>3. ASSUME NEW s \in Sessions, EnqueueRejected(s) \/ EditSummary(s)
      PROVE  Accounts'
  <2>1. UNCHANGED <<jobs, run, transcript>>
    BY <1>3 DEF EnqueueRejected, EditSummary, docs
  <2>2. RunFollows
    BY <1>3, <2>1, RunIsKept, LoopIsFree DEF EnqueueRejected, EditSummary
  <2>3. /\ status[s] # "deleted" /\ status'[s] \in {"ready", "failed"}
        /\ \A r \in Sessions : r # s => status'[r] = status[r] /\ summary'[r] = summary[r]
    <3>1. CASE EnqueueRejected(s)
      BY <3>1 DEF EnqueueRejected, IInv, TypeOK, docs
    <3>2. CASE EditSummary(s)
      <4>1. summary[s].rev \in 1..(MaxRevision - 1)
        BY <3>2 DEF EditSummary
      <4>2. summary[s].rev # 0
        BY <4>1
      <4>3. status[s] # "deleted"
        BY <4>2 DEF Accounts, Vacant
      <4>4. QED
        BY <3>2, <4>3 DEF EditSummary, IInv, TypeOK
    <3>3. QED
      BY <1>3, <3>1, <3>2
  <2>4. ASSUME NEW r \in Sessions PROVE SessionKept(r)
    BY <2>1, <2>3, SessionSettles, RowsKeepSessions
  <2>5. QED
    BY <2>2, <2>4, KeepsAccounts
<1>4. ASSUME NEW s \in Sessions, EditTranscript(s) PROVE Accounts'
  BY <1>4 DEF Reopens
<1>5. QED
  BY <1>1, <1>2, <1>3, <1>4, DeleteBeginKeepsAccounts, DeleteEndKeepsAccounts,
     RetryKeepsAccounts, CancelKeepsAccounts DEF UserStep

----------------------------------------------------------------------------
(* The steps of a run.                                                     *)

\* A suspended run moves on, and its session keeps its status.
LEMMA GoesOnKeepsAccounts ==
  ASSUME IInv, Accounts, RowsKeep, RunGoesOn, UNCHANGED <<status, transcript, summary>>,
         run'.pc # "session-ready"
  PROVE  Accounts'
<1>1. run.job \in JobIds
  BY RunningJob DEF RunGoesOn, IInv
<1>2. RunFollows
  BY <1>1 DEF RunFollows, RunGoesOn, RowsKeep
<1>3. ASSUME NEW s \in Sessions PROVE SessionKept(s)
  BY RowsKeepSessions DEF RowsKeep
<1>4. QED
  BY <1>2, <1>3, KeepsAccounts

\* A run that is not aborted and whose session is there has its row, running.
LEMMA RunHasItsRow ==
  ASSUME IInv, Results, Accounts, run # NoRun, ~run.aborted, Present(run.session)
  PROVE  jobs[run.job].status = "running" /\ jobs[run.job].session = run.session
<1>1. jobs[run.job].status # "none"
  BY DEF Accounts, RunIsAccounted, Present
<1>2. QED
  BY <1>1 DEF IInv, RunKeepsItsRow, Results, RunHasResults

\* A transcript is saved by a run that is not aborted, or is not saved.
LEMMA SaveKeepsAccounts ==
  ASSUME IInv, Results, Accounts, run # NoRun, NEW stage, SaveTranscript(stage),
         UNCHANGED <<app, created, queue, summary>>,
         run.aborted => transcript' = transcript
  PROVE  Accounts'
<1>1. /\ RowsKeep /\ RunGoesOn /\ run.job \in JobIds /\ run.session \in Sessions
      /\ run'.pc # "session-ready"
  <2>1. RowsKeep /\ RunGoesOn
    BY SaveTranscriptIsQuiet DEF IInv
  <2>2. run'.pc \in {"caught", "transcript-saved"}
    BY DEF SaveTranscript, Goto, IInv, TypeOK, Run
  <2>3. QED
    BY <2>1, <2>2, RunningJob DEF IInv, RunIsOfAJob
<1>2. CASE ~Present(run.session)
  BY <1>1, <1>2, GoesOnKeepsAccounts DEF SaveTranscript
<1>3. CASE Present(run.session)
  <2>1. /\ transcript' = [transcript EXCEPT ![run.session] =
             [rev |-> transcript[run.session].rev + 1,
              model |-> run.payload.transcriber]]
        /\ status' = [status EXCEPT ![run.session] = "processing"]
    BY <1>3 DEF SaveTranscript
  <2>2. transcript'[run.session].rev # transcript[run.session].rev
    BY <1>1, <2>1 DEF IInv, TypeOK, TranscriptRow
  <2>3. jobs[run.job].status = "running" /\ jobs[run.job].session = run.session
    BY <1>3, <2>2, RunHasItsRow
  <2>4. ASSUME NEW s \in Sessions, s = run.session PROVE SessionKept(s)
    <3>1. Working(s)'
      <4>1. jobs'[run.job].status = "running" /\ jobs'[run.job].session = s
        BY <1>1, <2>3, <2>4 DEF RowsKeep
      <4>2. QED
        BY <1>1, <4>1 DEF Working
    <3>2. status[s] # "deleted" /\ status'[s] = "processing"
      BY <1>1, <1>3, <2>1, <2>4 DEF Present, IInv, TypeOK
    <3>3. QED
      BY <3>1, <3>2 DEF SessionKept
  <2>5. ASSUME NEW s \in Sessions, s # run.session PROVE SessionKept(s)
    <3>1. status'[s] = status[s] /\ transcript'[s] = transcript[s] /\ UNCHANGED summary
      BY <2>1, <2>5 DEF IInv, TypeOK
    <3>2. QED
      BY <1>1, <3>1, RowsKeepSessions DEF RowsKeep
  <2>6. RunFollows
    BY <1>1 DEF RunFollows, RunGoesOn, RowsKeep
  <2>7. QED
    BY <2>4, <2>5, <2>6, KeepsAccounts
<1>4. QED
  BY <1>2, <1>3

LEMMA WorkKeepsAccounts ==
  ASSUME IInv, Results, Accounts, ~Reopens,
         \/ Reject \/ Probed \/ Proxied \/ Extracted \/ Transcribed
         \/ DiarizationChecked \/ Diarized \/ PcmRemoved \/ Continue
  PROVE  Accounts'
<1>1. RowsKeep /\ RunGoesOn /\ run # NoRun /\ run.pc # "session-ready"
  <2>1. RowsKeep /\ RunGoesOn
    BY QuietSteps DEF IInv, QuietStep
  <2>2. run.pc # "session-ready"
    BY DEF Reject, Probed, Proxied, Extracted, Transcribed, DiarizationChecked,
           Diarized, PcmRemoved, Continue, At
  <2>3. QED
    BY <2>1, <2>2 DEF RunGoesOn
<1>2. UNCHANGED <<app, created, queue, summary>>
  BY DEF Reject, Probed, Proxied, Extracted, Transcribed, DiarizationChecked,
         Diarized, PcmRemoved, Continue, docs
<1>3. \A pc : Goto(pc) => run'.pc = pc
  BY DEF Goto, IInv, TypeOK, Run
<1>4. CASE Reject \/ Probed \/ Proxied \/ Extracted \/ Continue
  <2>1. UNCHANGED <<status, transcript>>
    BY <1>4 DEF Reject, Probed, Proxied, Extracted, Continue, docs
  <2>2. run'.pc # "session-ready"
    <3>1. CASE Extracted /\ Reusable
      BY <3>1 DEF Extracted, IInv, TypeOK, Run
    <3>2. CASE ~(Extracted /\ Reusable)
      BY <1>3, <1>4, <3>2 DEF Reject, Probed, Proxied, Extracted, Continue, Suspend
    <3>3. QED
      BY <3>1, <3>2
  <2>3. QED
    BY <1>1, <1>2, <2>1, <2>2, GoesOnKeepsAccounts
<1>5. \A stage : SaveTranscript(stage) /\ (run.aborted => transcript' = transcript)
                   => Accounts'
  BY <1>1, <1>2, SaveKeepsAccounts
<1>6. \A pc \in {"diarization-status", "diarize", "remove-pcm", "caught"} :
        Goto(pc) /\ UNCHANGED <<status, transcript>> => Accounts'
  BY <1>1, <1>2, <1>3, GoesOnKeepsAccounts
<1>7. CASE Transcribed
  BY <1>5, <1>6, <1>7 DEF Transcribed
<1>8. CASE DiarizationChecked
  BY <1>5, <1>6, <1>8 DEF DiarizationChecked
<1>9. CASE Diarized
  BY <1>5, <1>6, <1>9 DEF Diarized
<1>10. CASE PcmRemoved
  BY <1>5, <1>6, <1>10 DEF PcmRemoved, Reopens, LateSave
<1>11. QED
  BY <1>4, <1>7, <1>8, <1>9, <1>10

\* A summary makes its session ready.
LEMMA SummarizedKeepsAccounts ==
  ASSUME IInv, Accounts, Summarized
  PROVE  Accounts'
<1>1. RowsKeep /\ RunGoesOn /\ UNCHANGED transcript
  BY QuietSteps DEF IInv, QuietStep, Summarized
<1>2. run.session \in Sessions /\ run.job \in JobIds /\ run # NoRun
  BY <1>1, RunningJob DEF IInv, RunIsOfAJob, RunGoesOn
<1>3. run'.pc # "session-ready"
  BY DEF Summarized, Goto, IInv, TypeOK, Run
<1>4. CASE ~Present(run.session)
  BY <1>1, <1>3, <1>4, GoesOnKeepsAccounts DEF Summarized
<1>5. CASE Present(run.session)
  <2>1. /\ status[run.session] # "deleted" /\ status'[run.session] = "ready"
        /\ \A s \in Sessions : s # run.session =>
             status'[s] = status[s] /\ summary'[s] = summary[s]
    BY <1>2, <1>5 DEF Summarized, Present, IInv, TypeOK
  <2>2. ASSUME NEW s \in Sessions PROVE SessionKept(s)
    <3>1. CASE s = run.session
      BY <2>1, <3>1, SessionSettles
    <3>2. CASE s # run.session
      BY <1>1, <2>1, <3>2, RowsKeepSessions DEF RowsKeep
    <3>3. QED
      BY <3>1, <3>2
  <2>3. RunFollows
    BY <1>1, <1>2, <1>3 DEF RunFollows, RunGoesOn, RowsKeep
  <2>4. QED
    BY <2>2, <2>3, KeepsAccounts
<1>6. QED
  BY <1>4, <1>5

\* A run returns: its session becomes ready before its job succeeds, or it unwinds.
LEMMA ReturnKeepsAccounts ==
  ASSUME IInv, Results, Accounts, Returned \/ WorkRemoved
  PROVE  Accounts'
<1>1. /\ run # NoRun /\ run.job \in JobIds /\ run.session \in Sessions
      /\ UNCHANGED <<jobs, transcript, summary>>
  <2>1. run # NoRun
    BY DEF Returned, WorkRemoved, At, NoRun
  <2>2. QED
    BY <2>1, RunningJob DEF Returned, WorkRemoved, docs, IInv, RunIsOfAJob
<1>2. \A pc : Goto(pc) => run'.pc = pc /\ run'.job = run.job /\ run'.session = run.session
  BY DEF Goto, IInv, TypeOK, Run
<1>3. CASE UNCHANGED status /\ (run' = NoRun \/ Goto("caught") \/ Goto("remove-work"))
  <2>1. RunFollows
    BY <1>1, <1>2, <1>3 DEF RunFollows
  <2>2. ASSUME NEW s \in Sessions PROVE SessionKept(s)
    BY <1>1, <1>3, RowsKeepSessions
  <2>3. QED
    BY <2>1, <2>2, KeepsAccounts
<1>4. CASE /\ Goto("session-ready") /\ jobs[run.job].status # "none"
           /\ status' = [status EXCEPT ![run.session] = "ready"]
  <2>1. status[run.session] # "deleted"
    BY <1>1, <1>4, RowsArePresent DEF Results, RunHasResults
  <2>2. /\ status'[run.session] = "ready"
        /\ \A s \in Sessions : s # run.session => status'[s] = status[s]
    BY <1>1, <1>4 DEF IInv, TypeOK
  <2>3. RunFollows
    BY <1>1, <1>2, <1>4, <2>2 DEF RunFollows
  <2>4. ASSUME NEW s \in Sessions PROVE SessionKept(s)
    <3>1. CASE s = run.session
      BY <2>1, <2>2, <3>1, SessionSettles
    <3>2. CASE s # run.session
      BY <1>1, <2>2, <3>2, RowsKeepSessions
    <3>3. QED
      BY <3>1, <3>2
  <2>5. QED
    BY <2>3, <2>4, KeepsAccounts
<1>5. QED
  BY <1>3, <1>4 DEF Returned, WorkRemoved

\* The run ends and one row, its own, takes a status.
LEMMA EndRow ==
  ASSUME IInv, NEW st \in JobStatuses, jobs' = SetStatus(jobs, run.job, st),
         run.job \in JobIds
  PROVE  \A k \in JobIds :
           /\ jobs'[k].session = jobs[k].session
           /\ jobs'[k].status = IF k = run.job THEN st ELSE jobs[k].status
<1>1. jobs \in [JobIds -> Row]
  BY DEF IInv, TypeOK
<1>2. \A k \in JobIds :
        jobs'[k] = IF k = run.job THEN [jobs[run.job] EXCEPT !.status = st] ELSE jobs[k]
  BY <1>1 DEF SetStatus
<1>3. QED
  BY <1>1, <1>2 DEF Row

\* A job that ends with its session out of processing leaves nothing unaccounted.
LEMMA EndSettles ==
  ASSUME IInv, Results, Accounts, run # NoRun, jobs[run.job].status # "none",
         NEW st \in JobStatuses, jobs' = SetStatus(jobs, run.job, st),
         UNCHANGED <<transcript, summary>>, run' = NoRun,
         status'[run.session] # "processing",
         \/ status' = status
         \/ status' = [status EXCEPT ![run.session] = "failed"]
  PROVE  Accounts'
<1>1. /\ run.job \in JobIds /\ run.session \in Sessions
      /\ jobs[run.job].session = run.session
  BY RunningJob DEF IInv, RunIsOfAJob, Results, RunHasResults
<1>2. \A k \in JobIds :
        /\ jobs'[k].session = jobs[k].session
        /\ jobs'[k].status = IF k = run.job THEN st ELSE jobs[k].status
  BY <1>1, EndRow
<1>3. status[run.session] \notin {"new", "deleted"}
  BY <1>1, RowsArePresent
<1>4. status'[run.session] \notin {"new", "deleted", "processing"}
      /\ \A s \in Sessions : s # run.session => status'[s] = status[s]
  BY <1>1, <1>3 DEF IInv, TypeOK
<1>5. ASSUME NEW s \in Sessions PROVE SessionKept(s)
  <2>1. CASE s = run.session
    BY <1>3, <1>4, <2>1 DEF SessionKept
  <2>2. CASE s # run.session
    <3>1. (Named(s)' <=> Named(s)) /\ (Working(s) => Working(s)')
      BY <1>1, <1>2, <2>2, NamedStays, WorkingStays
    <3>2. QED
      BY <1>4, <2>2, <3>1 DEF SessionKept
  <2>3. QED
    BY <2>1, <2>2
<1>6. QED
  BY <1>5, KeepsAccounts DEF RunFollows

LEMMA EndKeepsAccounts ==
  ASSUME IInv, Results, Accounts, Succeed \/ Caught
  PROVE  Accounts'
<1>1. run # NoRun /\ run' = NoRun /\ UNCHANGED <<transcript, summary, docs>>
  BY DEF Succeed, Caught, At, NoRun, docs
<1>2. run.job \in JobIds /\ run.session \in Sessions
  BY <1>1, RunningJob DEF IInv, RunIsOfAJob
<1>3. RunFollows
  BY <1>1 DEF RunFollows
<1>4. CASE Succeed
  <2>1. /\ run.pc = "session-ready" /\ UNCHANGED status
        /\ jobs' = SetStatus(jobs, run.job, "succeeded")
    BY <1>4 DEF Succeed, At
  <2>2. status[run.session] # "processing" /\ jobs[run.job].status # "none"
    BY <1>1, <2>1 DEF Accounts, RunIsAccounted, IInv, RunKeepsItsRow
  <2>3. QED
    BY <1>1, <2>1, <2>2, EndSettles DEF JobStatuses
<1>5. CASE UNCHANGED <<jobs, status>>
  <2>1. ASSUME NEW s \in Sessions PROVE SessionKept(s)
    BY <1>1, <1>5, RowsKeepSessions
  <2>2. QED
    BY <1>3, <2>1, KeepsAccounts
<1>6. CASE UNCHANGED status /\ jobs' = SetStatus(jobs, run.job, "queued")
  <2>1. \A k \in JobIds :
          /\ jobs'[k].session = jobs[k].session
          /\ jobs'[k].status = IF k = run.job THEN "queued" ELSE jobs[k].status
    BY <1>2, <1>6, EndRow DEF JobStatuses
  <2>2. ASSUME NEW s \in Sessions PROVE SessionKept(s)
    BY <1>1, <1>6, <2>1, RowsKeepSessions
  <2>3. QED
    BY <1>3, <2>2, KeepsAccounts
<1>7. CASE /\ Exists(run.job)
           /\ status' = [status EXCEPT ![run.session] = "failed"]
           /\ jobs' = SetStatus(jobs, run.job, "failed")
  <2>1. status'[run.session] # "processing"
    BY <1>2, <1>7 DEF IInv, TypeOK
  <2>2. QED
    BY <1>1, <1>7, <2>1, EndSettles DEF Exists, JobStatuses
<1>8. CASE /\ Exists(run.job)
           /\ status' = StatusAfterCancel(run.session, Active(jobs, run.session) \ {run.job})
           /\ jobs' = SetStatus(jobs, run.job, "cancelled")
  <2> DEFINE s == run.session
             S == {run.job}
  <2>1. /\ s \in Sessions /\ S \in SUBSET JobIds /\ \A k \in S : jobs[k].session = s
        /\ status' = StatusAfterCancel(s, Active(jobs, s) \ S) /\ UNCHANGED docs
    BY <1>1, <1>2, <1>8 DEF Exists, Results, RunHasResults
  <2>2. \A k \in JobIds :
          /\ jobs'[k].session = jobs[k].session
          /\ jobs'[k].status = IF k \in S THEN "cancelled" ELSE jobs[k].status
    BY <1>2, <1>8, EndRow DEF JobStatuses
  <2> HIDE DEF s, S
  <2>3. \A r \in Sessions : SessionKept(r)
    BY <2>1, <2>2, CancelsKeepSessions
  <2>4. QED
    BY <1>3, <2>3, KeepsAccounts
<1>9. QED
  BY <1>4, <1>5, <1>6, <1>7, <1>8 DEF Caught

----------------------------------------------------------------------------
(* The promise chain and the process.                                      *)

LEMMA StartKeepsAccounts ==
  ASSUME IInv, Accounts, StartTask
  PROVE  Accounts'
<1> DEFINE j == Head(queue)
           s == jobs[j].session
<1>1. /\ j \in JobIds /\ jobs[j].status = "queued" /\ jobs[j] \in Row
      /\ jobs \in [JobIds -> Row]
      /\ UNCHANGED <<summary, transcript>>
      /\ status' = [status EXCEPT ![s] = "processing"]
  BY DEF StartTask, IInv, TypeOK, docs
<1>2. /\ jobs'[j].session = s /\ jobs'[j].status = "running"
      /\ \A k \in JobIds : k # j => jobs'[k] = jobs[k]
  BY <1>1 DEF StartTask, Row
<1>3. run'.job = j /\ run'.pc # "session-ready"
  BY DEF StartTask
<1> HIDE DEF j
<1>4. s \in Sessions /\ status[s] # "deleted"
  BY <1>1, RowsArePresent
<1>5. /\ status'[s] = "processing"
      /\ \A r \in Sessions : r # s => status'[r] = status[r]
  BY <1>1, <1>4 DEF IInv, TypeOK
<1>6. ASSUME NEW r \in Sessions PROVE SessionKept(r)
  <2>1. \A k \in JobIds :
          /\ jobs'[k].session = jobs[k].session
          /\ jobs[k].status \in {"queued", "running"} =>
               jobs'[k].status \in {"queued", "running"}
    BY <1>1, <1>2
  <2>2. CASE r = s
    <3>1. Working(r)'
      BY <1>1, <1>2, <2>2 DEF Working
    <3>2. QED
      BY <1>4, <1>5, <2>2, <3>1 DEF SessionKept
  <2>3. CASE r # s
    BY <1>1, <1>5, <2>1, <2>3, RowsKeepSessions
  <2>4. QED
    BY <2>2, <2>3
<1>7. RunIsAccounted'
  BY <1>2, <1>3 DEF RunIsAccounted
<1>8. QED
  BY <1>6, <1>7, SessionsKept DEF Accounts

\* A crash between two commits has interrupted or failed a session whose job it
\* found unfinished, or marked one processing that has no job yet.
LEMMA MidwayKeepsAccounts ==
  ASSUME IInv, Results, Accounts, CrashMidway
  PROVE  Accounts'
<1>1. run' = NoRun /\ UNCHANGED <<jobs, transcript, summary>>
  BY DEF CrashMidway, Stopped, docs
<1>2. \A r \in Sessions : (Named(r)' <=> Named(r)) /\ (Working(r) => Working(r)')
  BY <1>1 DEF Named, Working
<1>3. \A r \in Sessions : status'[r] = status[r] => SessionKept(r)
  BY <1>1, RowsKeepSessions
<1>4. ASSUME NEW s \in Sessions, status[s] = "new",
             status' = [status EXCEPT ![s] = "processing"], NEW r \in Sessions
      PROVE  SessionKept(r)
  <2>1. CASE r = s
    <3>1. ~Named(r)' /\ status[r] # "deleted" /\ status'[r] = "processing"
      BY <1>2, <1>4, <2>1 DEF Accounts, Vacant, IInv, TypeOK
    <3>2. QED
      BY <3>1 DEF SessionKept
  <2>2. CASE r # s
    BY <1>3, <1>4, <2>2 DEF IInv, TypeOK
  <2>3. QED
    BY <2>1, <2>2
<1>5. ASSUME NEW s, NEW others, status' = StatusAfterCancel(s, others),
             NEW r \in Sessions
      PROVE  SessionKept(r)
  <2>1. status'[r] = status[r] \/ (status[r] = "processing" /\ status'[r] = "interrupted")
    BY <1>5 DEF StatusAfterCancel, IInv, TypeOK
  <2>2. QED
    BY <1>3, <2>1, SessionSettles
<1>6. ASSUME Exists(run.job), At("caught"),
             status' = [status EXCEPT ![run.session] = "failed"],
             NEW r \in Sessions
      PROVE  SessionKept(r)
  <2>1. run # NoRun
    BY <1>6 DEF At, NoRun
  <2>2. run.session \in Sessions /\ status[run.session] # "deleted"
    BY <1>6, <2>1, RunningJob, RowsArePresent
    DEF Exists, Results, RunHasResults, IInv, RunIsOfAJob
  <2>3. status'[r] = status[r] \/ (status[r] # "deleted" /\ status'[r] = "failed")
    BY <1>6, <2>2 DEF IInv, TypeOK
  <2>4. QED
    BY <1>3, <2>3, SessionSettles
<1>7. \A r \in Sessions : SessionKept(r)
  BY <1>4, <1>5, <1>6 DEF CrashMidway
<1>8. QED
  BY <1>1, <1>7, KeepsAccounts DEF RunFollows

LEMMA ProcessKeepsAccounts ==
  ASSUME IInv, Results, Accounts, SkipTask \/ Shutdown \/ Exit \/ Crash \/ Restart
  PROVE  Accounts'
<1>1. UNCHANGED <<status, transcript, summary>>
  BY DEF SkipTask, Shutdown, Exit, Crash, Restart, Stopped, docs
<1>2. \A j \in JobIds :
        /\ jobs'[j].session = jobs[j].session
        /\ jobs'[j].status = "none" => jobs[j].status = "none"
        /\ jobs[j].status \in {"queued", "running"} =>
             jobs'[j].status \in {"queued", "running"}
  <2>1. CASE Restart
    <3>1. \A j \in JobIds : jobs[j] \in Row /\
            jobs'[j] = IF jobs[j].status = "running"
                       THEN [jobs[j] EXCEPT !.status = "queued"] ELSE jobs[j]
      BY <2>1 DEF Restart, IInv, TypeOK
    <3>2. QED
      BY <3>1 DEF Row
  <2>2. CASE ~Restart
    BY <2>2 DEF SkipTask, Shutdown, Exit, Crash, Stopped
  <2>3. QED
    BY <2>1, <2>2
<1>3. RunFollows
  <2>1. CASE run' = NoRun
    BY <2>1 DEF RunFollows
  <2>2. CASE run' # NoRun
    <3>1. /\ run' = run \/ (run # NoRun /\ run' = [run EXCEPT !.aborted = TRUE])
          /\ run # NoRun
      BY <2>2 DEF SkipTask, Shutdown, Exit, Crash, Restart, Stopped
    <3>2. run.pc # "session-ready"
      BY <2>2, <3>1, LoopIsFree
      DEF SkipTask, Shutdown, Exit, Crash, Restart, Stopped, IInv, DownIsEmpty
    <3>3. QED
      BY <1>2, <3>1, <3>2, RunIsKept
  <2>3. QED
    BY <2>1, <2>2
<1>4. \A s \in Sessions : SessionKept(s)
  BY <1>1, <1>2, RowsKeepSessions
<1>5. QED
  BY <1>3, <1>4, KeepsAccounts

----------------------------------------------------------------------------

LEMMA InitHasAccounts == ASSUME Init PROVE Accounts
<1>1. \A s \in Sessions : status[s] = "new" /\ transcript[s].rev = 0 /\ summary[s].rev = 0
  BY DEF Init, NoTranscript, NoSummary
<1>2. \A s \in Sessions : ~Named(s)
  BY ConstantsAssumption DEF Init, Named, NoRow
<1>3. RunIsAccounted
  BY DEF Init, RunIsAccounted
<1>4. QED
  BY <1>1, <1>2, <1>3 DEF Accounts, Accounted, Vacant

LEMMA NextKeepsAccounts ==
  ASSUME IInv, Results, Accounts, [Next]_vars, [~Reopens]_vars
  PROVE  Accounts'
<1>1. CASE UNCHANGED vars
  BY <1>1 DEF vars, Accounts, Accounted, Vacant, Named, Working, RunIsAccounted
<1>2. CASE Next /\ ~Reopens
  <2>1. CASE RunStep
    BY <1>2, <2>1, WorkKeepsAccounts, SummarizedKeepsAccounts, ReturnKeepsAccounts,
       EndKeepsAccounts DEF RunStep
  <2>2. QED
    BY <1>2, <2>1, UserKeepsAccounts, StartKeepsAccounts, MidwayKeepsAccounts,
       ProcessKeepsAccounts DEF Next
<1>3. QED
  BY <1>1, <1>2

LEMMA ResultsHold == Spec => [](IInv /\ Results)
<1>1. Init => Results
  BY InitHasResults
<1>2. IInv /\ IInv' /\ Results /\ [Next]_vars => Results'
  BY NextKeepsResults
<1>3. QED
  BY <1>1, <1>2, Invariance, PTL DEF Spec

LEMMA AccountsSettle == ASSUME Accounts PROVE ProcessingHasActiveJob
<1>1. \A s \in Sessions : Named(s) /\ status[s] = "processing" => Working(s)
  BY DEF Accounts, Accounted
<1>2. \A s : Working(s) => Active(jobs, s) # {}
  BY DEF Working, Active
<1>3. QED
  BY <1>1, <1>2 DEF ProcessingHasActiveJob, Named

\* interruptSessionForCancelledJob() and the catch block of run(): of all the steps
\* the pipeline has, only an edited transcript and one that was saved although its run
\* was aborted leave a session processing behind its last unfinished job.
THEOREM OnlyTwoStepsReopen == Spec /\ [][~Reopens]_vars => []ProcessingHasActiveJob
<1>1. Init => Accounts
  BY InitHasAccounts
<1>2. IInv /\ Results /\ Accounts /\ [Next]_vars /\ [~Reopens]_vars => Accounts'
  BY NextKeepsAccounts
<1>3. Accounts => ProcessingHasActiveJob
  BY AccountsSettle
<1>4. QED
  BY <1>1, <1>2, <1>3, ResultsHold, PTL DEF Spec

\* Neither step is possible where nothing is diarized and no transcript is edited.
NotDiarizing == run.pc \notin {"diarization-status", "diarize", "remove-pcm"}

LEMMA LecturesAreNotDiarized ==
  ASSUME \A p \in Payloads : ~p.meeting, IInv, NotDiarizing, [Next]_vars
  PROVE  NotDiarizing'
<1>1. CASE run' = run \/ run' = NoRun \/ run' = [run EXCEPT !.aborted = TRUE]
  BY <1>1 DEF NotDiarizing, NoRun, IInv, TypeOK, Run
<1>2. ~run.payload.meeting
  BY DEF IInv, TypeOK, Run, NoPayload
<1>3. \A pc : Goto(pc) => run'.pc = pc
  BY DEF Goto, IInv, TypeOK, Run
<1>4. \A stage : SaveTranscript(stage) => NotDiarizing'
  BY <1>3 DEF SaveTranscript, NotDiarizing, IInv, TypeOK, Run
<1>5. CASE RunStep
  <2>1. CASE Reject \/ Probed \/ Proxied \/ Continue \/ Summarized
    BY <1>3, <2>1 DEF Reject, Probed, Proxied, Continue, Summarized, Suspend, NotDiarizing
  <2>2. CASE Extracted
    BY <1>3, <2>2 DEF Extracted, NotDiarizing, IInv, TypeOK, Run
  <2>3. CASE Transcribed
    BY <1>2, <1>4, <2>3 DEF Transcribed
  <2>4. CASE DiarizationChecked \/ Diarized \/ PcmRemoved
    BY <2>4 DEF DiarizationChecked, Diarized, PcmRemoved, At, NotDiarizing
  <2>5. CASE Returned \/ WorkRemoved \/ Succeed \/ Caught
    BY <1>1, <1>3, <2>5 DEF Returned, WorkRemoved, Succeed, Caught, NotDiarizing
  <2>6. QED
    BY <1>5, <2>1, <2>2, <2>3, <2>4, <2>5 DEF RunStep
<1>6. CASE StartTask
  BY <1>6 DEF StartTask, NotDiarizing
<1>7. CASE UserStep
  BY <1>1, <1>7
  DEF UserStep, Enqueue, EnqueueRejected, GenerateSummary, Retry, Cancel, DeleteBegin,
      DeleteEnd, EditTranscript, EditSummary
<1>8. CASE SkipTask \/ Shutdown \/ Exit \/ Crash \/ CrashMidway \/ Restart \/ UNCHANGED vars
  BY <1>1, <1>8 DEF SkipTask, Shutdown, Exit, Crash, CrashMidway, Stopped, Restart, vars
<1>9. QED
  BY <1>5, <1>6, <1>7, <1>8 DEF Next

\* Without diarization and edits no session stays processing behind its last job,
\* across cancellations, failures, retries, deletions, quits and crashes.
THEOREM LecturesAreAccounted ==
  ASSUME \A p \in Payloads : ~p.meeting, MaxRevision < 2
  PROVE  Spec => []ProcessingHasActiveJob
<1>1. Init => NotDiarizing
  BY DEF Init, NotDiarizing, NoRun
<1>2. IInv /\ NotDiarizing /\ [Next]_vars => NotDiarizing'
  BY LecturesAreNotDiarized
<1>3. NotDiarizing => [~Reopens]_vars
  <2>1. MaxRevision - 1 < 1 /\ MaxRevision - 1 \in Int
    BY ConstantsAssumption
  <2>2. 1..(MaxRevision - 1) = {}
    BY <2>1
  <2>3. ASSUME NEW s \in Sessions PROVE ~EditTranscript(s)
    BY <2>2 DEF EditTranscript
  <2>4. NotDiarizing => ~LateSave
    BY DEF NotDiarizing, LateSave, PcmRemoved, At
  <2>5. QED
    BY <2>3, <2>4 DEF Reopens
<1>4. Spec => [][~Reopens]_vars
  BY <1>1, <1>2, <1>3, Invariance, PTL DEF Spec
<1>5. QED
  BY <1>4, OnlyTwoStepsReopen, PTL
=============================================================================
