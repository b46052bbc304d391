--------------------------- MODULE MCJobPipeline ---------------------------
(***************************************************************************)
(* Payload sets for checking JobPipeline with TLC.                         *)
(***************************************************************************)
EXTENDS JobPipeline

\* A full job of model m and summarizer n, and a summary job of model n.
Full(m, n, diarized) ==
  [kind |-> "full", transcriber |-> m, summarizer |-> n, meeting |-> diarized]
SummaryOnly(n) ==
  [kind |-> "summary", transcriber |-> NoModel, summarizer |-> n, meeting |-> FALSE]

\* Every kind of job: meetings with and without a summary, and summary jobs.
MeetingJobs ==
  {Full(m, n, TRUE) : m \in Models, n \in Models \cup {NoModel}}
    \cup {SummaryOnly(n) : n \in Models}

\* The same without diarization.
LectureJobs ==
  {Full(m, n, FALSE) : m \in Models, n \in Models \cup {NoModel}}
    \cup {SummaryOnly(n) : n \in Models}

\* Full jobs that want a summary, to keep a run on one question.
SummarizedMeetings == {Full(m, n, TRUE) : m \in Models, n \in Models}
=============================================================================
