SPECIFICATION FairSpec
CONSTANTS
  Sessions = {s1, s2}
  Models = {m1}
  NoModel = NoModel
  NoSession = NoSession
  Payloads <- LectureJobs
  MaxJobs = 2
  MaxAttempts = 1
  MaxRevision = 1
  MaxStops = 1
INVARIANTS
  ProcessingHasActiveJob
PROPERTIES
  JobsSettle
\* The application may be idle for ever.
CHECK_DEADLOCK FALSE
