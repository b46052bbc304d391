SPECIFICATION Spec
CONSTANTS
  Sessions = {s1}
  Models = {m1}
  NoModel = NoModel
  NoSession = NoSession
  Payloads <- SummarizedMeetings
  MaxJobs = 1
  MaxAttempts = 1
  MaxRevision = 1
  MaxStops = 1
PROPERTIES
  CancelledRunSavesNothing
\* The application may be idle for ever.
CHECK_DEADLOCK FALSE
