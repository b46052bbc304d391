SPECIFICATION Spec
CONSTANTS
  Sessions = {s1}
  Models = {m1}
  NoModel = NoModel
  NoSession = NoSession
  Payloads <- SummarizedMeetings
  MaxJobs = 1
  MaxAttempts = 1
  MaxRevision = 1
  MaxStops = 2
INVARIANTS
  SavedWorkIsNotRepeated
\* The application may be idle for ever.
CHECK_DEADLOCK FALSE
