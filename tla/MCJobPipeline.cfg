SPECIFICATION Spec
CONSTANTS
  Sessions = {s1}
  Models = {m1}
  NoModel = NoModel
  NoSession = NoSession
  Payloads <- MeetingJobs
  MaxJobs = 2
  MaxAttempts = 2
  MaxRevision = 2
  MaxStops = 1
INVARIANTS
  TypeOK
  RunningIsOwned
  QueuedIsScheduled
  SucceededHasResults
PROPERTIES
  SucceededIsFinal
  ImplementsLifecycle
\* The application may be idle for ever.
CHECK_DEADLOCK FALSE
