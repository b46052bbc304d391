CONSTANTS
  Sessions = {s1}
  NoSession = NoSession
  Elsewhere = Elsewhere
  Overtaking = TRUE
  MaxIncidents = 1
SPECIFICATION Spec
INVARIANTS
  QueuedOnce
CHECK_DEADLOCK FALSE
