CONSTANTS
  Sessions = {s1}
  NoSession = NoSession
  Elsewhere = Elsewhere
  Overtaking = FALSE
  MaxIncidents = 1
SPECIFICATION Spec
INVARIANTS
  AcknowledgedOnlyAfterHandoff
CHECK_DEADLOCK FALSE
