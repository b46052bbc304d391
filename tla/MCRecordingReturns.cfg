CONSTANTS
  Sessions = {s1}
  NoSession = NoSession
  Elsewhere = Elsewhere
  Overtaking = TRUE
  MaxIncidents = 2
SPECIFICATION LiveSpec
PROPERTIES
  CallsReturn
CHECK_DEADLOCK FALSE
