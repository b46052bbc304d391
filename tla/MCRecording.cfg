CONSTANTS
  Sessions = {s1, s2}
  NoSession = NoSession
  Elsewhere = Elsewhere
  Overtaking = FALSE
  MaxIncidents = 4
SPECIFICATION Spec
INVARIANTS
  TypeOK
  ManifestBeforeRecording
  RecordingHasManifest
  HandedOffOrReported
  QueuedOnce
PROPERTIES
  ImplementsHandoff
  GivenUpOnlyWithItsStart
CHECK_DEADLOCK FALSE
SYMMETRY Symmetry
