CONSTANTS
  Clients = {c1, c2}
  NoClient = NoClient
  MaxFaults = 2
SPECIFICATION FairSpec
INVARIANTS
  TypeOK
  NoCountdownUnderLease
  CountIsOfCallers
  ShutdownReleasesVram
PROPERTIES
  StopNeverBeginsUnderALease
  AcquireIsAnswered
  IdleIsStopped
CHECK_DEADLOCK FALSE
