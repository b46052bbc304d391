CONSTANTS
  Clients = {c1}
  NoClient = NoClient
  MaxFaults = 1

SPECIFICATION Spec
INVARIANTS
  LeaseKeepsContainer
CHECK_DEADLOCK FALSE
