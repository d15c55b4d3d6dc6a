SPECIFICATION FairSpec
CONSTANTS
  r1 = r1
  r2 = r2
  None = None
  Positions <- MCPositions
  Requests <- MCRequests
  Limit = 1
  MaxTimeouts = 1
  MaxCrashes = 1
INVARIANTS
  AcknowledgedWasAnswered
PROPERTIES
  Drained
