SPECIFICATION Spec
CONSTANTS
  None = None
  Cids = {c1, c2}
  Refused = {c2}
  MaxBot = 1
  MaxInFlight = 1
  ReplayMax = 1
  ResumeAt = {1}
  MaxFaults = 1
CHECK_DEADLOCK FALSE
INVARIANTS
  LimitedIsRetried
