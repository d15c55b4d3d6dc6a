SPECIFICATION FairSpec
CONSTANTS
  j1 = j1
  j2 = j2
  Operator = Operator
  Jobs <- TwoJobs
  Threshold = 2
  MaxFaults = 1
  MaxTransients = 2
CHECK_DEADLOCK FALSE
INVARIANTS
  ThresholdOpens
  
PROPERTIES
  Delivered
