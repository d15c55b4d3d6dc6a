SPECIFICATION FairSpec
CONSTANTS
  None = None
  Cids = {c1}
  MaxLog = 3
  ReplayLimit = 2
  MaxJoins = 2
  RecentMax = 1
CHECK_DEADLOCK FALSE
INVARIANTS
  
  AckOnceBothArrived
PROPERTIES
  
  DeadIsNoticed
