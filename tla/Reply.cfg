SPECIFICATION FairSpec
CONSTANTS
  MaxInFlight = 1
  MaxSendAttempts = 2
  MaxAttempts = 1
  MaxFaults = 1
  Modes = {"genui+text"}
  MaxOps = 2
CHECK_DEADLOCK FALSE
INVARIANTS
  OnePlace
  
  
  
PROPERTIES
  SendsSettle
