SPECIFICATION FairSpec
CONSTANTS
  w1 = w1
  w2 = w2
  r1 = r1
  Workers <- MCWorkers
  Receivers <- MCReceivers
  Channels <- MCChannels
  MaxAttempts = 2
  Parks = TRUE
  MaxReplays = 1
  MaxCrashes = 1
  MaxReceipts = 2
CHECK_DEADLOCK FALSE
INVARIANTS
  
  StrandedOnlyBySkip
PROPERTIES
  ReopenedOnlyByStaleLoad
  Settles
