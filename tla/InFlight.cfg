SPECIFICATION FairSpec
CONSTANTS
  p1 = p1
  p2 = p2
  p3 = p3
  p4 = p4
  Procs <- MCProcs
  Cap = 1
  MaxRestarts = 1
CHECK_DEADLOCK FALSE
INVARIANTS
  SlotIsWatched
PROPERTIES
  SlotsComeBack
