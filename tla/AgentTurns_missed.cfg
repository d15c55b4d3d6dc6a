SPECIFICATION Spec
CONSTANTS
  Convs = {a, b}
  MaxConcurrent = 1
  Capacity = 2
  Window = 2
  Old = 1
  MaxNew = 3
  MaxEvents = 2
CHECK_DEADLOCK FALSE
INVARIANTS
  ReplayCoversMissed
