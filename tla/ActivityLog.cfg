SPECIFICATION FairSpec
CONSTANTS
  k1 = k1
  u1 = u1
  u2 = u2
  Procs = {p1, p2}
  Senders = {u1, u2}
  Keys = {k1}
  NoKey = NoKey
  Nobody = Nobody
  Requests <- MCRequests
  TicksPerMonth = 1
  Window = 0
  MaxSeq = 3
  MaxClock = 1
CHECK_DEADLOCK FALSE
INVARIANTS
  KeyUnique
  AnswersAgree
  
PROPERTIES
  ClosedAcceptsNothing
  ImplementsConversationLog
  CallsReturn
