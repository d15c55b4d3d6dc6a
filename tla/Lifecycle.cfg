SPECIFICATION FairSpec
CONSTANTS
  TransportOption <- MCTransportOption
  FallbackAfter = 2
  ReconnectOption <- MCReconnectOption
  MaxAuthRejections = 2
CHECK_DEADLOCK FALSE
INVARIANTS
  OneAttempt
  RefreshOwed
PROPERTIES
  RejectedIsReplaced
  Reconnects
