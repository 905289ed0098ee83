\* Three sockets one after the other, with automatic reconnection.
SPECIFICATION FairSpec
CONSTANTS
  Request = {r1, s1}
  Stream = {s1}
  AutoReconnect = TRUE
  MaxSocket = 3
CHECK_DEADLOCK FALSE
INVARIANTS
  ClosedStaysClosed
  AuthenticatedAtRest
PROPERTIES
  FailsWithItsSocket
  CallersSettle
  ReconnectsAfterDrop
