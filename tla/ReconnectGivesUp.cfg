\* A timed reconnect that fails.
SPECIFICATION FairSpec
CONSTANTS
  Request = {r1, s1}
  Stream = {s1}
  AutoReconnect = TRUE
  MaxSocket = 2
CHECK_DEADLOCK FALSE
PROPERTIES
  RetriesAgain
