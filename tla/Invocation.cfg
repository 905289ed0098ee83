SPECIFICATION FairSpec
CONSTANTS
    MaxCall = 1
    MaxItem = 2
    MaxControl = 1
CHECK_DEADLOCK FALSE
INVARIANTS Delivery RequestsAreOwed TerminatedIsReleased
PROPERTIES CallsSettle
