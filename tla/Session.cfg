CONSTANTS
    Coalescing = FALSE
    MaxSession = 3
    MaxRequest = 2
    MaxDrop = 2
CHECK_DEADLOCK FALSE
SPECIFICATION FairSpec
INVARIANTS
    KeysAgree
    NobodyUnproved
    NothingInTheClear
    RecordsAreRead
PROPERTIES
    HandshakeSettles
