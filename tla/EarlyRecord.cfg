\* The peer's first record follows its last plaintext packet in the same chunk.
SPECIFICATION Spec
CONSTANTS
    Coalescing = TRUE
    MaxSession = 1
    MaxRequest = 1
    MaxDrop = 0
CHECK_DEADLOCK FALSE
INVARIANTS
    RecordsAreRead
