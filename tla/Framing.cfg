CONSTANTS
    Base = 4
    Methods = {0, 1}
    FixedLengths = {0, 2}
    Lengths = {0, 5, 9}
    MaximumPayload = 8
    MaximumRecord = 12
    Overhead = 1
    MaxPacket = 2
CHECK_DEADLOCK FALSE
SPECIFICATION FramingSpec
INVARIANTS
    FramesIntact
    NothingHeldBack
