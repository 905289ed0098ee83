SPECIFICATION Spec
CONSTANTS
    Capacity = 1
    QueueLimit = 2
    Address = {home}
    Unknown = unknown
    Member = {m}
    MaximumConnections = 2
    MaximumConnectionsPerIpAddress = 1
    MaximumAttempts = 2
    MaximumAttemptsPerIpAddress = 1
    Window = 2
    MaxConn = 3
    MaxTime = 2
    MaxRequest = 3
CHECK_DEADLOCK FALSE
INVARIANTS ConnectionsWithinLimits AttemptsWithinLimits RateHolds
