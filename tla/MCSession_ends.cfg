SPECIFICATION MCFairSpec
CONSTANTS
    NumHandlers = 4
    Handlers <- MCHandlers
    NoHandler = 0
    MaxRequestId = 1
    Wishes = 2
    MaxStrand = 2
    Oversized = {"publish", "call"}
    EarlyReconnect = FALSE
INVARIANTS HandshakeAwaited NoOrphanedRequests
PROPERTY LossCompletesRequests
