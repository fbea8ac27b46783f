SPECIFICATION MCSpec
CONSTANTS
    NumHandlers = 4
    Handlers <- MCHandlers
    NoHandler = 0
    MaxRequestId = 1
    Wishes = 1
    MaxStrand = 1
    Oversized = {"hello", "goodbye", "publish", "call"}
    EarlyReconnect = TRUE
INVARIANTS AtMostOnce NoLostHandler TransportPresent
PROPERTY ImplementsCompletion
