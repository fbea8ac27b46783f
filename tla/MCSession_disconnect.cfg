SPECIFICATION MCSpec
CONSTANTS
    NumHandlers = 3
    Handlers <- MCHandlers
    NoHandler = 0
    MaxRequestId = 1
    Wishes = 1
    MaxStrand = 2
    Oversized = {}
    EarlyReconnect = FALSE
PROPERTY DisconnectSticks
