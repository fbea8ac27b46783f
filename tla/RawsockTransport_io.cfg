SPECIFICATION FairSpec
CONSTANTS
    MaxSent = 3
    MaxReceived = 3
    LongPings = TRUE
CHECK_DEADLOCK FALSE
INVARIANTS ReaderAlive FailureToldOnce PongMatchesPing
PROPERTIES ImplementsChannel EventuallyWritten
