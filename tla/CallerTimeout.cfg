SPECIFICATION FairSpec
CONSTANTS
    Timeouts = {1, 2, 3}
    MaxTime = 4
    MaxCalls = 3
    MaxSessions = 2
CHECK_DEADLOCK FALSE
INVARIANTS WaitsOnFirst TimeoutKept FiredInOrder
PROPERTIES FiresOnTime EventuallyFires
