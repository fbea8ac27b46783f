SPECIFICATION Spec
CONSTANTS
    MaxEnrolments = 2
    MaxInvocations = 1
    MaxProgress = 1
    MaxSessions = 2
    Oversized = {"answer", "progress"}
CHECK_DEADLOCK FALSE
INVARIANTS AnsweredOnce InterruptsReach
PROPERTIES EventuallyAnswered
