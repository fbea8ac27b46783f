SPECIFICATION Spec
CONSTANTS
    Topics = {t1, t2}
    MaxSlots = 3
    MaxUnsubscribes = 3
    MaxIds = 3
    MaxEvents = 1
    MaxSessions = 2
SYMMETRY Symmetry
CHECK_DEADLOCK FALSE
INVARIANT UnsubscribeAnswered
