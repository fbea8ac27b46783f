SPECIFICATION Spec
CONSTANTS
    Threads = {io, t1}
    Io = io
    Connectors = 1
    MaxCalls = 4
CHECK_DEADLOCK FALSE
INVARIANTS HandlersOnce StateReported
PROPERTIES TerminateSilences EveryHandlerRuns
