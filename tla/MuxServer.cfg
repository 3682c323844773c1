CONSTANTS
    Handlers = {h1, h2}
    Sessions = {s1, s2}
    MaxRetries = 1
    Nil = Nil
SPECIFICATION Spec
PROPERTIES
    SharesOneSession
    HandlerGetsThrough
    ClosedSessionIsDropped
    StopEndsGoroutines
CHECK_DEADLOCK FALSE
