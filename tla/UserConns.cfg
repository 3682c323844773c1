CONSTANTS
    Services <- MCServices
    Conns = {c1, c2}
    Srcs = {a}
    MaxRetries = 1
    Nil = Nil
SPECIFICATION Spec
INVARIANTS
    TableInStep
    EndedHasReleased
PROPERTIES
    HandlerEnds
    StopEnds
CHECK_DEADLOCK FALSE
