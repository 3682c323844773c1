SPECIFICATION Spec
CONSTANTS
    Srcs <- MCSrcs
    Lengths <- MCLengths
    Streams = {t1, t2}
    Locals = {l1, l2}
    Nil = Nil
INVARIANTS
    FramesInStep
    OwnSource
    OpenHasReceiver
PROPERTIES
    HandlerEnds
CHECK_DEADLOCK FALSE
