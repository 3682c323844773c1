CONSTANTS
    Srcs = {a}
    Conns = {c1, c2}
    Handlers = {h1, h2}
    Nil = Nil
SPECIFICATION Spec
INVARIANTS
    OpenHasCloser
PROPERTIES
    OneFlowPerSource
    LostOnlyToNamesake
    HandlerEnds
    IdleIsClosed
CHECK_DEADLOCK FALSE
