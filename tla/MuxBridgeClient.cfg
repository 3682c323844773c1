CONSTANTS
    Keys = {k1}
    Addrs = {a1}
    Conns = {c1, c2}
    Streams = {t1}
    MaxRetries = 1
    Nil = Nil
SPECIFICATION Spec
PROPERTY ClientIsFound
CHECK_DEADLOCK FALSE
