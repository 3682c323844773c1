CONSTANTS
    Keys = {k1, k2}
    Addrs = {a1}
    Conns = {c1, c2}
    Streams = {t1, t2}
    MaxRetries = 1
    Nil = Nil
SPECIFICATION Spec
INVARIANTS
    RoutedByKey
    TablesHoldUsable
PROPERTIES
    LostOnlyInRace
    ServerLostToNamesake
    StreamSettles
    ClosedClientIsSwept
CHECK_DEADLOCK FALSE
