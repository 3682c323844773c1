SPECIFICATION Spec
CONSTANTS
    a1 = a1
    s1 = s1
    s3 = s3
    Assocs <- MCAssocs
    SS = SS
    Srcs <- MCSrcs
    HostOf <- MCHostOf
    AddrOf <- MCAddrOf
    Conns = {c1, c2}
    Nil = Nil
PROPERTIES
    KnownPairPasses
CHECK_DEADLOCK FALSE
