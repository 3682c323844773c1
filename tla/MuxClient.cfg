CONSTANTS
    Sessions = {s1, s2, s3}
    Streams = {t1, t2}
    MaxRetries = 1
    Nil = Nil
SPECIFICATION Spec
PROPERTIES
    SharesOneSession
    StopEndsAll
    KeepsConnecting
CHECK_DEADLOCK FALSE
