SPECIFICATION Spec
CONSTANTS
    Domains <- MCDomains
    Proxies <- MCProxies
    Directs <- MCDirects
    SuccessThreshold = 2
    FailureThreshold = 2
    MaxCount = 3
    MaxOverlap = 2
    Nil = Nil
INVARIANT ListsDecide
PROPERTIES
    VerdictFollows
    VerdictLasts
