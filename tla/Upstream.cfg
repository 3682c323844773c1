SPECIFICATION Spec
CONSTANTS
    SuccessThreshold = 2
    FailureThreshold = 2
    Probes = {p1, p2}
PROPERTIES
    HealthFollows
    RunOfResults
