SPECIFICATION Spec
CONSTANTS
    RobinValues = 16
    Handlers = {h1, h2}
    N = 3
    Weights <- ModelWeights
    MaxConns = 2
    Methods = {"random", "leastconn", "leasttime", "hash", "roundrobin", "weight"}
    Hashes = {1, 2, 3}
    Times = {0, 1}
    MaxResets = 1
SYMMETRY Symmetry
INVARIANTS
    TypeOK
    CountsConns
    PicksByMethod
    TurnsAreFair
