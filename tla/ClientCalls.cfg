SPECIFICATION Spec
CONSTANTS
    Calls = {c1, c2}
    Origins = {o1, o2}
    Methods = {"POST"}
    Conns = {k1, k2, k3, k4}
    NoConn = NoConn
    MaxRedirects = 1
SYMMETRY MCSymmetry
INVARIANTS
    TypeOK
    Exclusive
    RightOrigin
    PooledIsReady
    AppliedAtMostTwice
