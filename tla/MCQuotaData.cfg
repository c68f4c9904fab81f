CONSTANTS
    Node = {n1, n2}
    Key = {k1, k2}
    UseTime = {1, 2}
    MaxLogged = 5
    MaxFailures = 1
    MaxCrashes = 1
SPECIFICATION Spec
SYMMETRY Symmetry
INVARIANTS
    TypeOK
    UsesKeptOnce
    RowsBounded
CHECK_DEADLOCK FALSE
