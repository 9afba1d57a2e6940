SPECIFICATION Spec
CONSTANTS
    Threads = {th1, th2}
    MaxRequests = 2
    Window = 1
    Horizon = 4
SYMMETRY Symmetry
INVARIANTS
    TypeOK
    WithinLimit
    RefusedOnlyAtLimit
    OvershootBounded
