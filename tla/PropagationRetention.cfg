CONSTANTS
    w1 = w1
    w2 = w2
    r1 = r1
    r2 = r2
    x1 = x1
    x2 = x2
    Workers = {w1, w2}
    Requests = {r1, r2}
    Roots = {x1, x2}
    RootsOf <- OverlappingRoots
    MaxFaults <- NoFault
    NoRequest = NoRequest
    MaxTotal = 1
SPECIFICATION Spec
SYMMETRY Symmetry
INVARIANTS
    RequestIsRetained
