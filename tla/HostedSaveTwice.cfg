CONSTANTS
    e1 = e1
    e2 = e2
    p1 = p1
    r1 = r1
    r2 = r2
    Engines = {e1, e2}
    Requests = {r2}
    Plans = {}
    PlanOf <- Unreviewed
    Capacity = 1
    Mixes <- NoEvent
    NoRequest = NoRequest
SPECIFICATION Spec
SYMMETRY Symmetry
INVARIANTS
    RunsOnce
