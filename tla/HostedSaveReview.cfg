CONSTANTS
    e1 = e1
    e2 = e2
    p1 = p1
    r1 = r1
    r2 = r2
    Engines = {e1, e2}
    Requests = {p1, r1}
    Plans = {p1}
    PlanOf <- Reviewing
    Capacity = 1
    Mixes <- Events
    NoRequest = NoRequest
SPECIFICATION Spec
SYMMETRY Symmetry
INVARIANTS
    TypeOK
    OneRunPerMarker
PROPERTIES
    AnswerIsTrue
    ReviewedIsCurrent
