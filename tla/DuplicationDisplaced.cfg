CONSTANTS
    w1 = w1
    w2 = w2
    r1 = r1
    r2 = r2
    f1 = f1
    f2 = f2
    Workers = {w1, w2}
    Requests = {r1}
    Files = {f1, f2}
    MaxFaults <- DisplaceFaults
    MaxTotal = 1
    NoWorker = NoWorker
    NoRequest = NoRequest
    Unremoved = Unremoved
    NoFolder = NoFolder
    Missing = Missing
    Edited = Edited
SPECIFICATION Spec
SYMMETRY Symmetry
INVARIANTS
    PublishedIsASnapshot
