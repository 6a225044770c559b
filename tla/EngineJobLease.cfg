CONSTANTS
    w1 = w1
    w2 = w2
    w3 = w3
    t1 = t1
    t2 = t2
    t3 = t3
    Workers = {w1, w2}
    CrashProne = {w1}
    Tokens = {t1, t2}
    NoToken = NoToken
SPECIFICATION FairSpec
INVARIANTS
    TypeOK
    DisplacementExplained
    ExclusionWhileFresh
PROPERTIES
    ReleaseRemovesOwn
    ImplementsFencedClaim
    LossIsNoticed
    AbandonedIsTakenOver
