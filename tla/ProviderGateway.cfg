CONSTANTS
    Request = {r1, r2}
    Resource = {k1, k2}
    Foreign = {k2}
    Nobody = Nobody
    Elsewhere = Elsewhere
    Threshold = 2
    Recovery = 2
    MaxAge = 1
    LockTtl = 1
    Waits = 1
    Retries = 1
SPECIFICATION MCSpec
INVARIANTS
    BreakerCoherent
    SharedCall
PROPERTIES
    PauseLasts
    RequestsEnd
    BreakerRecovers
