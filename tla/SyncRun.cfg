CONSTANTS
    t1 = t1
    r1 = r1
    r2 = r2
    Task = {t1}
    Request = {r1, r2}
    NoWorker = NoWorker
    Ttl = 2
    Interval = 3
    Forcing = TRUE
    Crashing = TRUE
SPECIFICATION MCSpec
INVARIANTS ExclusiveWork
PROPERTIES RunsAreSpaced RunsEnd LockIsFreed
