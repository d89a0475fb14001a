CONSTANTS
    Model = {m1, m2, m3}
    Session = {s1, s2}
    NoModel = NoModel
    MaxAge = 1
    MaxClock = 2
SPECIFICATION MCSpec
SYMMETRY Symmetry
INVARIANTS
    AtMostOneChampion
PROPERTIES
    HandoverOnEvidence
    ChampionIsReplaced
    LifecycleOrder
    CompromiseIsPermanent
CHECK_DEADLOCK FALSE
