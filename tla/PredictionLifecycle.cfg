CONSTANTS
    Prediction = {p1, p2, p3, p4}
    Session = {s1, s2}
    NoPrediction = NoPrediction
    Ttl = 1
    MaxClock = 6
    OverlapClock = 4
SPECIFICATION MCSpec
SYMMETRY Symmetry
INVARIANTS
    NewerSupersedes
    OnePublishedAtATime
PROPERTIES
    SupersededOnArrival
    VoidedIsFinal
CHECK_DEADLOCK FALSE
