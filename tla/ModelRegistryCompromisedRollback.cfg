CONSTANTS
    Model = {m1, m2, m3}
    Session = {s1}
    NoModel = NoModel
    MaxAge = 1
    MaxClock = 1
SPECIFICATION MCSpec
SYMMETRY Symmetry
PROPERTIES
    CompromisedNeverPromoted
CHECK_DEADLOCK FALSE
