CONSTANTS
    f1 = f1
    f2 = f2
    f3 = f3
    Fixture = {f1, f2, f3}
    Kickoff <- MCKickoff
    Worker = {w1, w2}
    Maintainer = {r1, r2}
    MaxTime = 3
    MaxValues = 3
    MaxServed = 1
    MaxAnchors = 3
SPECIFICATION MCSpec
CONSTRAINT InPlay
SYMMETRY Symmetry
INVARIANTS PredictionsSeeThePast AnchorsArePreMatch AnchoredOnce
CHECK_DEADLOCK FALSE
