CONSTANTS
    w1 = w1
    p1 = p1
    s1 = s1
    Prediction = {p1, p2}
    Worker = {w1, w2}
    Score = {s1, s2}
    NoScore = NoScore
    NoPrediction = NoPrediction
    Kinds <- AllKinds
    Disturbances = {"relived", "postponed", "interrupted", "cancelled"}
    MaxCrashes = 1
SPECIFICATION MCSpec
INVARIANTS OutcomesAreFinal OutcomesFollowScore
PROPERTIES StatusMovesForward UndisturbedResultIsRecorded
