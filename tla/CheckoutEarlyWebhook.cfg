CONSTANTS
    Charge = {c1, c2}
    Handler = {h1}
    NoEvent = NoEvent
    MaxCrashes = 0
SPECIFICATION Spec
INVARIANTS
    FailureIsRecorded
CHECK_DEADLOCK FALSE
