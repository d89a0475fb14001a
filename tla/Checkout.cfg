CONSTANTS
    Charge = {c1, c2}
    Handler = {h1, h2}
    NoEvent = NoEvent
    MaxCrashes = 1
SPECIFICATION FairSpec
INVARIANTS
    AtMostOneSubscription
    SucceededIsSubscribed
PROPERTIES
    PaidOnce
    PaymentIsHonoured
CHECK_DEADLOCK FALSE
