CONSTANTS
    Session = {s1, s2, s3}
    AdEvent = {e1, e2}
    InitialFree = 2
    RewardGrant = 2
    NoAccount = NoAccount
    NoAdEvent = NoAdEvent
SPECIFICATION CreditsFairSpec
INVARIANTS
    NeverOverspent
    CreditsAddUp
PROPERTIES
    RequestsEnd
CHECK_DEADLOCK FALSE
