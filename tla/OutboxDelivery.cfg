SPECIFICATION FairSpec
CONSTANTS
    d1 = d1
    d2 = d2
    Null = Null
    Events = {1}
    Dispatchers = {d1, d2}
    BatchSize = 1
    ClaimTTL = 1
    MaxBackoff = 2
    MaxDelay = 1
    MaxStall = 1
    AttemptCap = 2
INVARIANTS
    TypeOK
    PublishedWasSent
    LiveClaimsAreDisjoint
    AttemptsAreCurrent
PROPERTIES
    SendingEnds
    AtLeastOnceSpec
