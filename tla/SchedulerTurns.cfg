SPECIFICATION FairSpec
CONSTANTS
    c1 = c1
    c2 = c2
    s1 = s1
    s2 = s2
    Null = Null
    Timers = {1, 2}
    Schedulers = {s1, s2}
    Clients = {c1}
    Requests <- CatchUpSlowly
    NextTriggerTime <- Periodic
    Grace = 1
    DefaultMaxCatchUp = 2
    BatchSize = 1
    MaxTime = 3
PROPERTY
    DueSlotsAreHandled
