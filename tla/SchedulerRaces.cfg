SPECIFICATION Spec
CONSTANTS
    c1 = c1
    c2 = c2
    s1 = s1
    s2 = s2
    Null = Null
    Timers = {1}
    Schedulers = {s1, s2}
    Clients = {c1, c2}
    Requests <- AnyRequest
    NextTriggerTime <- Periodic
    Grace = 1
    DefaultMaxCatchUp = 2
    BatchSize = 1
    MaxTime = 4
SYMMETRY Replicas
INVARIANTS
    TypeOK
    ActiveHasNext
PROPERTIES
    FiredSlotsStayBehind
    OnlyDueSlotsFire
    NoSlotIsForgotten
