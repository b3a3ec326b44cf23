SPECIFICATION Spec
CONSTANTS
    w1 = w1
    w2 = w2
    h1 = h1
    h2 = h2
    t1 = t1
    t2 = t2
    t3 = t3
    Null = Null
    Workers = {w1}
    Handlers = {h1, h2}
    Owner <- OwnersTogether
    RunTokens = {t1, t2, t3}
    Executions = {1}
    ScheduledAt <- DueAtOne
    MaxAttempts = 2
    LeaseTTL = 1
    RetryBase = 1
    RetryMax = 2
    PendingStale = 1
    Reconcilers = {1}
    BatchSize = 1
    OutboxRetention = 1
    ExecutionRetention = 2
    MaxTime = 4
SYMMETRY PoolSymmetry
INVARIANTS
    TypeOK
    ColumnsFollowStatus
    RunTokenFences
    OneResultWins
    RetryEventIsNew
    RetryWaitIsAnnounced
    AckedHasRun
PROPERTIES
    RunsEndProperly
    BackoffIsKept
    LifecycleSpec
