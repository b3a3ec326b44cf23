SPECIFICATION FairSpec
CONSTANTS
    e1 = e1
    h1 = h1
    h2 = h2
    m1 = m1
    Null = Null
    Gone = Gone
    Executions = {e1}
    Handlers = {h1, h2}
    Messages = {m1}
    MaxAttempts = 2
    MaxEvents = 2
    Deployments <- AidedAndUnaided
CHECK_DEADLOCK FALSE
INVARIANTS
    TypeOK
    Carried
PROPERTY
    EveryExecutionEnds
