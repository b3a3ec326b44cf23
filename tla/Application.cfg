SPECIFICATION FairSpec
CONSTANTS
    p1 = p1
    h1 = h1
    h2 = h2
    Pollers = {p1}
    Handlers = {h1, h2}
CHECK_DEADLOCK FALSE
INVARIANTS
    TypeOK
    ClosedWhenQuiet
    ClosedOnce
PROPERTY
    ProcessExits
