SPECIFICATION Spec
CONSTANTS
    w1 = w1
    w2 = w2
    h1 = h1
    h2 = h2
    Null = Null
    Workers = {w1}
    Handlers = {h1}
    Owner <- OneHandler
    MaxMessages = 2
    ReadCount = 1
    ReclaimIdle = 1
    Retention = 1
    StreamMaxLen = 0
INVARIANT
    TrimsAcknowledgedOnly
