SPECIFICATION Spec
CONSTANTS
    t1 = t1
    t2 = t2
    c1 = c1
    c2 = c2
    Null = Null
    Timers = {t1, t2}
    Clients = {c1, c2}
SYMMETRY AnyOrder
PROPERTY
    RegistrySpec
