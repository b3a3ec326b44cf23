SPECIFICATION Spec
CONSTANTS
    Null = Null
    AllowPrivate = FALSE
    MaxResponseBytes = 1048576
    Sizes = {0, 1048576, 1048577}
INVARIANTS
    TypeOK
    ConnectsToPublic
    OkIsWhole
