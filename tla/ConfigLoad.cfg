SPECIFICATION Spec
CONSTANTS
    Null = Null
    Files <- AllFiles
    Environments <- LeaseEnvironments
INVARIANTS
    AssumptionsAreMet
    LoadIsStable
