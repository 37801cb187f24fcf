SPECIFICATION Spec
CONSTANTS
    Gateways = {g1, g2}
    Gone = Gone
    ClaimIds = {c1, c2}
    NoId = NoId
    None = None
    MaxAttempts = 2
    Stale = 4
SYMMETRY Alike
INVARIANTS
    TypeOK
    TornDownStaysOut
PROPERTIES
    LaunchesOverItsOwn
    OneWorkerWithinBudget
