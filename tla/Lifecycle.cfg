SPECIFICATION Spec
CONSTANTS
    Ops = {o1, o2}
    Builds = {o1, o2}
    Teardowns = {o1, o2}
    Offered = {"managed", "pool", "self"}
    Owners = {}
    NoOwner = NoOwner
    None = None
    MaxAttempts = 2
SYMMETRY Slots
INVARIANTS
    TypeOK
    OneAtATime
    DisturbedNotHealthy
    
