SPECIFICATION Spec
CONSTANTS
    Nodes = {n1}
    Requests = {r1, r2}
    Streaming = {r2}
    Reach <- ReachAll
    MaxAttempts = 2
    BreakerThreshold = 2
    HealthThreshold = 2
    DiscoveredStatuses = {"healthy", "relaunching"}
    AddedStatuses = {"healthy"}
    Churning = {n1}
    Removable = {n1}
    Breakers = {b1, b2}
    NoNode = NoNode
    NoBreaker = NoBreaker
INVARIANTS
    TypeOK
    NeverOverCounted
    HalfOpenOwned
PROPERTIES
    RecoveryNeedsEvidence
