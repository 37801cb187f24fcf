SPECIFICATION Spec
CONSTANTS
    Nodes = {n1, n2}
    Requests = {r1, r2}
    Streaming = {r2}
    Reach <- ReachAll
    MaxAttempts = 2
    BreakerThreshold = 1
    HealthThreshold = 1
    DiscoveredStatuses = {"healthy"}
    AddedStatuses = {}
    Churning = {}
    Removable = {}
    Breakers = {b1, b2, b3}
    NoNode = NoNode
    NoBreaker = NoBreaker
INVARIANTS
    RetriesDistinct
