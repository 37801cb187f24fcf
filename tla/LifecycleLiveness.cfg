SPECIFICATION FairSpec
CONSTANTS
    Ops = {o1, o2}
    Builds = {o1}
    Teardowns = {o2}
    Offered = {"managed"}
    Owners = {}
    NoOwner = NoOwner
    None = None
    MaxAttempts = 2
PROPERTIES
    HostFreed
    RelaunchResolves
