SPECIFICATION FairSpec
CONSTANTS
    Nodes = {n1, n2}
    Managed = {e1}
    SelfSetup = {s1}
    Malformed = {bad}
    Probed = {}
    Local = {n2}
    Contended = {}
    MaxRev = 3
    MaxLeases = 0
    MaxFaults = 1
    NoVal = NoVal
    NoNode = NoNode
INVARIANTS
    TypeOK
    RegistryMirrorsStore
PROPERTY Converges
