SPECIFICATION Spec
CONSTANTS
    Nodes = {n1}
    Managed = {e1, e2}
    SelfSetup = {}
    Malformed = {}
    Probed = {n1}
    Local = {}
    Contended = {}
    MaxRev = 3
    MaxLeases = 1
    MaxFaults = 1
    NoVal = NoVal
    NoNode = NoNode
INVARIANTS
    LeasesObserved
PROPERTIES
    AdoptionKeepsValue
