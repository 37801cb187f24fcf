SPECIFICATION Spec
CONSTANTS
    w1 = w1
    w2 = w2
    Workers = {w1, w2}
    s1 = s1
    s2 = s2
    Secrets <- Rolled
    m1 = m1
    m2 = m2
    Models = {m1, m2}
    Serves <- Sent
    Wanted <- Asks
    Histories <- Starts
    MaxRows = 3
    None = None
INVARIANTS
    TypeOK
    PersonalSupersedes
    StableUnderOneSecret

    
