SPECIFICATION Spec
CONSTANTS
    google = google
    local = local
    s1 = s1
    s2 = s2
    a = a
    b = b
    r1 = r1
    r2 = r2
    w1 = w1
    w2 = w2
    Requests = {r1, r2}
    Workers = {w1, w2}
    On <- Apart
    Identities <- Known
    Presents <- Split
    Emails = {a, b}
    Trusted <- FullAccess
    Changing = {a}
    Watched = {w1}
    Window = 2
    MaxTime = 2
    None = None
INVARIANT TypeOK
PROPERTIES
    AccountKeepsIssuer
    RemovedIsRefused
