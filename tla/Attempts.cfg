SPECIFICATION Spec
CONSTANTS
    PageLimit = 1
    ParseLimit = 1
    Scenarios <- All
INVARIANTS
    TypeOK
    LogFaithful
    
    ResendIdempotent
 
CHECK_DEADLOCK FALSE
