SPECIFICATION Spec
CONSTANTS
    r1 = r1
    r2 = r2
    w1 = w1
    Requests = {r1, r2}
    Workers = {w1}
    SeparateOodd = TRUE
    StaleAfter = 0
    ReadyTtl = 1
    Cooldown = 0
    MaxTime = 2
    Limit <- QueryLimits
SYMMETRY Symmetry
INVARIANTS
    NothingSentWhenDisabled
    UndoneIsSent
    
    MetadataKept
    
    CooldownKept

    
CHECK_DEADLOCK FALSE
