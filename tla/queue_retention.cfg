SPECIFICATION Spec
CONSTANTS
    e1 = e1
    e2 = e2
    e3 = e3
    e4 = e4
    r1 = r1
    r2 = r2
    r3 = r3
    Requests = {r1, r2, r3}
    RequestOf <- MCRequestOf
    Limit <- MCLimit
    NoEscalation = NoEscalation
    NoWorker = NoWorker
    Workers = {w1}
    Escalations = {e1, e3}
    MaxQueueFileLines = 2
    MaxCacheEntries = 1
    RetentionDays = 1
    MaxFiles = 1
    MaxTime = 2
    MaxSweeps = 1
    MaxCrashes = 1
    MaxFaults = 0
    MaxLostReplies = 0
INVARIANTS ImageOutlivesLine MissingImageNotRecorded StrandedOnlyByCrash
CHECK_DEADLOCK FALSE
