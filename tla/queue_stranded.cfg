SPECIFICATION Spec
CONSTANTS
    e1 = e1
    e2 = e2
    e3 = e3
    e4 = e4
    r1 = r1
    r2 = r2
    r3 = r3
    Requests = {r1, r2, r3}
    RequestOf <- MCRequestOf
    Limit <- MCLimit
    NoEscalation = NoEscalation
    NoWorker = NoWorker
    Workers = {w1}
    Escalations = {e1}
    MaxQueueFileLines = 1
    MaxCacheEntries = 2
    RetentionDays = 1
    MaxFiles = 2
    MaxTime = 0
    MaxSweeps = 0
    MaxCrashes = 1
    MaxFaults = 0
    MaxLostReplies = 0
INVARIANT InterruptedFileFound
CHECK_DEADLOCK FALSE
