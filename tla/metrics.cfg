SPECIFICATION Spec
CONSTANTS
    p1 = p1
    p2 = p2
    Pids = {p1, p2}
    KeepHours = 1
    MaxRecords = 1
    MaxHours = 3
    Limits <- MetricsLimits
INVARIANTS
    TotalsExact
    RefusedOnlyByCut
    ActiveCountKnown
    RecordsKept
PROPERTIES
    CollectedIsReported
CHECK_DEADLOCK FALSE
