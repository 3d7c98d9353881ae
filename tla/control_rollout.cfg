SPECIFICATION FairSpec
CONSTANTS
    d1 = d1
    w1 = w1
    w2 = w2
    Detectors <- OneDetector
    Workers = {w1}
    SeparateOodd = FALSE
    EnvConfig = NoConfig
    HelmConfig <- OneDetector
    NoConfig = NoConfig
    NoDetector = NoDetector
    Binary <- FirstBinary
    Preloaded <- AllPreloaded
    MaxTime = 1
    MaxFaults = 1
    Limit <- RolloutLimits
INVARIANTS
    OrphanOnlyByReset
PROPERTIES
    LoadingVersionKept
    RecordOutlivesPods
    PendingIsProcessed
    UninterruptedModelServed
