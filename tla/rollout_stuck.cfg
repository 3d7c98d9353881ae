SPECIFICATION FairSpec
CONSTANTS
    d1 = d1
    w1 = w1
    w2 = w2
    Detectors <- OneDetector
    Workers = {w1}
    SeparateOodd = TRUE
    EnvConfig = NoConfig
    HelmConfig <- OneDetector
    NoConfig = NoConfig
    NoDetector = NoDetector
    Binary <- BothBinary
    Preloaded <- AllPreloaded
    MaxTime = 1
    MaxFaults = 1
    Limit <- StuckLimits
PROPERTIES
    NewModelServed
