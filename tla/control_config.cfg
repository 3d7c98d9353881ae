SPECIFICATION WorkersSpec
CONSTANTS
    d1 = d1
    w1 = w1
    w2 = w2
    Detectors <- OneDetector
    Workers = {w1, w2}
    SeparateOodd = FALSE
    EnvConfig = NoConfig
    HelmConfig <- OneDetector
    NoConfig = NoConfig
    NoDetector = NoDetector
    Binary <- NoBinary
    Preloaded <- AllPreloaded
    MaxTime = 2
    MaxFaults = 1
    Limit <- ConfigLimits
SYMMETRY Symmetry
INVARIANTS
    ConfiguredIsActive
    StaleOnlyWithinTick
CHECK_DEADLOCK FALSE
