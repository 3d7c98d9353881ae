SPECIFICATION Spec
CONSTANTS
    Callers = {r1, r2}
    MaxIds = 4
    MaxPayloads = 3
    MaxEdits = 1
    MaxKills = 1
    Units = 4
    MaxClasses = 3
    BoxLabels = 4
    SizeLimit = 3
    BucketWidth = 25
    Confidences = {24, 25, 100}
    Classes = {c0, c1}
    NoClass = NoClass
    Widths = {10}
    Pids = {w1, w2}
    MaxRecords = 2
    MaxHour = 2
    a1 = a1
    a2 = a2
    o1 = o1
    e1 = e1
    d1 = d1
    Pods <- MCPods
    Detectors = {d1}
    Owner <- MCOwner
    Kind <- MCKind
    NoDetector = NoDetector
    OldPods = {a1}
    MaxClock = 3
    MaxChanges = 1
    Kilo = 2
    Kibi = 3
    MemoryOf <- MCMemory
    CpuOf <- MCCpu
    GpuOf <- MCGpu
    Node <- MCNode
    None = None
    Configured = {d1}
    OnDisk = {1, 2}
    Described = {1}
    MaxSpans = 5
    MaxNow = 4
    Processes = {w1, s1}
    Servers = {s1}
    Rotation = 2
    MaxAge = 3
    Window = 2
    Delay = 1
    MaxTraces = 2
    MaxStored = 3
    MaxTime = 6
    Lenses <- MCLenses
    StagesOf <- MCStages
    Sweep <- MCSweep
    GivenById = {"chain"}
    FramesNeeded = 1
    Resident = Resident
    MaxEvents = 2
INVARIANTS
    EdgeAnswerRight
    HistogramRight
    ResourcesAddUp
    StatusMatchesPods
    TracesAreTrees
    RecentTracesLoaded
    LeavesAsFound
    MeasuredOnOwnDetectors
PROPERTY
    DeviceIdStable
CHECK_DEADLOCK FALSE
