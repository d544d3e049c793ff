SPECIFICATION CycleSpec
CONSTANTS
    Modulus = 8
    Word = 64
    MaxSampleGap = 0
    MaxRate = NoRate
    NoRate = NoRate
    NanosPerSecond = 1
    ResetDetection = TRUE
    NoDomain = NoDomain
    NoClass = NoClass
    NoToken = NoToken
    MaxSources = 3
    MaxQueues = 2
    MaxSamplesPerQueue = 3
    MaxConflicts = 2
    MaxEvents = 1
    HistoryBudget = 2
    KeptIncarnations = 2
    StartTime = 1
    MaxTime = 3
    MaxPresented = 20
    MaxTables = 1
    MaxLive = 3
    MaxRestarts = 1
    DefaultRows = 1
    MaxRows = 1
    QueueOrder <- QueueNames
    CounterFields = {"drops"}
    Policy <- MCPolicy
    Samples <- CycleSamples
    Tables <- CycleTables
    WindowSpecs <- MCWindows
    MinExcursion = 3
    MinBurstBuckets = 1
INVARIANTS RecoveredNeverCurrent DropsAreReported AttributedOrRefused
    ReplayStaysFenced WindowMatchesHistory
CHECK_DEADLOCK FALSE
