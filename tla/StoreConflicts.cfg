SPECIFICATION Spec
CONSTANTS
    Modulus = 8
    Word = 64
    MaxSampleGap = 0
    MaxRate = NoRate
    NoRate = NoRate
    NanosPerSecond = 1
    ResetDetection = TRUE
    NoDomain = NoDomain
    NoClass = NoClass
    MaxSources = 3
    MaxQueues = 2
    MaxSamplesPerQueue = 4
    MaxConflicts = 1
    MaxEvents = 1
    HistoryBudget = 2
    KeptIncarnations = 4
    StartTime = 4
    MaxTime = 5
    MaxPresented = 5
    MaxTables = 0
    CounterFields = {"drops"}
    Policy <- MCPolicy
    Samples <- ConflictSamples
    Tables = {}
INVARIANTS ConflictBookkeeping PeersAreNewest
CHECK_DEADLOCK FALSE
