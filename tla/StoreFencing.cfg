SPECIFICATION Spec
CONSTANTS
    Modulus = 8
    Word = 64
    MaxSampleGap = 0
    MaxRate = NoRate
    NoRate = NoRate
    NanosPerSecond = 1
    ResetDetection = TRUE
    NoDomain = NoDomain
    NoClass = NoClass
    MaxSources = 2
    MaxQueues = 2
    MaxSamplesPerQueue = 2
    MaxConflicts = 2
    MaxEvents = 1
    HistoryBudget = 2
    KeptIncarnations = 2
    StartTime = 4
    MaxTime = 4
    MaxPresented = 4
    MaxTables = 2
    CounterFields = {"drops", "enqueues"}
    Policy <- MCPolicy
    Samples <- FencingSamples
    Tables <- MetadataTables
INVARIANTS Accounting HistoryFenced SequenceUsedOnce
PROPERTIES RegistryMonotone
CHECK_DEADLOCK FALSE
