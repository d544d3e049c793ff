SPECIFICATION IngestSpec
CONSTANTS
    Modulus = 8
    Word = 64
    MaxSampleGap = 0
    MaxRate = NoRate
    NoRate = NoRate
    NanosPerSecond = 1
    ResetDetection = TRUE
    NoDomain = NoDomain
    NoClass = NoClass
    MaxSources = 1
    MaxQueues = 2
    MaxSamplesPerQueue = 3
    MaxConflicts = 1
    MaxEvents = 1
    HistoryBudget = 1
    KeptIncarnations = 2
    StartTime = 1
    MaxTime = 1
    MaxPresented = 20
    MaxTables = 10
    CounterFields = {"drops"}
    Policy <- MCPolicy
    Samples = {}
    Tables = {}
    Fields <- MCFields
    Overlong = {"long"}
    Unusable = {"#!"}
    U16 = 1
    U32 = 2
    I63 = 4
    Version = 1
    MaxPayload = 4
    MaxBatchSamples = 3
    MaxBatchMetadata = 2
    MaxJsonDepth = 3
    MaxJsonNodes = 28
    MaxMembers = 18
    MaxDiagnostics = 2
    Absent = Absent
    Callers = {"c1", "c2"}
    Documents <- MCDocuments
INVARIANTS LinesAreIndependent  ReportsAddUp TablesBeforeSamples
CHECK_DEADLOCK FALSE
