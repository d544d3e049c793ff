\* Shutdown and drain with two workers and no recovery to fail.
SPECIFICATION FairSpec
CONSTANTS
    w1 = w1
    w2 = w2
    c1 = c1
    Workers = {w1, w2}
    Clients = {c1}
    NoOne = NoOne
    MaxPending = 2
    SamplesPerDoc = 1
    MaxDocs = 3
    RecoveryMayFail = FALSE
INVARIANT EveryDocumentAccounted
PROPERTIES
    DrainReturns
    StopReturns
    QueueEmpties
