\* A start whose recovery fails leaves drain waiting for ever.
SPECIFICATION FairSpec
CONSTANTS
    w1 = w1
    w2 = w2
    c1 = c1
    Workers = {w1}
    Clients = {c1}
    NoOne = NoOne
    MaxPending = 2
    SamplesPerDoc = 1
    MaxDocs = 1
    RecoveryMayFail = TRUE
PROPERTY DrainReturns
