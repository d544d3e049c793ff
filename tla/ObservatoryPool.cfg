\* Two workers, three documents, a queue of two, recovery that may fail.
SPECIFICATION Spec
CONSTANTS
    w1 = w1
    w2 = w2
    c1 = c1
    Workers = {w1, w2}
    Clients = {c1}
    NoOne = NoOne
    MaxPending = 2
    SamplesPerDoc = 2
    MaxDocs = 3
    RecoveryMayFail = TRUE
SYMMETRY WorkerSymmetry
INVARIANTS
    AppliedInSubmissionOrder
    TicketsContiguous
    DecodersOwnTheirDocument
    StoppedIsQuiet
PROPERTIES
    ImplementsOrderedApply
