\* A client and a raw peer, a pool of one or two.
SPECIFICATION FairSpec
CONSTANTS
    c1 = c1
    r1 = r1
    NoOne = NoOne
    Clients = {c1}
    RawPeers = {r1}
    PoolSizes = {1, 2}
    Budget = 1
    MaxRequests = 1
    RawScripts <- Scripts
    SendBuffer = 1
    MaxBuffer = 3
INVARIANTS HandledInOrder AnswerFitsRequest AppliedMeansIngested
PROPERTIES  ClientsReturn
