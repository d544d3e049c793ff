\* Two sources of one clock domain, a rate that allows several turns in a gap,
\* device reloads, and readings beyond the width after the first.
SPECIFICATION Spec
CONSTANTS
    Modulus = 6
    Word = 64
    MaxSampleGap = 4
    MaxRate = 3
    NoRate = NoRate
    NanosPerSecond = 1
    ResetDetection = TRUE
    NoDomain = NoDomain
    a = a
    b = b
    Sources = {a, b}
    DomainOf <- SameDomain
    EventsPerTick = 3
    MaxTime = 4
    MaxReadings = 2
    WideReadings = {20}
    WideFirst = FALSE
    MaxResets = 1
SYMMETRY SourceSymmetry
INVARIANTS
    KnownDeltaExact
    
    
CHECK_DEADLOCK FALSE
