\* Up to three snapshots, two segments kept, two crashes, one damaged segment.
SPECIFICATION Spec
CONSTANTS
    MaxSegments = 2
    MaxSnapshots = 3
    MaxCrashes = 2
    MaxDamaged = 1
    OpensFirst = TRUE
INVARIANTS
    PublishedIsWhole
    
PROPERTIES
    WritingKeepsAFallback
    ImplementsLastSnapshot
