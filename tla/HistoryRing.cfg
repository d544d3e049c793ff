\* Rings of no slot up to three, the largest turning more than twice.
SPECIFICATION Spec
CONSTANTS
    MaxCapacity = 3
    Times = {1, 2, 3}
    NoRecord = NoRecord
    MaxEvicted = 7
INVARIANTS
    SinceReturnsAllRecent
PROPERTY ImplementsBoundedHistory
