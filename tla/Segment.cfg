\* Four snapshots under five sets of limits, two faults, four wrong readings.
SPECIFICATION Spec
CONSTANTS
    Snapshots <- MCSnapshots
    LimitSets <- MCLimits
    Flips = {0, 1, 2, 9}
    MaxFaults = 2
INVARIANTS DecodesAPrefix CleanMeansWhole
CHECK_DEADLOCK FALSE
