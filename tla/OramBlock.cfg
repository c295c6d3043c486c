CONSTANTS
    NumBlocks = 3
    WordBytes = 2
    BlockBytes = 4
    MaxByte = 1
    MaxLen = 5
    Keys = {k1, k2}
    Vals = {v1, v2}
    NoVal = NoVal
    WarmUp = 2
    TotalRuns = 2
    MaxFaults = 2
SPECIFICATION Spec
SYMMETRY Symmetry
INVARIANTS TypeOK ReadBack DamageIsAtTheEnd NothingStale AgreesWithPlaintext BlocksSuffice
CHECK_DEADLOCK FALSE
