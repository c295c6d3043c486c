CONSTANTS
    Requests = {r1, r2, r3}
    Keys = {k1, k2}
    Ops = {"set", "get", "del", "other"}
    NumBlocks = 3
    Parts = {lo, hi}
    IntactChoices = {TRUE, FALSE}
    ExclusiveKeys = TRUE
    MaxFaults = 0
    MaxHirbRestarts = 0
    MaxEmmRestarts = 0
    Blank = Blank
SPECIFICATION FairSpec
INVARIANTS AckedWriteReadable
PROPERTIES ImplementsMap
CHECK_DEADLOCK FALSE
