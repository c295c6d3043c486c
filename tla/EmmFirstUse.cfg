CONSTANTS
    Requests = {r1, r2}
    Keys = {k1}
    Ops = {"set", "get"}
    NumBlocks = 4
    Parts = {lo, hi}
    IntactChoices = {TRUE}
    ExclusiveKeys = FALSE
    MaxFaults = 0
    MaxHirbRestarts = 0
    MaxEmmRestarts = 0
    Blank = Blank
SPECIFICATION Spec
PROPERTIES KeyKeepsItsIndex
CHECK_DEADLOCK FALSE
