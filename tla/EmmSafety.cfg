CONSTANTS
    Requests = {r1, r2, r3}
    Keys = {k1, k2}
    Ops = {"set", "get", "del"}
    NumBlocks = 3
    Parts = {lo, hi}
    IntactChoices = {TRUE, FALSE}
    ExclusiveKeys = FALSE
    MaxFaults = 1
    MaxHirbRestarts = 1
    MaxEmmRestarts = 1
    Blank = Blank
SPECIFICATION Spec
SYMMETRY Symmetry
INVARIANTS TypeOK IndexIsolation ReadsOwnKey NoStaleRead
CHECK_DEADLOCK FALSE
