CONSTANTS
    Batches = {b1, b2, b3}
    Items = {t1, t2, t3}
    Rids = {i1}
    Skippable = {}
    NoItem = NoItem
    Keys = {k1, k2}
    NumBlocks = 3
    Parts = {all}
    Blank = Blank
    IntactChoices = {TRUE, FALSE}
    MaxFaults = 0
    MaxHirbRestarts = 0
    MaxEmmRestarts = 0
    DisjointKeys = TRUE
    MaxDeadlines = 1
SPECIFICATION Spec
SYMMETRY Symmetry
INVARIANTS AnswersLastWrite PlaintextAnswers
CHECK_DEADLOCK FALSE
