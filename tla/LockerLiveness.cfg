CONSTANTS
    Batches = {b1}
    Items = {t1, t2}
    Rids = {i1}
    Skippable = {t1}
    NoItem = NoItem
    Keys = {k1}
    NumBlocks = 3
    Parts = {all}
    Blank = Blank
    IntactChoices = {TRUE}
    MaxFaults = 1
    MaxHirbRestarts = 1
    MaxEmmRestarts = 1
    DisjointKeys = FALSE
    MaxDeadlines = 1
SPECIFICATION FairSpec
INVARIANTS NoLostEntry AnswerIsComplete
PROPERTIES EveryBatchAnswered EveryRequestAnswered
CHECK_DEADLOCK FALSE
