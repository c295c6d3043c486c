CONSTANTS
    Copiers = {t1, t2}
    Values = {v1, v2}
    BufSize = 1
    MaxLen = 2
    MaxTasks = 1
    DeletesUnwritten = TRUE
    Nothing = Nothing
SPECIFICATION FairSpec
INVARIANTS TypeOK BlockIsSomewhere OneWriterPerFile AwaitedReadsSucceed ClosedIsStored
PROPERTIES EveryCallEnds ImplementsFileStore
CHECK_DEADLOCK FALSE
