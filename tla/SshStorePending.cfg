CONSTANTS
    Copiers = {t1, t2}
    Values = {v1, v2}
    BufSize = 1
    MaxLen = 2
    MaxTasks = 1
    DeletesUnwritten = FALSE
    Nothing = Nothing
SPECIFICATION Spec
INVARIANT TasksAreCompleted
CHECK_DEADLOCK FALSE
