CONSTANTS
    Labels = {1, 2, 3}
    Values = {v1, v2}
    B = 2
    LeafB = 4
    MaxHeight = 2
    InitialHeights = {0, 1, 2}
    InitialLabels = {}
    FailedDeletesAt = {0}
    Null = Null
SPECIFICATION Spec
INVARIANTS TypeOK HistoryIndependent SizeIsItemCount
PROPERTIES AnswersLikeADictionary SamePattern
