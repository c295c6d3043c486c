CONSTANTS
    Labels = {1, 2}
    Values = {v1}
    B = 2
    LeafB = 4
    MaxHeight = 1
    InitialHeights = {0}
    InitialLabels = {}
    FailedDeletesAt = {1}
    Null = Null
SPECIFICATION Spec
PROPERTIES AnswersLikeADictionary
