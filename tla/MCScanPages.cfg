SPECIFICATION Spec
CONSTANTS
    Reads <- EveryRead
    MaxLimit = 2
    MinWindow = 2
    Multiplier = 1
    SearchMultiplier = 0
    MaxFilterPasses = 2
    MarksFail = FALSE
INVARIANTS StepsOverNothing NothingTwice HasEveryRecord
PROPERTIES ReadEnds
