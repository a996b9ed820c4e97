SPECIFICATION Spec
CONSTANTS
    Reads <- SlowBrowsing
    MaxLimit = 2
    MinWindow = 2
    Multiplier = 1
    SearchMultiplier = 1
    MaxFilterPasses = 2
    MarksFail = FALSE
INVARIANTS StepsOverNothing
