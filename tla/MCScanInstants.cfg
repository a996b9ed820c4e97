SPECIFICATION Spec
CONSTANTS
    Reads <- Ranges
    MaxLimit = 2
    MinWindow = 2
    Multiplier = 1
    SearchMultiplier = 1
    MaxFilterPasses = 2
    MarksFail = FALSE
INVARIANTS KeepsStamped
