SPECIFICATION FairSpec
CONSTANTS
    None = None
    Groups = {g1}
    Streams = {s1}
    Resets = {w1}
    Offsets = {1, 2}
    Fast = 1
    Slow = 2
    Ttl = 1
    CanFail = TRUE
    Churn = TRUE
INVARIANTS LagTold
PROPERTIES WatchedIsRead ResetShown
