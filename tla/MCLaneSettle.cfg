SPECIFICATION FairSpec
CONSTANTS
    None = None
    Items = {a}
    Writers = {w1}
    Followers = {}
    Caches = TRUE
INVARIANTS ArmedWake RefreshPromise ReadYourWrite
PROPERTIES SettleEnds
