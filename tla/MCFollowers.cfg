SPECIFICATION SumSpec
CONSTANTS
    None = None
    Items = {a, b}
    Writers = {}
    Followers = {f1}
    Caches = FALSE
    Partitions = {0, 1}
    Times = {1, 2}
    Kinds <- Filtered
    BatchLimit = 1
    Backlog = 1
    Heartbeat = 1
    MaxLive = 1
    ListMax = 2
    MaxLog = 2
INVARIANTS FollowerFresh FrameIsNewest FramesGoForward EveryRecordCounted
PROPERTIES FeedImplemented FollowerCatchesUp EndedTailCloses
