SPECIFICATION Spec
CONSTANTS
    None = None
    Topics = {t1}
    Groups = {g1}
    Pages = {p1}
    Capacity = 1
    WireCap = 1
    Attempts = 1
INVARIANTS PageFresh
CONSTRAINT HasStream
