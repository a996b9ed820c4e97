SPECIFICATION Spec
CONSTANTS
    None = None
    r1 = r1
    r2 = r2
    c1 = c1
    c2 = c2
    c3 = c3
    Topics = {t1, t2}
    Pages = {r1, r2}
    Readers = {c1, c2, c3}
    Ends = 1
    MaxPerTopic = 1
    MaxTotal = 2
    Ttl = 1
SYMMETRY PoolSymmetry
INVARIANTS OneOwner ReadsItsWindow IdleReaderCloses
