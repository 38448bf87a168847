SPECIFICATION FairSpec
CONSTANTS
    Path = {p1, p2}
    Gc = {g1, g2}
    Query = {q1}
    OrphanGrace = 2
    TombGrace = 2
    MaxInflight = 0
    MaxTxn = 1
    MaxQuery = 0
    MaxList = 1
    None = None
INVARIANTS NothingMissing
PROPERTIES NothingLeaks
