SPECIFICATION MCSpec
CONSTANTS
    Attempt = {p1, s1, s2, s3}
    Loaded = {p1}
    Reader = {}
    Adds = {"f01", "f12", "mv"}
    Lane = {l1, l2}
    l1 = l1
    l2 = l2
    Row <- MCRow
    AddRows <- MCAddRows
    AddRange <- MCAddRange
    Victim <- MCVictim
    LegacyKeys = {}
    NoKey = NoKey
    NoRange = NoRange
    NoAdd = NoAdd
    Nobody = Nobody
    NoCursor = NoCursor
SYMMETRY Symmetry
INVARIANTS
    OutcomeTruthful
    LandsOnce
CHECK_DEADLOCK FALSE
