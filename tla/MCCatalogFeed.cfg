SPECIFICATION FairSpec
CONSTANTS
    Attempt = {s1, s2}
    Loaded = {}
    Reader = {r1}
    Adds = {"both", "both1", "old"}
    Lane = {l1, l2}
    l1 = l1
    l2 = l2
    Row <- MCRow
    AddRows <- MCAddRows
    AddRange <- MCAddRange
    Victim <- MCVictim
    LegacyKeys <- MCLegacy
    NoKey = NoKey
    NoRange = NoRange
    NoAdd = NoAdd
    Nobody = Nobody
    NoCursor = NoCursor
INVARIANTS
    FeedComplete
PROPERTIES
    AtomicLog
    NothingWaitsForever
