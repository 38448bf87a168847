SPECIFICATION FairSpec
CONSTANTS
    Compactor = {c1, c2}
    Partitions = 2
    KeysOf <- MCKeys
    L0Fanout = 1
    Fanout = 2
    Limit = 1
    Mortal = {c1}
    Erasable = {2}
    MaxFault = 1
    None = None
    Gone = Gone
INVARIANTS
    RowsConserved
    TurnWithinOneRotation

    
CHECK_DEADLOCK FALSE
