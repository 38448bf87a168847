CONSTANTS
    Worker = {w1, w2}
    Txn = {x1, x2}
    Ttl = 1
    MaxGen = 3
    MaxPart = 3
    None = None
SPECIFICATION Spec
SYMMETRY Symmetry
INVARIANTS StaleTokenPowerless ConflictOnlyUnleased
PROPERTIES LandsInItsTenancy 
