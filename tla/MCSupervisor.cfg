\* Two roles that both write, one of them polling; two outages, one broken
\* connection.
CONSTANTS
    Worker = {"ingest", "gc"}
    Polling = {"gc"}
    MaxOutage = 2
    MaxBlip = 1
SPECIFICATION FairSpec
INVARIANTS
    
    NoWorkInDoubt
PROPERTIES
    ServesOrEnds
CHECK_DEADLOCK FALSE
