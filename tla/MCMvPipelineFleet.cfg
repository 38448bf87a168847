SPECIFICATION FairSpec
CONSTANTS
    Replica = {r1}
    NumPipelines = 2
    Skips = {2}
    MaxCommit = 2
    MaxLate = 1
INVARIANTS
    UnreadKept
PROPERTIES
    SkippersProgress
