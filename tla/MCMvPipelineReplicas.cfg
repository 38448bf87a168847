SPECIFICATION Spec
CONSTANTS
    Replica = {r1, r2}
    NumPipelines = 1
    Skips = {1}
    MaxCommit = 3
    MaxLate = 1
SYMMETRY Symmetry
INVARIANTS CursorCovers NeverUnavailable
PROPERTIES InOrderOnce
