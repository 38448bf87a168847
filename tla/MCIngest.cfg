SPECIFICATION FairSpec
CONSTANTS
    Process = {"w"}
    Route = {"r", "q"}
    Task <- TwoRoutes
    Partition = {"a", "b"}
    RouteOf <- Topics
    Existing = {"r"}
    Log <- Mixed
    MaxOffset = 4
    Loaded <- TwoParts
    DayLength = 2
    MaxEventAge = 0
    MaxEventFuture = 2
    MaxBufferRows = 1
    SlowdownParts = 1
    StopParts = 2
    CompactAt = 2
    MaxNow = 1
    MaxFault = 2
INVARIANTS
    ExactlyOnce
    BufferBounded
    CleanStopStrandsNothing

    
CHECK_DEADLOCK FALSE
