SPECIFICATION FilesSpec
CONSTANTS
    MaxBitmapKeys = 2
    MaxFilterKeys = 2
    Tiers <- MCTiers
    Probes <- MCProbes
    MinInt <- MCMinInt
    MaxInt = 1
    Null = Null
    None = None
    Inputs <- MCInputs
    BatchRows = 2
    Cap = 2
    TopByte = 1
    Variants <- MCVariants
    Specs <- MCSpecs
    Predicates <- MCPredicates
    snap = snap
    reco = reco
    child = child
    r1 = r1
    s1 = s1
    o1 = o1
    o2 = o2
    o3 = o3
    Dir = {snap, reco, child}
    Scenarios <- MCScenarios
    Job = {j1, j2}
    Receipt = {1, 2}
    Late = {3}
    LocalFiles <- MCLocal
    Baseline <- MCBaseline
    Deltas <- MCDeltas
    Narrow = {1, 2}
    Artifact = {snap, reco, child}
    Name = {r1, s1, o1, o2, o3}
    Proc = {p1, p2}
    Kind <- MCKind
    Recorded <- MCRecorded
    Damage <- MCDamage
    Query <- MCQuery
    Plans <- MCPlans
    Samples = 2
    Worlds <- MCWorlds
    Base = 8
    Word = 1
    Kilo = 2
    Cases <- MCCases
    SparseChunks = 4
    Percent = {0, 10, 50, 97, 100}
    Artifacts <- MCArtifacts
    Tables <- MCTables
    Outputs <- MCOutputs
    JsonFlushes <- MCJsonFlushes
    PackingKey = "k"
    TsColumn = "ts"
    MaxBytes = 14
    MaxWrites = 3
    MaxRewrites = 2
    MaxClock = 2
    Attempts <- MCAttempts
    Loader = {l1, l2, l3}
    Fixture <- MCFixture
    Changed <- MCChanged
    LoadPlans <- MCLoadPlans
    Faults = 2
    Request = {"one", "two"}
    Asks <- MCAsks
    Histories <- MCHistories
    Physical = {"k", "x", "y"}
    Alias <- MCAlias
    Capacity = 1
    Turns = 1
SYMMETRY Symmetry
INVARIANTS
    MergeSortsIntoChains
    PrunedScanComplete
    NoFalseSkip
    
    
    
    PlansFair
    
    RetriesRecognized
    MeasuredIsLoaded
    AnswersTrue
CHECK_DEADLOCK FALSE
