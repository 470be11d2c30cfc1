SPECIFICATION ServicesSpec
CONSTANTS
    c1 = c1
    w1 = w1
    w2 = w2
    Node = {c1, w1, w2}
    Control = {c1}
    GossipStale = 1
    Deadline = 2
    Grace = 3
    Gossip = TRUE
    Ops = {"crash", "drain", "cordon", "uncordon", "rewrite", "remove"}
    MaxTerm = 2
    MaxRequest = 2
    r1 = r1
    r2 = r2
    Replica = {r1, r2}
    Call = {1, 2, 3}
    Addresses = 2
    t1 = t1
    t2 = t2
    JoinToken = {t1, t2}
    SingleUse = {t1}
    meshIPRetries = 2
    MaxMoves = 2
    MaxRemovals = 1
    Ingress = {1, 2}
    HttpRequest = {1, 2}
    Serverless = FALSE
    IdleTimeout = 3
    ColdStart = 1
    holdTimeout = 3
    activationDebounce = 1
    maxParked = 1
    WakeFaults = {"election"}
    MaxFaults = 1
    Layer = {"l1", "l2"}
    Manifest = {"m1", "m2"}
    Index = {"x1"}
    Edges <- SharedLayers
    Repo = {"p"}
    Tag = {"t1", "t2"}
    Worker = {1, 2}
    MaxSegment = 2
    RetentionLines = 2
    subscriberBuffer = 1
    LogFaults = {"crash", "full", "torn"}
    MaxLines = 4
    MaxLate = 1
    MaxLogFaults = 2
CHECK_DEADLOCK FALSE
INVARIANTS
    RunningNotDown
    JoinTypeOK
    TokenUsedOnce
    AddressesDistinct
    AddressKept
    ServicesTypeOK
    HeldIsServed
    RefsExact
    TaggedPullable
    LogKept
    QueryExact
    FollowComplete
PROPERTIES
    BusyNotCooled
