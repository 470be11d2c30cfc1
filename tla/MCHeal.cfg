SPECIFICATION HealSpec
CONSTANTS
    n1 = n1
    n2 = n2
    Node = {n1, n2}
    MaxRelease = 1
    MaxDeployment = 1
    MaxAssignment = 6
    MinReplicas = 1
    ScaleToZero = FALSE
    Stateful = FALSE
    RetentionKeep = 1
    Inputs = {}
    MaxInFlight = 1
    Faults = {}
    Reports = {"RUNNING", "HEALTHY"}
    NodeOps = {"drain", "uncordon", "down", "up", "remove"}
    MaxNodeOps = 4
    Addr = {"a", "b"}
    KeepaliveInterval = 2
    PathMisses = 1
    PunchAfter = 1
    PunchCooldown = 2
    RelayAfter = 2
    MaxChanges = 2
CHECK_DEADLOCK FALSE
INVARIANTS
    DrainedEmpty
    DrainKeepsReplicas
PROPERTIES
    DrainsEnd
    Converges
    StablePathKept
    RelayFallback
    ReachableVerified
