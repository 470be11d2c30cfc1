SPECIFICATION ClusterSpec
CONSTANTS
    n1 = n1
    n2 = n2
    Node = {n1, n2}
    MaxRelease = 1
    MaxDeployment = 1
    MaxAssignment = 2
    MinReplicas = 1
    ScaleToZero = FALSE
    Stateful = FALSE
    RetentionKeep = 1
    Inputs = {}
    MaxInFlight = 1
    Faults = {}
    Reports = {"RUNNING", "HEALTHY"}
    NodeOps = {"drain"}
    MaxNodeOps = 1
CHECK_DEADLOCK FALSE
INVARIANTS
    Served
