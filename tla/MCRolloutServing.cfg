SPECIFICATION StableSpec
CONSTANTS
    n1 = n1
    Node = {n1}
    MaxRelease = 3
    MaxDeployment = 2
    MaxAssignment = 3
    MinReplicas = 1
    ScaleToZero = FALSE
    Stateful = FALSE
    Inputs = {"deploy", "rollback", "git", "upload"}
    MaxInFlight = 2
    RetentionKeep = 3
    Faults = {}
    Reports = {"RUNNING", "HEALTHY"}
CHECK_DEADLOCK FALSE
INVARIANTS
    TypeOK
    ExclusiveRollout
    NoLeakedGreen
    DrainingHasSwitched
    ServingHealthy
PROPERTIES
    ServingRefined
    DeploymentsEnd
