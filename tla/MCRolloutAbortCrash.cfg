SPECIFICATION Spec
CONSTANTS
    Node = {n1}
    MaxRelease = 3
    MaxDeployment = 2
    MaxAssignment = 3
    MinReplicas = 1
    ScaleToZero = FALSE
    Stateful = FALSE
    Inputs = {"deploy"}
    MaxInFlight = 1
    RetentionKeep = 3
    Faults = {"failover"}
    Reports = {"RUNNING", "HEALTHY", "FAILED"}
CHECK_DEADLOCK FALSE
INVARIANTS
    ServingStaffed
