SPECIFICATION StatefulSpec
CONSTANTS
    Node = {n1}
    MaxRelease = 3
    MaxDeployment = 2
    MaxAssignment = 3
    MinReplicas = 1
    ScaleToZero = FALSE
    Stateful = TRUE
    Inputs = {"deploy"}
    MaxInFlight = 2
    RetentionKeep = 3
    Faults = {}
    Reports = {}
    MaxAttempts = 3
    Health = {"HEALTHY"}
    AgentFaults = {}
    StaleEvaluation = FALSE
    StaleRequests = TRUE
CHECK_DEADLOCK FALSE
INVARIANTS
    SingleWriter
