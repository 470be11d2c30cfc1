SPECIFICATION StatefulSpec
CONSTANTS
    Node = {n1}
    MaxRelease = 3
    MaxDeployment = 2
    MaxAssignment = 3
    MinReplicas = 1
    ScaleToZero = FALSE
    Stateful = TRUE
    Inputs = {"deploy", "git"}
    MaxInFlight = 1
    RetentionKeep = 3
    Faults = {"failover"}
    Reports = {}
    MaxAttempts = 1
    Health = {"HEALTHY"}
    AgentFaults = {"startFails", "lostStatus"}
    StaleEvaluation = FALSE
    StaleRequests = FALSE
CHECK_DEADLOCK FALSE
INVARIANTS
    StatefulTypeOK
    SingleWriter
PROPERTIES
    SwitchedToRunning
