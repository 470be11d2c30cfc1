SPECIFICATION WakeSpec
CONSTANTS
    Ingress = {1, 2}
    HttpRequest = {1, 2}
    Serverless = TRUE
    IdleTimeout = 3
    ColdStart = 1
    holdTimeout = 3
    activationDebounce = 1
    maxParked = 1
    WakeFaults = {}
    MaxFaults = 1
CHECK_DEADLOCK FALSE
INVARIANT HeldNotTimedOut
