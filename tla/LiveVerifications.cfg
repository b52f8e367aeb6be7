SPECIFICATION Spec
CONSTANTS
    MaxSandboxes = 3
    MaxOperations = 11
    MaxFaults = 2
    MaxAttempts = 2
    Ends <- EveryEnd
    None = None
INVARIANTS
    CertifiedWorlds
    NothingLeftRunning
    AccountingSurvives
PROPERTIES
    RunIsAnswered
CHECK_DEADLOCK FALSE
