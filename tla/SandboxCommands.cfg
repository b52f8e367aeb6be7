SPECIFICATION AdapterSpec
CONSTANTS
    MaxSandboxes = 1
    MaxOperations = 3
    MaxFaults = 2
    Ends <- EveryEnd
    None = None
INVARIANTS
    VerifiedMeansStopped
    CommandsBuildOn
CHECK_DEADLOCK FALSE
