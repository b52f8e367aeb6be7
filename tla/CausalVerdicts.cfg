SPECIFICATION Spec
CONSTANTS
    q1 = q1
    q2 = q2
    base = base
    patched = patched
    builder = builder
    None = None
    Requirements <- MCRequirements
    Trees <- MCTrees
    BaseTree = base
    Builder = builder
    Reports <- MCReports
    Runners = {"engine", "genuine engine", "worker"}
    MaxRuns = 2
    MaxFaults = 1
INVARIANTS
    VerifiedIsCausal
    LastExecutionHasAuthority
    SandboxesTornDown
SYMMETRY MCSymmetry
CHECK_DEADLOCK FALSE
