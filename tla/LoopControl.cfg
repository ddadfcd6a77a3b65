SPECIFICATION Spec
CONSTANTS
    MaxIterations = 4
    MaxTurns = 5
    MaxToolCalls = 2
    NoProgressWindow = 2
    RepeatedFailureThreshold = 2
    ProviderFailureThreshold = 2
    Fingerprints = {"f1"}
    MaxInterrupts = 2
INVARIANTS BudgetFollowsLedger StagnationIsReal
PROPERTY LoopEventuallyStops
CHECK_DEADLOCK FALSE
