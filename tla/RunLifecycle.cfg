SPECIFICATION FairSpec
CONSTANTS
    Tasks = {t1, t2}
    Callers = {c1}
    Verdicts = {"SUCCEEDED", "REQUIRES_HUMAN"}
    MaxIterations = 2
    MaxAttempts = 2
    MaxCalls = 3
    MaxCrashes = 1
INVARIANTS OneTerminalEvent 
PROPERTIES Reconciled EveryoneFinishes
CHECK_DEADLOCK FALSE
