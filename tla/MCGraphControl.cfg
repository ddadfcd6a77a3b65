SPECIFICATION FairSpec
CONSTANTS
    Plans <- AllPlans
    FailureThreshold = 2
    MaxPauses = 1
    MaxCrashes = 1
INVARIANTS VerifiedSuccess  
PROPERTIES Progress
CHECK_DEADLOCK FALSE
