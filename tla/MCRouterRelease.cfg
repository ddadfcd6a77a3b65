SPECIFICATION Spec
CONSTANTS
    None = None
    c1 = c1
    c2 = c2
    r1 = r1
    r2 = r2
    r3 = r3
    b1 = b1
    b2 = b2
    Candidates <- MCCandidates
    Receipts <- MCReceipts
    Budgets <- MCBudgets
    TrialCap <- MCTrialCap
    CostCap <- MCCostCap
    HashRank <- MCHashRank
    Scenarios <- MCScenarios
    Operators = {o1, o2}
    Keys = {"k"}
    Causes = {"regressed"}
    MinPaired = 1
    Slots = 2
    MaxDay = 1
INVARIANTS
    LedgerChain
    EvidenceBehindRelease
    OvershootBounded
SYMMETRY Symmetry
CHECK_DEADLOCK FALSE
