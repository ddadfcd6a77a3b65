CONSTANTS
    Runs = {"r1", "r2"}
    Cases <- MCCases
    Scenarios <- MCScenarios
    Worlds <- MCWorlds
    WorldChange <- MCWorldChange
    MaxAttempts = 2
SPECIFICATION FairSpec
INVARIANTS ChainLinear  SelectionSound
PROPERTY NodeSettles
CHECK_DEADLOCK FALSE
