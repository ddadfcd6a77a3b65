CONSTANTS
    Sessions = {"s1", "s2"}
    Calls <- MCCalls
    Layouts <- MCLayouts
    MaxEvents = 1
    MaxServers = 2
SPECIFICATION Spec
INVARIANTS StreamsSound TerminalIsOwn
 
CHECK_DEADLOCK FALSE
