SPECIFICATION Spec
CONSTANTS
    c1 = c1
    c2 = c2
    c3 = c3
    Calls = {c1, c2, c3}
    Requests <- AllRequests
INVARIANTS AtMostOnce EffectGoverned 
SYMMETRY Symmetry
CHECK_DEADLOCK FALSE
