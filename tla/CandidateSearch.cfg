SPECIFICATION Spec
CONSTANT Scenarios <- MCScenarios
CHECK_DEADLOCK FALSE
INVARIANTS
  PromotedOnce
  ChargedOnce
PROPERTIES
  CancelledNeverPromotes
  
