SPECIFICATION Spec
CONSTANT Scenarios <- MCScenarios
CHECK_DEADLOCK FALSE
INVARIANTS
  NoUncheckedWork
  AcceptedMaterializes
  RevisionsTellGraph
