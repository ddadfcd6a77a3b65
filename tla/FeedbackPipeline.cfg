SPECIFICATION Spec
CONSTANTS
    Claims <- MCClaims
    Required <- MCRequired
    Scenarios <- MCScenarios
INVARIANTS
    ContradictionWithheld
    SnapshotHonoursRetraction
 
