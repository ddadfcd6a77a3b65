\* Credentials, remote MCP and plugin life cycle with overlapping and lost calls.
SPECIFICATION Spec
CONSTANTS
  Clients = {c1, c2}
  MaxConns = 2
  MaxHandles = 3
  MaxSecrets = 5
  MaxClock = 2
  FailureThreshold = 2
  Listings <- MCListings
  Workspaces = {home, other}
  Home = home
  Packages <- MCPackages
  Versions <- MCVersions
  Caps <- MCCaps
  Declared <- MCDeclared
  GrantedPermissions <- MCPermissions
  AllowUnverifiedDev = TRUE
  KeyLevel = "SIGNED_THIRD_PARTY"
  MaxEvents <- MCEvents
SYMMETRY Symmetry
INVARIANTS
  RevocationHolds
  DisabledStaysOff
  
CHECK_DEADLOCK FALSE
