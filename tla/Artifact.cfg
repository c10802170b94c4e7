SPECIFICATION Spec
CONSTANTS
  Functions = {f, g}
  Declaring = {f}
  Targets <- MCTargets
  User = user
  Marker = marker
  Torn = torn
  None = none
  MaxEdits = 1
  MaxBuilds = 2
  MaxPackages = 2
  MaxStops = 1
CHECK_DEADLOCK FALSE
INVARIANT VerificationIsRight
INVARIANT FingerprintNamesContent
INVARIANT RoutesReachFunctions
