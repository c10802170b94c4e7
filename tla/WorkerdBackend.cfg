SPECIFICATION FairSpec
CONSTANTS
  Children = {p1, p2, p3}
  f = f
  g = g
  hmr = hmr
  env = env
  ed1 = ed1
  None = None
  Functions <- MCFunctions
  Watchers <- Hmr
  Reloaders <- Env
  Editors <- Editor
  Initial <- FOrNothing
  Saves <- OneByOne
  Modes = {TRUE, FALSE}
  Faults <- AllFaults
  MAX_CRASHES = 1
  MaxSaves = 1
  MaxShared = 1
  MaxRequests = 1
  MaxIncidents = 2
INVARIANT ChildrenAccountedFor
INVARIANT KnownIsServed
INVARIANT SharedCallsArrive
 
PROPERTY CallsSettle
 
