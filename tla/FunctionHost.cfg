SPECIFICATION Spec
CONSTANTS
  Functions = {f, g}
  Instances = {1, 2, 3, 4}
  Requests = {}
  Boot = boot
  Hmr = hmr
  Env = env
  Shared = shared
  Dependents = {f}
  None = None
  Modes = {TRUE, FALSE}
  Faults = {"prepare", "import"}
  Concurrency = 1
  EnvChanges = {0, 1}
  MaxEvents = 2
CHECK_DEADLOCK FALSE
INVARIANT TablesAreTrue
INVARIANT ReferencesExact
INVARIANT QuietServesNewest
