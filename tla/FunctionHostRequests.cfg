SPECIFICATION FairSpec
CONSTANTS
  Functions = {f}
  Instances = {1, 2, 3}
  Requests = {r}
  Boot = boot
  Hmr = hmr
  Env = env
  Shared = shared
  Dependents = {f}
  None = None
  Modes = {TRUE, FALSE}
  Faults = {"prepare", "import"}
  Concurrency = 1
  EnvChanges = {}
  MaxEvents = 2
CHECK_DEADLOCK FALSE
INVARIANT RequestsSurviveReloads
PROPERTY EditsGetServed
