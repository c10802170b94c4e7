SPECIFICATION WatchdogSpec
CONSTANTS
  c1 = c1
  c2 = c2
  None = None
  Children <- MCChildren
  Ports = {1, 2}
  Leftovers = {"workerd", "other"}
  Mortals <- MCChildren
  Cleanups = {"off", "owner"}
  MAX_CRASHES = 1
  Hysteresis = 2
  Modes = {TRUE, FALSE}
INVARIANT NoStolenTraffic
INVARIANT ChildrenAccountedFor
PROPERTY OverBudgetIsActedOn
