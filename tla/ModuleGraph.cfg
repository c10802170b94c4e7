SPECIFICATION Spec
CONSTANTS
  Shared = shared
  None = None
  f = f
  g = g
  Functions <- MCFunctions
  Entry <- MCEntry
  Imports <- MCImports
  Start <- MCStart
  Map <- MCMap
  Deletable <- MCDeletable
  Keys = {"key"}
  EnvStart <- MCEnvStart
  MaxEdits = 2
CHECK_DEADLOCK FALSE
INVARIANT GraphsAreHonest
INVARIANT NewestCodeRuns
 
