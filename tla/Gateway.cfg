SPECIFICATION FairSpec
CONSTANTS
  Functions = {f}
  Public = {}
  Requests = {r1, r2}
  Clients = {c}
  Tokens = {t}
  ExpiresAt <- MCExpiresAt
  Backends = {"bun", "workerd"}
  Rpm = 1
  TicksPerToken = 2
  MaxBuckets = 1
  CacheSize = 1
  ErrorWindow = 2
  ErrorLimit = 2
  Cooldown = 1
  MaxTime = 2
  MaxEvents = 2
  None = None
CHECK_DEADLOCK FALSE
INVARIANT AdmittedByTheRules
PROPERTY BreakerTripsOnFailures
PROPERTY AllAnswered
