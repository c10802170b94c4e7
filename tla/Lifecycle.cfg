SPECIFICATION FairSpec
CONSTANTS
  Requests = {2, 3}
  OldRows <- MCOldRows
  Writers <- MCWriters
  Retention = 1
  MaxRows = 1
  Limit = 1
  Faults = {"logs", "backend", "port", "disk", "stop"}
  StartTime = 2
  MaxTime = 3
CHECK_DEADLOCK FALSE
INVARIANT ShutdownIsOrderly
INVARIANT ReadersMissNothing
PROPERTY ShutdownEnds
