SPECIFICATION FairSpec
CONSTANTS
  Jobs = {j1, j2}
  v1 = v1
  v2 = v2
  v3 = v3
  v4 = v4
  None = None
  Versions <- MCVersions
  Packages <- MCPackages
  Requests <- MixedRequests
  Faults <- LateFaults
  Installed <- MCInstalled
  RetainVersions = 2
  MaxCrashes = 1
PROPERTY QueuedJobEnds
