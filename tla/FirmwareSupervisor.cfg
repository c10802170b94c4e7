SPECIFICATION Spec
CONSTANTS
  Jobs = {j1, j2, j3}
  v1 = v1
  v2 = v2
  v3 = v3
  v4 = v4
  None = None
  Versions <- MCVersions
  Packages <- MCPackages
  Requests <- MixedRequests
  Faults <- AllFaults
  Installed <- MCInstalled
  RetainVersions = 3
  MaxCrashes = 1
SYMMETRY Symmetric
INVARIANT SlotsOnDisk
INVARIANT GatewayDirIntact
INVARIANT CandidateOwned
INVARIANT PreemptedHasSuccessor
INVARIANT LiveIsCurrent
PROPERTY PreemptedNeverPromotes
PROPERTY ImplementsSlots
