SPECIFICATION FairSpec
CONSTANTS
  Procs = {gateway}
  NoInstall = NoInstall
  Requests <- MCRequests
  Batches <- MCBatches
  OnHost <- Nothing
  Refused <- MCRefused
  Reload = {FALSE, TRUE}
  MaxEnsures = 2
  MaxKills = 1
INVARIANT CachesAreWhole
PROPERTY EnsuredMeansPresent
PROPERTY EnsureSettles
