SPECIFICATION Spec
CONSTANTS
  Sessions = {s1, s2}
  Names = {1, 2}
  Firmwares <- MCFirmwares
  None = None
  Faults = {"io", "bundle", "artifact"}
  MaxSaves = 2
  MaxIncidents = 1
SYMMETRY Symmetric
CHECK_DEADLOCK FALSE
INVARIANT StoreIsSound
INVARIANT FirmwareStaysServed
 
