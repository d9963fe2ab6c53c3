SPECIFICATION Spec
CONSTANTS
  Devices = {d1, d2}
  Samples = 2
  PersistEveryN = 2
  AllowAutoRegister = TRUE
  MaxCtr = 2
  MaxChunk = 2
  MaxRuns = 2
SYMMETRY DeviceSymmetry
INVARIANTS ReplayWindow ReplayNeedsOverlap WrongOnlyMidway GhostOnce AcceptedIsStored
PROPERTY ImplementsLog
CHECK_DEADLOCK FALSE
