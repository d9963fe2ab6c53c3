SPECIFICATION Spec
CONSTANTS
  Devices = {d1}
  Samples = 2
  PersistEveryN = 2
  AllowAutoRegister = FALSE
  MaxCtr = 2
  MaxChunk = 2
  MaxRuns = 2
SYMMETRY DeviceSymmetry
INVARIANTS NoReplayWithinRun
CHECK_DEADLOCK FALSE
