SPECIFICATION Spec
CONSTANTS
  None = None
  MaxClicks = 2
  MaxAuto = 1
  MaxGets = 1
  Faults = {"lost", "crash", "failed", "drop"}
INVARIANTS ModeAgrees ShownRelayHolds ShownModeHolds
PROPERTY CopyCatchesUp
CHECK_DEADLOCK FALSE
