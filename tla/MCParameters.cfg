SPECIFICATION ParamSpec
CONSTANTS
  Texts <- MCTexts
  Round <- MCRound
  Half = Half
  Min = 2
  Max = 3
  Default = 2
  MaxSaves = 2
  Faults = {"lost", "crash", "failed", "nvs"}
  None = None
INVARIANTS ParamAgrees  FormHolds
CHECK_DEADLOCK FALSE
