SPECIFICATION FairSpec
CONSTANTS
  Commands = {c1, c2}
  MayStop = TRUE
  MaxClock = 2
  MaxReboots = 1
INVARIANT ExecutedOnce
PROPERTIES FalseTimeoutIsEarly ImplementsLedger PendingSettles
CHECK_DEADLOCK FALSE
