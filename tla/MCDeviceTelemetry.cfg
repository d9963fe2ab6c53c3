SPECIFICATION Spec
CONSTANTS
  Capacity = 6
  BatchSize = 2
  Reserve = 4
  NvsFaults = {"lost", "open", "commit"}
  MaxSamples = 11
  MaxBoots = 3
INVARIANTS CounterStaysFresh BufferHoldsNewest FlushStrandsNothing
PROPERTIES SamplesGoForward ImplementsSampleQueue
CHECK_DEADLOCK FALSE
