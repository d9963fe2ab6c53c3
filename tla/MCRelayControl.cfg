SPECIFICATION FairSpec
CONSTANTS
  Delay = 2
INVARIANTS RelayCoherent UserCommandHolds StrayOnce
PROPERTIES AutoControlActs ImplementsSocket
