SPECIFICATION Spec
CONSTANTS
  NoToken = NoToken
  Tabs = {a, b}
  MaxLogins = 2
  MaxCalls = 1
PROPERTIES SessionEndsForReason EndIsNoticed
