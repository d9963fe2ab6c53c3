SPECIFICATION ChartSpec
CONSTANTS
  Day = 2
  Duration = 5
  MaxRequests = 3
  Nothing = Nothing
INVARIANTS ChartFollowsRange AxisIsCovered
