SPECIFICATION FairSpec
CONSTANTS
  Axes = 2
  Timeout = 1
  NaN = NaN
  TwistInputs <- MCTwists
  StickInputs = {0, 1000}
  MaxStick = 12
INVARIANTS TypeOK NoStaleComponent
PROPERTIES SilenceStops ReleasedStickStops
