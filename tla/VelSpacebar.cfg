SPECIFICATION Spec
CONSTANTS
  Axes = 2
  Timeout = 1
  NaN = NaN
  TwistInputs = {0, 500}
  StickInputs <- MCSticks
  MaxStick = 0
PROPERTIES StopStops
