SPECIFICATION MCSpec
CONSTANTS
  N = 4
  Entries <- MCEntries
  Lengths <- MCLengths
  FrameSizes <- MCFrameSizes
  MotorArrays <- MCMotorArrays
  Angles <- MCAngles
  Deviations <- MCDeviations
  Clips <- MCClips
  StepCounts <- MCStepCounts
INVARIANTS
  ConfigTypeOK
  ObservedOrIdentity
  LoadedInBounds
  LoadedObserves
  RampsArrive
PROPERTIES
  StepBounded
CHECK_DEADLOCK FALSE
