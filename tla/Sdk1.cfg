SPECIFICATION FairSpec
CONSTANTS
  NumJoints = 2
  MaxSteps = 3
  MaxNo = 1
INVARIANTS
  TypeOK
  PoseNotBehindPress
PROPERTIES
  SentNeverGoesBack
  ShutdownCompletes
  HeldPressStarts
