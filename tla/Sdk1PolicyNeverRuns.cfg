SPECIFICATION FairSpec
CONSTANTS
  NumJoints = 1
  MaxSteps = 1
  MaxNo = 1
PROPERTIES ControlReachesMotors
