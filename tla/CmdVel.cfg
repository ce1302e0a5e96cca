SPECIFICATION FairSpec
CONSTANTS
  Depth = 2
  Messages = 3
  Twists <- MCTwists
  Timeout = 1
  Sticks <- MCSticks
INVARIANTS
  NewestKept
  SportInOrder
  GoneStops
PROPERTIES
  SportFollowsLatest
  AliengoSilenceStops
CHECK_DEADLOCK FALSE
