SPECIFICATION FairSpec
CONSTANTS
  LoopIds = {l1}
  ResetIds = {r1}
  NoThread = NoThread
  QueueLen = 1
  Steps = 1
PROPERTIES ExitReachesReset ModesFairSpec
