SPECIFICATION Spec
CONSTANTS
  LoopIds = {l1}
  ResetIds = {r1}
  NoThread = NoThread
  QueueLen = 1
  Steps = 1
INVARIANTS SportModeReleased
