SPECIFICATION Spec
CONSTANTS
  LoopIds = {l1, l2}
  ResetIds = {r1, r2}
  NoThread = NoThread
  QueueLen = 1
  Steps = 2
SYMMETRY Threads
PROPERTIES ModesSpec AccessSpec
INVARIANTS TypeOK SingleLoop SafeExitQuiet SettlesAtDefault
           AtMostOneLate PadUpToDate PolicyOnlyAfterRelease
