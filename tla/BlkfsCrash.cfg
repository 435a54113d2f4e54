SPECIFICATION Spec
CONSTANTS
  File = {f, g}
  Val = {x, y}
  Seed = {}
  SeedVal = x
  Zero = x
  MaxLen = 2
  NIno = 4
  NBlk = 5
  DelMax = 3
  Fresh = 0
  Stale = 0
  CrashMid = 1
  MaxFlush = 1
  MaxOps = 6
INVARIANT CrashDetected
CHECK_DEADLOCK FALSE
