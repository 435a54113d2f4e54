SPECIFICATION DiskSpec
CONSTANTS
  File = {f, g}
  Val = {x, y}
  Seed = {}
  SeedVal = x
  Zero = x
  MaxLen = 2
  NIno = 4
  NBlk = 5
  DelMax = 3
  Fresh = 0
  Stale = 0
  CrashMid = 0
  MaxFlush = 1
  MaxOps = 6
CHECK_DEADLOCK FALSE
SYMMETRY Names
INVARIANTS WholeDurable 
 
