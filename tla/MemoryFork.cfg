CONSTANTS
  Task = {"p", "q"}
  First = "p"
  Page = {1, 2}
  Area = {{1, 2}}
  Frame = {1, 2}
  Low = 0
  RamSlots = 0
  DiskSlots = 1
  Limit = 4
  MaxRegions = 2
  WhileSwapped = {"fork"}
SPECIFICATION Spec
INVARIANT MemoryPrivate
CHECK_DEADLOCK FALSE
