CONSTANTS
  Task = {"p", "c"}
  First = "p"
  Sig = {1}
  Frame = 1
  Scratch = 1
  Top = 8
  Bottom = 0
  Pushes = 1
  MaxRaise = 2
  MaxExec = 2
SPECIFICATION Spec
INVARIANT HandlerReturns
CHECK_DEADLOCK FALSE
