CONSTANTS
  a1 = a1
  a2 = a2
  Bsp = b
  Ap = {a1, a2}
  Task = {t1, t2}
  First = t1
  None = none
  AnyPid = any
  SleepMax = 1
  Workloads <- Waiting
SPECIFICATION Spec
INVARIANT OneCpu
