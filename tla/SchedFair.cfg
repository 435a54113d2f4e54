CONSTANTS
  a1 = a1
  a2 = a2
  Bsp = b
  Ap = {a1}
  Task = {t1, t2, t3}
  First = t1
  None = none
  AnyPid = any
  SleepMax = 1
  Workloads <- Fair
SPECIFICATION FairSpec
PROPERTIES ReadyRuns WaiterRuns
