CONSTANTS
  procA = procA
  procB = procB
  Task = {t1, t2, t3, t4}
  Space = {s1, s2, s3}
  First = t1
  FirstSpace = s1
  None = none
  TableMax = 3
  KillThreads = 0
SPECIFICATION KernelSpec
SYMMETRY Twins
INVARIANTS
  AddressSpacesSound HeapSound FutexSound   
  ImageExact SignalsBelong SmpSound
PROPERTY DeadStaysDead
