CONSTANTS
  Bsp = bsp
  Ap = {a1}
  Va = {v1}
  Nobody = nobody
  All = all
  Editor = {bsp, a1}
  Ops = {"unmap", "remap", "full", "switch"}
  MaxSeq = 3
SPECIFICATION LiveSpec
INVARIANTS StateKept NoStaleOnAps
PROPERTIES
  ShootdownReturns RequestReturns ConfigSettles SettingsApplied WaitReturns
  WatchdogRecovers JobsReaped 
