CONSTANTS
  Cpu = {c0, c1}
  NoOwner = none
  MaxNest = 3
SPECIFICATION SystemSpec
INVARIANTS
  LockSound     
   
PROPERTIES PipeIsChannel FilesKept
