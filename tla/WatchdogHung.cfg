CONSTANTS
  Slot = {0, 1}
  KickTimeout = 2
  Hung = 2
  Writeback = 1
SPECIFICATION FairSpec
PROPERTY HungDesktopReset
