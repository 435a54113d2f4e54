CONSTANTS
  Roles = {"connect", "listen"}
  Bytes = 2
  PeerBytes = 1
  SndBuf = 2
  RxBuf = 2
  MaxRetries = 2
  Wrap = 16
  Wire = 4
  MaxLoss = 1
  Reorder = FALSE
SPECIFICATION Spec
INVARIANT EofAfterData
CHECK_DEADLOCK FALSE
