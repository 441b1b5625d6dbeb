CONSTANTS
  Conns = {c1}
  NoConn = NoConn
  Bytes <- PingBytes
  RING_CAP = 1
  MAX_CONNS = 1
  MayEnd = TRUE
  MayStop = FALSE
  PollMayFail = FALSE
SPECIFICATION Spec
INVARIANT LklThreadOwnsSockets
