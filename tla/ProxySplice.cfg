CONSTANTS
  Conns = {c1}
  NoConn = NoConn
  Bytes <- UploadBytes
  RING_CAP = 2
  MAX_CONNS = 1
  MayEnd = TRUE
  MayStop = TRUE
  PollMayFail = TRUE
SPECIFICATION Spec
INVARIANTS InOrder OneConsumer HalfCloseAfterData
\* host_proxy_stop ends both threads: the system may stop.
CHECK_DEADLOCK FALSE
