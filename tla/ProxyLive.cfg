CONSTANTS
  Conns = {c1}
  NoConn = NoConn
  Bytes <- DownloadBytes
  RING_CAP = 1
  MAX_CONNS = 1
  MayEnd = TRUE
  MayStop = FALSE
  PollMayFail = FALSE
SPECIFICATION FairSpec
PROPERTY SpliceProgress
