CONSTANTS
  Sessions = {"s1"}
  Fds = {f1}
  NoFd = NoFd
  MaxOps <- OneBusier
  MayWedge = FALSE
SPECIFICATION Spec
INVARIANT NoFdLeftOpen
\* An application may be done with its sessions: the system may stop.
CHECK_DEADLOCK FALSE
