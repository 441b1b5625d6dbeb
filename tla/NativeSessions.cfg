CONSTANTS
  Sessions = {"s1", "s2"}
  Fds = {f1}
  NoFd = NoFd
  MaxOps <- OneBusier
  MayWedge = TRUE
SPECIFICATION FairSpec
INVARIANTS OwnFd TornDown
PROPERTIES CallsInTurn Settles
\* An application may be done with its sessions: the system may stop.
CHECK_DEADLOCK FALSE
