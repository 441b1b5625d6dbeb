CONSTANTS
  MaxImages = 2
  MaxShares = 2
  Channels = {c1, c2}
  Requests = {r1, r2}
  Downers = {d1, d2, d3}
  Uppers = {u1, u2, u3}
  MAX_COMPONENTS = 3
  INT_MAX = 7
  LONG_MAX = 31
  MaxFd = 2
  Handles = {h1, h2}
  Cookies = {1, 2, 3}
  MAX_IN_FLIGHT = 2
  MaxOptions = 2
  Layout <- MCLayout
  Paths <- MCPaths
  PinPaths <- MCPinPaths
SPECIFICATION Spec
CHECK_DEADLOCK FALSE
INVARIANTS
  ExitTellsWhy
  QuietBeforeHalt
  
  ReadersFirst
  ListedResolve
  HandleFds
  RepliesMatch
PROPERTIES
  ProgramsServe
  SyncDownsReturn
