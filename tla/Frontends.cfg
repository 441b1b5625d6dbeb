SPECIFICATION Spec
CONSTANTS
  Sessions = {a, b}
  Nobody = none
  MAX_HANDLES = 1
  KernelFds = {0}
  MaxTries = 2
  Slots = {1, 2}
  BootSlot = 1
  Ids = {1, 2, 3}
  Images = {x, y}
  NoImage = null
  MidAttach = FALSE
  FileSize = 5
  CHUNK_SIZE = 2
  MAX_CACHED_CHUNKS = 2
VIEW View
INVARIANTS RequestsHeld OwnDisk WorkerClean SessionsOwned UiTruthful ReadsWhole
PROPERTIES CallsAnswered
CHECK_DEADLOCK FALSE
