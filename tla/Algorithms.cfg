SPECIFICATION Spec
CONSTANTS
  MAX_COMPONENTS = 2
  PATH_IN_CAP = 4
  MAX_ERRNO = 2
  INT_MAX = 7
  LONG_MAX = 31
  LIST_MAX = 2
  U64 = 131072
  NameBytes = {47, 128, 159, 160, 190, 194, 237, 238, 244, 255}
  MaxName = 4
  MaxPath = 3
  MaxText = 5
INVARIANTS
  NamesSurvive
  StringsWhole
  SharesResolve
  VolumesSafe
