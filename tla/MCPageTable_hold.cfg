SPECIFICATION Spec
CONSTANTS
  PageSize = 4
  PagesPerMap = 2
  InitialMaps = 1
  IntRange = 256
  Size = {0, 1, 6, 36, 252}
  MaxRuns = 4
INVARIANTS
  InRegion
  SeedsFound
CHECK_DEADLOCK FALSE
