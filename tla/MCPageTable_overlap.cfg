SPECIFICATION Spec
CONSTANTS
  PageSize = 4
  PagesPerMap = 2
  InitialMaps = 1
  IntRange = 256
  Size = {1, 6, 10, 36}
  MaxRuns = 4
INVARIANTS
  OnlyFreePages
CHECK_DEADLOCK FALSE
