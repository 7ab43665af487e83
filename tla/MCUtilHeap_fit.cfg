SPECIFICATION HeapSpec
CONSTANTS
  Buffer = {b1, b2, b3, b4}
  Given = Given
  Size = {3, 4, 10}
  Start <- MCStart
  Increment = {4, 12, 0}
  MinimumIncrement = 8
  DefaultIncrement = 16
  NodeSize = 4
  Word = 2
  SizeRange = 64
  MaxBlocks = 4
INVARIANTS
  CapacityExact
  InBounds
  Disjoint
  ResetReadsLiveNodes
  NoBufferLeaks
  PlacedAtWords
SYMMETRY BufferSymmetry
