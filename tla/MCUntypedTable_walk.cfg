SPECIFICATION FairSpec
CONSTANTS
  a = a
  b = b
  c = c
  d = d
  alias = alias
  Key = {a, b, c, d}
  Value = {v1}
  Node = {n1, n2, n3, n4}
  NoNode = NoNode
  NoKey = NoKey
  Absent = Absent
  Hash <- MCHash
  Content <- MCPointers
  CompareByPointer = TRUE
  InitialSize = 1
  LoadFactor = 1
  MaxSize = 1000
  IntRange = 4
  WalkMayUnlink = FALSE
INVARIANTS
  LoadBounded
PROPERTIES
  WalkExact
  ForEachReturns
