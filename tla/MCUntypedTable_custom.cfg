SPECIFICATION Spec
CONSTANTS
  a = a
  b = b
  c = c
  d = d
  alias = alias
  Key = {a, b, c, alias}
  Value = {v1, v2}
  Node = {n1, n2, n3}
  NoNode = NoNode
  NoKey = NoKey
  Absent = Absent
  Hash <- MCHash
  Content <- MCContent
  CompareByPointer = FALSE
  InitialSize = 1
  LoadFactor = 1
  MaxSize = 1000
  IntRange = 16
  WalkMayUnlink = TRUE
INVARIANTS
  UniqueKeys
  CountExact
  EveryEntryFound
  RefsExact
  NoArrayLeaks
PROPERTY
  IsDictionary
SYMMETRY NodeSymmetry
