SPECIFICATION LibSpec
CONSTANTS
  LastPart = 8
  PartStart <- Messages
  Buffer = {"b1", "b2", "b3"}
  Given = "given"
  Size = {1, 4, 5, 8, 10}
  Start <- ShortStart
  Increment = {4, 10}
  MinimumIncrement = 8
  DefaultIncrement = 16
  NodeSize = 4
  Word = 2
  SizeRange = 64
  MaxBlocks = 3
  Thread = {"t1", "t2"}
  Object = {"o1", "o2", "o3"}
  Null = "null"
  Raw = "raw"
  Value = {"v1", "v2"}
  Kind = {"stack", "heap", "unique"}
  StackSize = 2
  GoodSize <- EvenSize
  MaxCount = 4
  ListNode = {"n1", "n2", "n3"}
  Datum = {"v1", "v2"}
  Stray = "stray"
  Variable = {"x", "y"}
  Layout <- Layouts
  Byte <- Bytes
  Class <- Classes
  Slot = {"s", "t"}
  SlotType <- SlotTypes
  MayMisfit = TRUE
  MaxLeaked = 1
  Graph = {"g1", "g2"}
  None = "none"
  UpdateValue = {"u1"}
  Foreign = "foreign"
  LastKey = 4
  Component = {"io", "heap", "vector", "list", "owner", "tuple", "graph", "keys"}
INVARIANTS
  VectorHandlesExact
  NodesAccounted
  CountsExact
  TupleHandlesExact
  ContextDestroyedOnce
  UpdateKept
PROPERTIES
  SlipsOnlyWhen
  LoopEnds
  OverrunsOnlyWhen
  IsRow
  FaultsOnlyWhen
  IsStack
  AssignFromVariableSafe
CHECK_DEADLOCK FALSE
