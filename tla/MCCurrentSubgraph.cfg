SPECIFICATION Spec
CONSTANTS
  Thread = {t1, t2}
  Subgraph = {s1, s2}
  Update = {u1}
  None = None
  MaxApplies = 2
INVARIANTS
  RefsExact
  NamesLive
PROPERTIES
  ApplyRestores
SYMMETRY ThreadSymmetry
CHECK_DEADLOCK FALSE
