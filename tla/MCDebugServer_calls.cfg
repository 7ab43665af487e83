SPECIFICATION Spec
CONSTANTS
  s1 = s1
  s2 = s2
  client1 = client1
  client2 = client2
  start = start
  mark = mark
  Server <- Servers
  Client <- Two
  Command <- Profiler
  Answered <- Profiler
  None = None
  MaxRequests = 2
  MaxTotal = 2
  MaxStarts = 2
  MaxMoves = 1
  Backlog = 5
SYMMETRY Symmetry
INVARIANTS
  OwnedOnce
  SocketsHeld
  RequestsAccounted
  AnswersInOrder
  RoundComplete
CHECK_DEADLOCK FALSE
