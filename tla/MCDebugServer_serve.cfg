SPECIFICATION FairSpec
CONSTANTS
  s1 = s1
  s2 = s2
  client1 = client1
  client2 = client2
  start = start
  mark = mark
  Server <- OneServer
  Client <- Two
  Command <- OneCommand
  Answered <- OneCommand
  None = None
  MaxRequests = 1
  MaxTotal = 2
  MaxStarts = 1
  MaxMoves = 0
  Backlog = 5
PROPERTIES
  Served
  RunEnds
CHECK_DEADLOCK FALSE
