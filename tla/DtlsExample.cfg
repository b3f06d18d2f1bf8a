CONSTANTS
  Client = Client
  Server = Server
  Peers <- TwoPrograms
  InitialStates <- OneAccepts
  MaxConn = 1
  Resets = {}
SPECIFICATION ExampleFairSpec
INVARIANTS
  NothingLeft
  SuccessMeansConnected
PROPERTY ClientConnects
\* Both programs end.
CHECK_DEADLOCK FALSE
