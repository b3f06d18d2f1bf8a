CONSTANTS
  Server = Server
  Browser = Browser
  Peers <- BothEnds
  InitialStates <- ServerAccepts
  MaxConn = 1
  Resets = {}
  MaxMedia = 1
  MaxStarts = 2
  SeqNos = {65535, 0, 1}
  Payloads = {x}
  Room = 2
  MaxFed = 4
SPECIFICATION TransportSpec
INVARIANTS
  KeyedBeforeMedia
  ConnectedIsStarted
  NothingLost
  InOrderKept
  HoldsBackRoom
\* When the listener has ended nothing may be left to do.
CHECK_DEADLOCK FALSE
