CONSTANTS
  A = A
  B = B
  Peers <- TwoPeers
  InitialStates <- AnyStates
  MaxConn = 2
  Resets = {A}
SPECIFICATION FairSpec
INVARIANTS
  TypeOK
  KeysComplementary
  RolesOpposite
  ClientFinishesLast
PROPERTY BothEstablish
\* Two ends that both connect give up.
CHECK_DEADLOCK FALSE
