CONSTANTS
  CallIds = {c1}
  Transports = {t1, t2, t3}
  WsConns = {w1}
  Sip = Sip
  RtpPortFirst = 2
  RtpPortLast = 5
  Room = 0
  Vanishing = {}
  None = None
SPECIFICATION Spec
SYMMETRY Symmetry
INVARIANTS
  TypeOK
  CallsMatchTeardown
  ReservedPortsHeld
  PortsExclusive
  DestroyedTwiceByListener
\* With two ports for three transports the server may stall.
CHECK_DEADLOCK FALSE
