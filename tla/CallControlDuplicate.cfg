CONSTANTS
  CallIds = {c1}
  Transports = {t1, t2}
  WsConns = {w1}
  Sip = Sip
  RtpPortFirst = 2
  RtpPortLast = 5
  Room = 0
  Vanishing = {}
  None = None
SPECIFICATION Spec
INVARIANT UniqueCallIds
CHECK_DEADLOCK FALSE
