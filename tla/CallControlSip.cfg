CONSTANTS
  CallIds = {c1, c2}
  Transports = {t1, t2}
  WsConns = {}
  Sip = Sip
  RtpPortFirst = 2
  RtpPortLast = 7
  Room = 1
  Vanishing = {t1}
  None = None
SPECIFICATION FairSpec
INVARIANT UniqueCallIds
PROPERTIES
  SilentCallsEnd
  AnsweredCallsStart
