CONSTANTS
  Half = 4
  Width = 3
  Flags = {"AUTHENTICATED", "UNAUTHENTICATED", "RCC_MODE1", "RCC_MODE2", "RCC_MODE3"}
  Rates = {1, 3}
  Steps <- AnyStep
  MaxFailures = 1
  MaxRoc = 1
  MaxPackets = 3
  Lengths = {3}
  MaxReports = 1
SPECIFICATION Spec
INVARIANTS
  TypeOK
  NoKeystreamReuse
  NoReplay
  AcceptedWasSent
  InSyncAuthenticates
PROPERTIES
  CarriedCounterResyncs
  ImplementsChannel
\* The run ends when the packets it may send are used up.
CHECK_DEADLOCK FALSE
