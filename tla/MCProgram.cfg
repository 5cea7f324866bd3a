CONSTANTS
  Platform = "Windows"
  Modes = {"NET", "UART", "RELAY_N", "RELAY_U"}
SPECIFICATION Spec
INVARIANTS
  TypeOK
  StreamsUsable
  EverythingClosed
  FailureReported
  RelayPolls
\* The program ends.
CHECK_DEADLOCK FALSE
