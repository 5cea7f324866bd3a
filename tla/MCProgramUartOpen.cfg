CONSTANTS
  Platform = "Linux"
  Modes = {"UART", "RELAY_U"}
SPECIFICATION Spec
INVARIANT
  StreamsUsable
\* The program ends.
CHECK_DEADLOCK FALSE
