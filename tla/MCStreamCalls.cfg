CONSTANTS
  Platform = "Windows"
  Reopens = FALSE
  Timeouts <- MCTimeouts
SPECIFICATION AnyOrder
INVARIANTS
  IsOpenAccurate
