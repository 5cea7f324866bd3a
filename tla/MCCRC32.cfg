CONSTANTS
  Bytes <- MCBytes
  Errors <- MCErrors
  MaxLength = 5
SPECIFICATION Spec
INVARIANTS
  ConformsToStandard
  BurstsDetected
