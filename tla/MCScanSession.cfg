CONSTANTS
  CLOCK_MAX = 6
  ClockWraps = FALSE
  Periods = {0, 2, 3}
  Averages = {0, 2}
  MaxScans = 3
SPECIFICATION FairSpec
INVARIANTS
  TypeOK
  PeriodScanned
  LostScansAreCounted
  ScannerStopped
PROPERTY
  SessionEnds
