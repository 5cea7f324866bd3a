CONSTANTS
  Params <- MCParams
  AskedParams <- MCAskedParams
  Values <- MCValues
  ScanNumbers <- MCScanNumbers
  mTimeout = 10
  BigEndian = FALSE
  LateAnswers = TRUE
  Duplicates = FALSE
  MaxRequests = 3
SPECIFICATION Spec
CHECK_DEADLOCK FALSE
INVARIANT ActualValueReturned
