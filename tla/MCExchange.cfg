CONSTANTS
  Params <- MCParams
  AskedParams <- MCAskedParams
  Values <- MCValues
  ScanNumbers <- MCScanNumbers
  mTimeout = 10
  BigEndian = FALSE
  LateAnswers = FALSE
  Duplicates = FALSE
  MaxRequests = 3
SPECIFICATION FairSpec
CHECK_DEADLOCK FALSE
INVARIANTS
  TypeOK
  ActualValueReturned
  ScanStateReached
  RefusalsReported
  ExchangeInv
PROPERTIES
  CallSpec
  ExchangeEnds
