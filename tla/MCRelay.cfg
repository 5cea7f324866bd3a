CONSTANTS
  ScanAvgMax = 3
  RcvdBuffers = 3
  AskedScans <- MCAskedScans
  AskedPoints <- MCAskedPoints
  ClientBlocks = FALSE
  SensorBlocks = FALSE
  Lossy = TRUE
  LateAnswers = FALSE
  ScansFit = TRUE
  DamagesRequests = FALSE
  MaxCalls = 3
SPECIFICATION FairSpec
CHECK_DEADLOCK FALSE
INVARIANTS
  TypeOK
  IndexInBounds
  AverageIsTheOneAsked
  RelayInv
PROPERTIES
  AverageCallSpec
  EveryCallAnswered
  SensorDataTaken
