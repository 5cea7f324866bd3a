CONSTANTS
  ScanAvgMax = 3
  RcvdBuffers = 3
  AskedScans <- MCAskedScans
  AskedPoints <- MCAskedPoints
  ClientBlocks = TRUE
  SensorBlocks = TRUE
  Lossy = FALSE
  LateAnswers = FALSE
  ScansFit = TRUE
  DamagesRequests = FALSE
  MaxCalls = 2
SPECIFICATION FairSpec
CHECK_DEADLOCK FALSE
PROPERTY SensorDataTaken
