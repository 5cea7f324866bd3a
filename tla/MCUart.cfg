CONSTANTS
  BUFFER_MAX = 5
  LOOP_MAX = 1
  Timeouts <- MCTimeouts
  Lengths <- MCLengths
  DataWords <- MCDataWords
  Disturbances <- MCDisturbances
  MaxFrames = 2
SPECIFICATION FairSpec
INVARIANTS
  TypeOK
  FrameReturnedWhole
PROPERTIES
  FrameReceived
  ReadReturns
