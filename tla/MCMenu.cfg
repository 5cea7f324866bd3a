CONSTANTS
  Params <- MCParams
  Values <- MCValues
  ScanNumbers <- MCScanNumbers
  AskedParams <- MCAskedParams
  AskedValues <- MCAskedValues
SPECIFICATION FairSpec
INVARIANTS
  TypeOK
  ListAccurate
PROPERTIES
  ListingEnds
  NothingMistyped
