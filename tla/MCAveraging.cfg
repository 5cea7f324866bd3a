CONSTANTS
  INT32_MAX = 127
  MAX_POINTS_PER_SCAN = 4
  MAX_NUMBER_OF_ECHOS = 4
  GRAPH_START <- MCGraphStart
  GRAPH_STEP = 2
  Layouts <- MCLayouts
  Distances <- MCDistances
  PulseWidths <- MCPulseWidths
  Asked <- MCAsked
SPECIFICATION Spec
INVARIANTS
  ReplyWellFormed
  EveryGroupSent
  AverageAmongHeard
  AveragesAreMeans
  GraphsAgree
