\* A silent clock that runs past a producer that is late with the last chunks.
SPECIFICATION FairSpec
CONSTANTS
  Totals <- MCTotals
  MaxChunks = 3
  Prebuffer = 2
  DeviceBuffer = 2
INVARIANT EndIsComplete
CHECK_DEADLOCK FALSE
