\* A queue of three chunks, a device two chunks ahead.
SPECIFICATION FairSpec
CONSTANTS
  Totals <- MCTotals
  MaxChunks = 3
  Prebuffer = 2
  DeviceBuffer = 2
INVARIANTS
  NoChunkLost
  OutcomeIsTrue
PROPERTIES
  BecomesReady
  PlaybackEnds
  QuitExits
CHECK_DEADLOCK FALSE
