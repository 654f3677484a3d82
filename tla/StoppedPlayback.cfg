\* Stop, then Play before the stopped worker has been reaped.
SPECIFICATION FairSpec
CONSTANTS
  Durations <- MCDurations
  Frame = 2
  MaxCalls = 3
  Null = Null
PROPERTY PlaybackProceeds
CHECK_DEADLOCK FALSE
