\* Three requests in any order, to either player, against workers that may fail, hang or
\* crash and a source that may be written again.
SPECIFICATION FairSpec
CONSTANTS
  Plans <- MCPlans
  Frames <- MCFrames
  MaxTouches = 1
  Durations <- MCDurations
  Frame = 2
  MaxCalls = 3
  Null = Null
INVARIANTS
  LatestShown
  OnlyOnePlays
PROPERTIES
  LaunchesIndexed
  LoadingEnds
  PlaybackEnds
CHECK_DEADLOCK FALSE
