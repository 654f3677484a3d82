\* Where the time convention of an asset goes when its original is edited by hand.
SPECIFICATION Spec
CONSTANTS
  MaxTime = 6
  MaxObjectId = 29
  MaxOperations = 3
  MaxBatchCommands = 1
  NoSource = NoSource
  Closed = Closed
  DirectClients = {c1}
  BatchClients = {}
  Requests <- MediaRequests
  InitialProjects <- MCProjects
  HistoryEntries = 3
  HistoryBytes = 100
  MaxSessions = 1
  Probe <- MCProbe
  Largest = 9
  Decoded <- MCDecoded
  Second = 1
  TimeBase = 2
  SampleTicks = 2
  BlockSamples = 2
INVARIANTS
  ClockModeKept
CHECK_DEADLOCK FALSE
