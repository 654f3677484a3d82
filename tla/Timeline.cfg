\* Clips, media and tracks edited with undo and redo: three projects that are told
\* apart by their IDs, each with the requests that name them.
SPECIFICATION Spec
CONSTANTS
  MaxTime = 6
  MaxObjectId = 29
  MaxOperations = 4
  MaxBatchCommands = 1
  NoSource = NoSource
  Closed = Closed
  DirectClients = {c1}
  BatchClients = {}
  Requests <- MCRequests
  InitialProjects <- MCProjects
  HistoryEntries = 1
  HistoryBytes = 100
  MaxSessions = 1
  Probe <- MCProbe
  Largest = 9
  Decoded <- MCDecoded
  Second = 1
  TimeBase = 2
  SampleTicks = 2
  BlockSamples = 2
INVARIANTS
  TimelinePlayable
  CutsKeepMaterial
  RendersTheTimeline
  FactsMatchOriginal
  IdsNeverReused
  TimesExact
CHECK_DEADLOCK FALSE
