\* Two clients build transactions against each other and against direct edits.
SPECIFICATION Spec
CONSTANTS
  MaxTime = 4
  MaxObjectId = 8
  MaxOperations = 2
  MaxBatchCommands = 2
  NoSource = NoSource
  Closed = Closed
  c1 = c1
  c2 = c2
  DirectClients = {c1}
  BatchClients = {c1, c2}
  Requests <- BatchRequests
  InitialProjects <- MCProjects
  HistoryEntries = 2
  HistoryBytes = 14
  MaxSessions = 2
INVARIANTS
  NoLostUpdate
  StagedBatchCommits
CHECK_DEADLOCK FALSE
