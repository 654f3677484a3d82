\* One client edits directly and in batches, undoes and redoes; the session is saved
\* and reopened.
SPECIFICATION Spec
CONSTANTS
  MaxTime = 4
  MaxObjectId = 8
  MaxOperations = 5
  MaxBatchCommands = 2
  NoSource = NoSource
  Closed = Closed
  DirectClients = {c1}
  BatchClients = {c1}
  Requests <- HistoryRequests
  InitialProjects <- MCProjects
  HistoryEntries = 2
  HistoryBytes = 24
  MaxSessions = 2
INVARIANTS
  TypeOK
  HistoryChain
  HistoryUsable
PROPERTY
  ImplementsLinearHistory
CHECK_DEADLOCK FALSE
