\* Proposals, history and saving with a ledger of a few requests and a save; probes and
\* exports started, cancelled, expired, polled and used, up to the end of the process.
SPECIFICATION FairSpec
CONSTANTS
  Policies <- Launches
  MaxOperations = 3
  HistoryEntries = 2
  MaxPayload = 2
  MaxProposals = 2
  MaxSnapshot = 2
  MaxProposalBytes = 3
  MaxProbes = 2
  MaxActiveProbes = 1
  MaxExports = 2
  ProposalLife = 1
  SessionLife = 2
  MaxChanges = 1
  Absent = Absent
  Foreign = Foreign
  None = None
INVARIANTS
  WithinLimits
  ExactlyOnce
  SaveReserved
  HonestAboutFiles
PROPERTIES
  ExportsAsReported
  ImportsWhatWasProbed
  Closes
CHECK_DEADLOCK FALSE
