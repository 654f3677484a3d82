\* Two processes, four editing sessions, one accident of any kind.
SPECIFICATION Spec
CONSTANTS
  p1 = p1
  p2 = p2
  Processes = {p1, p2}
  MaxSessions = 4
  MaxRevision = 3
  MaxAccidents = 1
  NoFile = NoFile
  Damaged = Damaged
  Free = Free
SYMMETRY Symmetry
INVARIANTS
  OneWriter
  OfferedExtendsSaved
  CheckpointsSurvive
PROPERTIES
  SavesBuildOnDisk
  UnreviewedRecoveryKept
CHECK_DEADLOCK FALSE
