\* Three projects or editors, two operations, one accident.
SPECIFICATION Spec
CONSTANTS
  a = a
  b = b
  Files = {a, b}
  InitialDisk <- MCDisk
  InitialDrafts <- MCDrafts
  Elsewhere = {0}
  MaxProjects = 3
  MaxChanges = 2
  MaxAccidents = 1
  Null = Null
INVARIANTS
  CheckpointCoversWork
PROPERTIES
  EditsLandWhereMade
  
  LeavesNoCheckpoints
CHECK_DEADLOCK FALSE
