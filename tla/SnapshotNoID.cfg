SPECIFICATION Spec
CONSTANTS
  SnapshotID = {s1}
  None = None
  Env = {}
  MaxFaults = 0
INVARIANT BackupHasID
CHECK_DEADLOCK FALSE
