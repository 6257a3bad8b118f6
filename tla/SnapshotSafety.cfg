SPECIFICATION Spec
CONSTANTS
  SnapshotID = {s1, s2}
  None = None
  Env = {"api", "vc", "crash", "early"}
  MaxFaults = 1
INVARIANTS BackupHasData UploadedIsProtected
 
CHECK_DEADLOCK FALSE
