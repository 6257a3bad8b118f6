SPECIFICATION FairSpec
CONSTANTS
  SnapshotID = {s1}
  None = None
  Env = {"api", "vc", "crash", "early"}
  MaxFaults = 2
PROPERTIES BackupReturns CompletionIsMirrored
CHECK_DEADLOCK FALSE
