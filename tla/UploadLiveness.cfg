SPECIFICATION FairSpec
CONSTANTS
  Node = {n1, n2}
  Goroutine = {g1, g2}
  None = None
  UploadCRRetryMaximum = 1
  PatchTries = 2
  Env = {"api", "copy", "cleanup", "crash"}
  MaxFaults = 2
INVARIANTS OneProcessor 
 
CHECK_DEADLOCK FALSE
