SPECIFICATION FairSpec
CONSTANTS
  Env = {"api", "vc", "s3", "repo", "crash"}
  MaxFaults = 2
INVARIANTS DeletedOrCancelled RetriedUploadKeepsData
PROPERTIES DeleteSettles
CHECK_DEADLOCK FALSE
