SPECIFICATION MCSpec
CONSTANTS
  Node = {n1, n2}
  Goroutine = {g1, g2}
  None = None
  DOWNLOAD_MAX_RETRY = 0
  Tries = 2
  Env = {"api", "copy", "lease", "crash"}
  MaxFaults = 2
INVARIANTS VolumeReady NewVolumeHasData
PROPERTY CallerReturns
CHECK_DEADLOCK FALSE
