SPECIFICATION Spec
CONSTANTS
  Node = {n1}
  Goroutine = {g1, g2}
  None = None
  UploadCRRetryMaximum = 1
  PatchTries = 2
  Env = {"api", "copy", "cleanup", "lease", "crash", "cancel"}
  MaxFaults = 2
SYMMETRY Symmetry
INVARIANTS LocalKeptUntilSafe ReportedPhaseIsTrue
PROPERTY ImplementsContract
CHECK_DEADLOCK FALSE
