SPECIFICATION FairSpec
CONSTANTS
  Env = {"api", "copy", "crash", "velero", "slow", "edit", "race"}
  MaxFaults = 3
INVARIANTS RestoreHasData OthersKept OnlyClaimsConverted
PROPERTIES RestoreReturns
CHECK_DEADLOCK FALSE
