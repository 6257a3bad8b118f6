SPECIFICATION FairSpec
CONSTANTS
  Claimer = {p1, p2}
  Parameters = {a, b}
  Claim = {c1, c2}
  None = None
  Env = {"api", "patch", "delete", "crash"}
  MaxFaults = 2
INVARIANTS ReferencedExists ResultIsReady
PROPERTY ClaimReturns
CHECK_DEADLOCK FALSE
