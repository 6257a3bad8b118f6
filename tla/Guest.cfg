SPECIFICATION FairSpec
CONSTANTS
  MaxSvc = 2
  None = None
  Env = {"api", "crash", "svc", "pv", "late", "early"}
  MaxFaults = 1
INVARIANTS IDNamesSnapshot UploadedInGuest RestoredInGuest DeletedInGuest
PROPERTIES  GuestCatchesUp
CHECK_DEADLOCK FALSE
