SPECIFICATION Spec
CONSTANTS
  Backup = {b1}
  Delete = {d1, d2}
  Restore = {r1}
  Snapshot = {0, 1, 2, 3}
  Old = 0
  None = None
  CapacityInMB = 2
  UnitsPerMB = 2
  n1 = n1
  n2 = n2
  n3 = n3
  h1 = h1
  h2 = h2
  h3 = h3
  ds1 = ds1
  ds2 = ds2
  ds3 = ds3
  Node = {n1, n2, n3}
  HostSystem = {h1, h2, h3}
  Datastore = {ds1, ds2, ds3}
  Topology <- MCTopology
  Env = {"busy", "call", "reset", "late", "details", "metadata", "gone"}
  MaxFaults = 2
INVARIANTS ReturnedSnapshotExists DeletedIsGone RestoredHasData RestoredIsOurs 
CHECK_DEADLOCK FALSE
