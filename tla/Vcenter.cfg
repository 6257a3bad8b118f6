SPECIFICATION MCSpec
CONSTANTS
  Op = {o1, o2}
  Session = {1, 2, 3, 4, 5, 6, 7, 8, 9}
  VC = {1, 2}
  None = None
  MaxRotations = 2
  Env = {"expire", "logout", "vddk", "connect", "lookup"}
  MaxFaults = 2
INVARIANTS CheckedIsConnected OnlyDisturbedFails ReloadedIsReady
PROPERTIES OperationsRecover 
