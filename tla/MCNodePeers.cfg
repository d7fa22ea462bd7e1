CONSTANTS
  tcp = tcp
  ble = ble
  Kinds <- MCKinds
  MaxConns = 3
  MaxOps = 1
  MaxTimeouts = 1
  MaxLinks = 2
SPECIFICATION Spec
SYMMETRY KindSymmetry
CONSTRAINT Budget
CHECK_DEADLOCK FALSE
INVARIANTS EmptySessionIsLeaving ActiveIsAttached LastReaderCleansUp LinksKeepReaders
