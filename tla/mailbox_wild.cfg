SPECIFICATION Spec
CONSTANTS
  NAddr = 2
  Listening <- MCListening
  Silent <- MCNone
  SeqMod = 3
  MaxReq = 2
  ConnectTicks = 1
  BackoffTicks = 1
  TxnTicks = 1
  MountTicks = 2
  Chunks = 1
  MaxFaults = 1
  MaxResets = 1
  MaxPushes = 1
  LatePeer = TRUE
  Abandon = TRUE
CHECK_DEADLOCK FALSE
INVARIANTS LinkHonest
PROPERTIES TxnSafe
