SPECIFICATION FairBridgeSpec
CONSTANTS
  NAddr = 2
  Listening <- MCListening
  Silent <- MCNone
  SeqMod = 3
  MaxReq = 1
  ConnectTicks = 1
  BackoffTicks = 1
  TxnTicks = 1
  MountTicks = 2
  Chunks = 1
  MaxFaults = 1
  MaxResets = 0
  MaxPushes = 0
  LatePeer = FALSE
  Abandon = FALSE
CHECK_DEADLOCK FALSE
PROPERTIES LinkRecovers
