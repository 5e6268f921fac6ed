SPECIFICATION FairBridgeSpec
CONSTANTS
  NAddr = 2
  Listening <- MCListening
  Silent <- MCNone
  SeqMod = 3
  MaxReq = 3
  ConnectTicks = 1
  BackoffTicks = 1
  TxnTicks = 1
  MountTicks = 2
  Chunks = 2
  MaxFaults = 2
  MaxResets = 0
  MaxPushes = 0
  LatePeer = FALSE
  Abandon = FALSE
CHECK_DEADLOCK FALSE
INVARIANTS OwnTxn AcceptOwn
PROPERTIES NoReplay PostedIsAnswered RetriesUntilConnected TxnSpec
