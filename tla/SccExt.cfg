SPECIFICATION Spec
CONSTANTS
  NoRxBuf = 2
  TickLen = 100
  LinkChans <- None
  LinkFrames <- None
  LinkDelays = {3}
  DriverChans <- Both
  Addrs <- None
  Wr1Values <- ExtWr1
  Wr15Values <- ExtWr15
  LowCmds = {"nop", "point_high", "reset_ext", "reset_txint", "abort"}
  HighCmds = {"nop"}
  Pointers = {1, 2, 3, 7}
  TxBytes <- None
  MaxTx = 3
  DcdChans <- Both
  LocalTalk = FALSE
  Undefined = TRUE
PROPERTIES DcdEdgePending AckKeepsRest
CHECK_DEADLOCK FALSE
