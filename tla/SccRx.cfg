SPECIFICATION Spec
CONSTANTS
  NoRxBuf = 3
  TickLen = 10
  LinkChans <- RxChans
  LinkFrames <- RxFrames
  LinkDelays = {3}
  DriverChans <- RxChans
  Addrs = {9}
  Wr1Values <- IntrWr1
  Wr15Values <- SyncWr15
  LowCmds = {"nop", "point_high", "error_reset"}
  HighCmds = {"nop"}
  Pointers = {1, 6, 7}
  TxBytes <- None
  MaxTx = 3
  DcdChans <- None
  LocalTalk = FALSE
  Undefined = FALSE
INVARIANTS TypeOK RxRing CursorExact
PROPERTIES RingIsFifo PendingSignalled EveryByteInterrupts
