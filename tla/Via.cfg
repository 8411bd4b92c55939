SPECIFICATION Spec
CONSTANTS
  StepLen = 128
  T2Wrap = 256
  SrPeriod = 2
  Timer1Depth = 0
  LowBytes = {0}
  HighBytes = {1}
  IfrWrites <- SomeIfr
  IerBits <- SomeIer
  Ca2Fields = {0, 2}
  PortVals <- SomeBytes
  MouseBits = {3}
  RegsUsed = {0, 1, 2, 3, 4, 5, 6, 7, 8, 9, 10, 11, 12, 13, 14, 15}
INVARIANTS TypeOK
PROPERTIES LineFollowsFlags VblankKept
CHECK_DEADLOCK FALSE
