SPECIFICATION Spec
CONSTANTS
  Rounds = 1
  EarlyBreak = 0
  FramesPerSec = 2
  ViaRegs = {1, 14}
  ViaIer <- Vbl
  SccConds <- DcdOnly
  Masks = {0, 2, 7}
  XLevels = {TRUE}
PROPERTIES SccRequestKept
