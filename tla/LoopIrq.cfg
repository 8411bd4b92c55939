SPECIFICATION Spec
CONSTANTS
  Rounds = 2
  EarlyBreak = 0
  FramesPerSec = 2
  ViaRegs = {1, 14}
  ViaIer <- Vbl
  SccConds <- DcdOnly
  Masks = {0, 7}
  XLevels = {TRUE}
INVARIANTS TypeOK  OneSecond
