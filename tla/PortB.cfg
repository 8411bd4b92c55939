SPECIFICATION MCSpec
CONSTANTS
  Regs <- MCRegs
  MaxClocks = 17
  MAXCDX = 2
  Prams <- MCPrams
  Ops <- MCOps
  Deltas <- MCDeltas
  MaxTicks = 2
  MaxMoves = 2
INVARIANTS TypeOK ReadWhole SavedAsWritten MouseFollows
PROPERTIES WriteExact
