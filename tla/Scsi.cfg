SPECIFICATION Spec
CONSTANTS
  Size = 4
  SecsPerBlock = 2
  Sectors = {a, b}
  Erased = erased
  MaxLen = 2
  Ids = {id0, id6}
  HdId = id6
  FirstId = id0
  Own = own
  Blank = blank
  Identity = identity
  Capacity = capacity
  Cdbs <- MCCdbs
INVARIANTS Controller ReadsTheDisk WriteDone CalledOnce StatusOfCommand
PROPERTIES DrivesFlash
