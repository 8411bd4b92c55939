SPECIFICATION Spec
CONSTANTS
  Size = 4
  SecsPerBlock = 2
  Contents = {a, b}
  Erased = erased
  MaxLen = 3
PROPERTIES IsDisk
