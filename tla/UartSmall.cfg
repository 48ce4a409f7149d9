SPECIFICATION Spec
CONSTANTS
  NChars = 7
  Cap = 4
  Threshold = 3
  Leftover = 3
INVARIANTS
  NoOverrun
  UartIInv
PROPERTIES
  Delivers
  Returns
