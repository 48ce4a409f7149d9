SPECIFICATION Spec
CONSTANTS
  NChars = 4
  Depth = 2
PROPERTY FlushWaits
