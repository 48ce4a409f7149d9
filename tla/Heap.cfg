SPECIFICATION Spec
CONSTANTS
  HeapEnd = 32
  HeapSize = 132
  StackEnd = 176
  SizeMax = 1023
  Requests = {12, 13, 44, 60, 120, 987, 1023}
  Aligns = {3, 32}
  Products <- Pairs
  Increments = {20}
INVARIANTS
  TypeOK
  Tiled
  FreeInOrder
  FitsAndAligned
  LostOnce
  AllComesBack
PROPERTY KeepsPromise
