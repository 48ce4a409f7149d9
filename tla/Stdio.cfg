SPECIFICATION Spec
CONSTANTS
  BufSiz = 2
  MaxPut = 3
  MaxIn = 3
  Sizes <- SomeSizes
  Offsets <- SomeOffsets
INVARIANTS
  TypeOK
  OutInOrder
  LossIsTold
  ReadWindow
  BufferLives
PROPERTY Returns
