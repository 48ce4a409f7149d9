SPECIFICATION SlipSpec
CONSTANTS
  Responses <- SomeResponses
  Commands <- SyncOrData
  Texts <- SomeText
  CodecData <- ShortData
  MaxWrites = 3
INVARIANTS
  CodecUndone
  OnlyWritten
  NoneSkipped
  RaisedForCause
