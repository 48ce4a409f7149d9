SPECIFICATION Spec
CONSTANTS
  NBlocks = 2
  MaxAttempts = 2
  SyncReplies = 2
  BootLines = 1
  FaultSets <- NoneOrAny
INVARIANTS
  AnsweredEndMeansLoaded
  PrefixWritten
  ExitLeavesApp
  EspIInv
PROPERTIES
  WrittenStays
  NoWriteAfterReset
  Terminates
  LoadsWhenHealthy
