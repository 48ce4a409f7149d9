SPECIFICATION Spec
CONSTANTS
  NBlocks = 2
  MaxAttempts = 2
  SyncReplies = 2
  BootLines = 1
  FaultSets <- Refusals
INVARIANT CleanMeansLoaded
