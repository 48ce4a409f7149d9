SPECIFICATION Spec
CONSTANTS
  Hart = 0
  BssWords = 3
  SbssWords = 1
  MaxResets = 2
INVARIANTS
  NoWatchdogInText
  BssZero
PROPERTIES
  OnlyBss
  Settles
