SPECIFICATION Spec
CONSTANTS
  NChars = 8
  Depth = 2
INVARIANT UsbIInv
PROPERTIES
  DeliversInOrder
  HostWakesDriver
