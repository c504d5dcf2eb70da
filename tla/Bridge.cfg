SPECIFICATION LiveSpec
CONSTANTS
  Specs = {s1, s2}
  None = None
  MinDelay = 2
  MaxDelay = 3
  MaxChanges = 2
  MaxFaults = 2
INVARIANTS
  OneChild
  InStep
  StoppedForGood
PROPERTIES
  BridgeFollows
  ShutdownEnds
