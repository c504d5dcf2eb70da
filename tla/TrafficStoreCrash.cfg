CONSTANTS
  MaxHour = 1
  Retention = 0
  MaxSent = 2
  MaxXrayStarts = 1
  MaxCrashes = 1
  MaxAcks = 1
  MaxFails = 0
  Inodes = {i1, i2}
  NoInode = NoInode
  Torn = Torn
SPECIFICATION Spec
SYMMETRY InodesAlike
INVARIANTS
  CountedOnce
