CONSTANTS
  MaxHour = 0
  Retention = 1
  MaxSent = 1
  MaxXrayStarts = 0
  MaxCrashes = 1
  MaxAcks = 0
  MaxFails = 0
  Inodes = {i1, i2, i3}
  NoInode = NoInode
  Torn = Torn
SPECIFICATION Spec
INVARIANT RestartCountsOnce
