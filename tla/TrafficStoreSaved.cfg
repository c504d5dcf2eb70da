CONSTANTS
  MaxHour = 1
  Retention = 0
  MaxSent = 1
  MaxXrayStarts = 0
  MaxCrashes = 0
  MaxAcks = 1
  MaxFails = 1
  Inodes = {i1, i2, i3}
  NoInode = NoInode
  Torn = Torn
SPECIFICATION LiveSpec
PROPERTY EventuallySaved
