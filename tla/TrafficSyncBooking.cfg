CONSTANTS
  Callers = {c1, c2}
  Nodes = {n1}
  Gates = {g1, g2}
  NoGate = NoGate
  MaxHour = 2
  MaxBytes = 2
  MaxTrouble = 2
SPECIFICATION LiveSyncSpec
INVARIANTS
  NoIdleGate
  BookedOnce
  OlderHoursBooked
PROPERTIES
  MutexSpec
  NobodyWaitsForEver
  EverythingBooked
