CONSTANTS
  Callers = {c1, c2}
  Nodes = {n1}
  Gates = {g1, g2}
  NoGate = NoGate
  MaxHour = 1
  MaxBytes = 2
  MaxTrouble = 0
SPECIFICATION SyncSpec
INVARIANT DroppedWasReceived
