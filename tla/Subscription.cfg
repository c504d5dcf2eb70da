SPECIFICATION LiveSpec
CONSTANTS
  Artifacts = {accounts, peers}
  Callers = {admin}
  MaxTime = 1
  MaxUsed = 1
  MaxLimit = 2
  MaxFaults = 1
INVARIANTS
  AccessFollowsStatus
  BanIsUndone
PROPERTIES
  AdminPauseHolds
  ExpiryIsEnforced
