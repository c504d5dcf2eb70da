SPECIFICATION LiveSpec
CONSTANTS
  Inbounds = {i1, i2}
  HotInbounds = {i1}
  Creds = {k1, k2}
  None = None
  MaxCalls = 2
  MaxRetries = 1
  BatchSize = 2
  MaxFaults = 1
INVARIANTS
  QueueDelivers
PROPERTIES
  TasksSettle
  PresenceRestored
  CredentialRestored
CHECK_DEADLOCK FALSE
