SPECIFICATION Spec
CONSTANTS
  Inbounds = {i1}
  HotInbounds = {}
  Creds = {k1}
  None = None
  MaxCalls = 2
  MaxRetries = 1
  BatchSize = 2
  MaxFaults = 0
INVARIANT FallbackDelivers
CHECK_DEADLOCK FALSE
