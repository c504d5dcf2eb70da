CONSTANTS
  Callers = {c1, c2}
  Procs = {p1, p2}
  None = None
  Unstarted = Unstarted
  Nobody = Nobody
  MaxRestarts = 1
  WatchdogEnabled = TRUE
SPECIFICATION XrayFairSpec
INVARIANTS OneProcess
PROPERTIES StopSticks CallsReturn CrashIsAnswered
