SPECIFICATION LiveSpec
CONSTANTS
  MaxVersion = 3
  MaxJobs = 3
  MaxFaults = 2
INVARIANTS
  ResultTrue
  UndoKept
PROPERTIES
  JobEnds
  PanelComesBack
CHECK_DEADLOCK FALSE
