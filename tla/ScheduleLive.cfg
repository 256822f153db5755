SPECIFICATION FairSpec
CONSTANTS
  Workflow = {wf}
  Version = {v1}
  Run = {r1, r2}
  Process = {p1}
  NoWorkflow = NoWorkflow
  NoVersion = NoVersion
  NoRun = NoRun
  MaxClock = 3
  Skew = 0
  MayReopen = FALSE
  MayFail = TRUE
PROPERTIES
  DueTickDecided
CHECK_DEADLOCK FALSE
