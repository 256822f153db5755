SPECIFICATION Spec
CONSTANTS
  Workflow = {wf}
  Version = {v1}
  Run = {r1, r2}
  Process = {p1, p2}
  NoWorkflow = NoWorkflow
  NoVersion = NoVersion
  NoRun = NoRun
  MaxClock = 2
  Skew = 1
  MayReopen = TRUE
  MayFail = TRUE
SYMMETRY Symmetry
INVARIANTS
  TypeOK
  TickStartsOnce
  EnabledScheduleStartable
  DisabledScheduleEmpty
PROPERTIES
  NoBacklog
  QueuedTickKept
CHECK_DEADLOCK FALSE
