SPECIFICATION Spec
CONSTANTS
  Workflow = {wf}
  Version = {v1, v2}
  Run = {r1}
  Process = {p1, p2}
  NoWorkflow = NoWorkflow
  NoVersion = NoVersion
  NoRun = NoRun
  MaxClock = 1
  Skew = 0
  MayReopen = FALSE
  MayFail = FALSE
SYMMETRY Symmetry
INVARIANTS
  OnePublished
CHECK_DEADLOCK FALSE
