SPECIFICATION Spec
CONSTANTS
  Run = {r1}
  Task = {t1, t2, t3}
  Key = {k1, k2, k3}
  Oversized = {}
  Worker = {w1}
  Handler = {h1}
  NoRun = NoRun
  NoTask = NoTask
  NoKey = NoKey
  NoWorker = NoWorker
  NoHandler = NoHandler
  MaxAttempts = 1
  RetryGrant = 1
  LeaseTerm = 1
  AttemptCap = 1
  MayCrash = FALSE
SYMMETRY Symmetry
INVARIANTS
  FinishedRunQuiet
  OneTaskPerPage
PROPERTIES
  CancelReachesSubtree
CHECK_DEADLOCK FALSE
