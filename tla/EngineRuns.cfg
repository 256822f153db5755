SPECIFICATION Spec
CONSTANTS
  Run = {r1, r2}
  Task = {t1, t2}
  Key = {k1, k2}
  Oversized = {}
  Worker = {w1}
  Handler = {h1}
  NoRun = NoRun
  NoTask = NoTask
  NoKey = NoKey
  NoWorker = NoWorker
  NoHandler = NoHandler
  MaxAttempts = 1
  RetryGrant = 1
  LeaseTerm = 1
  AttemptCap = 1
  MayCrash = TRUE
SYMMETRY Symmetry
PROPERTIES
  ImplementsLifecycle
CHECK_DEADLOCK FALSE
