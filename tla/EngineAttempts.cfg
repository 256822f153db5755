SPECIFICATION Spec
CONSTANTS
  Run = {r1}
  Task = {t1}
  Key = {k1, k2}
  Oversized = {k2}
  Worker = {w1, w2}
  Handler = {h1, h2}
  NoRun = NoRun
  NoTask = NoTask
  NoKey = NoKey
  NoWorker = NoWorker
  NoHandler = NoHandler
  MaxAttempts = 2
  RetryGrant = 1
  LeaseTerm = 2
  AttemptCap = 3
  MayCrash = TRUE
SYMMETRY Symmetry
INVARIANTS
  TypeOK
  AttemptMatchesTask
  AcceptedOnce
  SucceededRunClean
PROPERTIES
  EndedTaskStays
  RequeuedHasAttempt
  ImplementsLifecycle
CHECK_DEADLOCK FALSE
