SPECIFICATION Spec
CONSTANTS
  Run = {r1}
  Task = {t1}
  Key = {k1}
  Oversized = {}
  Worker = {w1}
  Handler = {h1}
  NoRun = NoRun
  NoTask = NoTask
  NoKey = NoKey
  NoWorker = NoWorker
  NoHandler = NoHandler
  MaxAttempts = 1
  RetryGrant = 1
  LeaseTerm = 1
  AttemptCap = 2
  MayCrash = FALSE
INVARIANTS
  QueuedIsClaimable
CHECK_DEADLOCK FALSE
