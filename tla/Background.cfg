SPECIFICATION BackgroundSpec
CONSTANTS
  Parts = {"plugin", "pluginLive", "legacy", "aria2", "startup"}
  Tasks = {"cloud", "aria2"}
  Async = {"cloud"}
  Workers = {"l1", "l2"}
  JobCap = 2
  MayCrash = TRUE
  MaxAttempts = 2
  AttemptCap = 2
  LegacyEntries = {"e1", "e2"}
  LegacyWorkers = {"w1", "w2"}
  NoEntry = "none"
  QueueCap = 1
  MaxTaskErrorNum = 2
  RestartCap = 1
  EventCap = 2
  MoveFailCap = 1
  Releases = {"old", "new"}
  Nobody = "nobody"
  Needs <- OneMigrationMore
  Services = {"WorkflowWorker"}
  BootCap = 2
CHECK_DEADLOCK FALSE
INVARIANTS
  
  QueuedHasAttempt
  HeldOnce
  
PROPERTIES
  SettledStays
  LiveTaskSettles
  
  MigratesInOrder
