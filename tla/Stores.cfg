SPECIFICATION StoresSpec
CONSTANTS
  Parts = {"authoring", "definitions", "listing", "budget", "records", "resources", "magnets"}
  WorkflowDrafts <- GivenManyDrafts
  FieldSets <- GivenThreeFieldSets
  RecordSchemas <- GivenThreeSchemas
  PageBatches <- GivenTwoBatches
  UpperCase <- GivenOneUpper
  SavingTasks = {"t1"}
  LegacyValues <- GivenTwoValues
  LegacyImporters = {"i1"}
  ApiKeys <- GivenOneKey
  ObservationCap = 3
  VersionCap = 2
  ListPages = {"entry", "second", "third"}
  EntryPage = "entry"
  DetailPages = {"detail"}
  NoPage = "none"
  MaxPages = 3
  MaxEmptyPages = 2
  DeathCap = 1
  CallIds = {"c1", "c2"}
  ResourceRequests <- GivenManyRequests
  ResourceLinks = {"a", "b"}
  IdCap = 2
  MagnetIds = {"m1", "m2"}
  DriveJobs = {"j1"}
  DriveJobOf <- GivenOneJob
  NoJob = "nojob"
  NoMagnet = "nomagnet"
  Scheduler = "scheduler"
  ManualRequests = {"r1"}
  Polls = {"p1"}
  MaxRetry = 1
  RetryCap = 1
  FaultCap = 1
  Urls = {"start", "item", "other"}
  Root = "start"
  Details = {"item", "other"}
  Links <- GivenPageLinks
  Redirects <- GivenPageRedirects
  Hosts = {"h1", "h2"}
  Host <- GivenPageHost
  Budgets <- GivenRunBudgets
  Workers = {"w1", "w2"}
  Nobody = "nobody"
INVARIANTS
  PartsTyped
  PublishedFits
  
  
  RecordsExplained
  
  
  OneSubmitter
  CompletedIsPlayable
PROPERTIES
  PageWhole
  ArchivedStays
  CorpusVouches
  KeepsQuotas
CHECK_DEADLOCK FALSE
