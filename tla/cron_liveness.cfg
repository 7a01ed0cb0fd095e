SPECIFICATION FairSpec
CONSTANTS
  n1 = n1
  n2 = n2
  j1 = j1
  NULL = NULL
  Nodes <- TwoNodes
  Jobs <- OneJob
  Schedules <- ParsedOrNot
  Delays <- OneDelay
  MaxOperators = 1
  SlowJobs = FALSE
  MaxEvents = 1
PROPERTY PeriodicJobsRun
CHECK_DEADLOCK FALSE
