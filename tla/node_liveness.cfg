SPECIFICATION FairSpec
CONSTANTS
  Jobs <- MCJobs
  Plans <- MCPlans
  PlanOf <- MCPlanOf
  Concurrency <- MCConcurrency
  RatePlans <- MCRated
  NotifyPlans <- None
  MaxOperators = 2
  RowLimit = 1
  PlanFilesChange = FALSE
  MaxDisconnects = 1
  MaxEvents = 1
PROPERTY EveryJobTaken
CHECK_DEADLOCK FALSE
