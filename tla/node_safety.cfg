SPECIFICATION Spec
CONSTANTS
  Jobs <- MCJobs
  Plans <- MCPlans
  PlanOf <- MCPlanOf
  Concurrency <- MCConcurrency
  RatePlans <- MCRated
  NotifyPlans <- MCSingle
  MaxOperators = 2
  RowLimit = 2
  PlanFilesChange = TRUE
  MaxDisconnects = 1
  MaxEvents = 1
INVARIANT ConcurrencyLimit
INVARIANT FullFlagExact
INVARIANT PromptWakeup
INVARIANT ProgressNotifyPending
CHECK_DEADLOCK FALSE
