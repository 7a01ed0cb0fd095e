SPECIFICATION Spec
CONSTANTS
  n1 = n1
  n2 = n2
  j1 = j1
  NULL = NULL
  Nodes <- TwoNodes
  Jobs <- OneJob
  Schedules <- OnceOrNot
  Delays <- OneDelay
  MaxOperators = 1
  SlowJobs = FALSE
  MaxEvents = 2
SYMMETRY NodeSymmetry
INVARIANT ReadyNodeRunsItsClaims
INVARIANT SchedulerWakeup
INVARIANT ClaimWakeup
INVARIANT OnceNotRescheduled
INVARIANT SingleProcess
CHECK_DEADLOCK FALSE
PROPERTY ImplementsLedger
