SPECIFICATION FairSpec
CONSTANTS
  MaxLag = 1
  n1 = n1
  n2 = n2
  j1 = j1
  NULL = NULL
  Nodes <- TwoNodes
  Jobs <- OneJob
  TimedJobs <- OneJob
  Timeout = 1
  AgainDelay = 1
  MaxOperators = 2
  MaxStarts = 3
  MaxAgain = 1
  MaxFaults = 1
INVARIANT ExclusiveExecution
INVARIANT StartsAccounted
INVARIANT ReadyNodeRunsItsClaims
INVARIANT TimerFollowsClaim
PROPERTY ResultIsFinal
PROPERTY ImplementsLedger
 
