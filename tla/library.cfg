SPECIFICATION FairSpec
CONSTANTS
  Plans <- MCPlans
  NULL = NULL
  MaxEdits = 3
  MaxErrors = 1
INVARIANT GetFresh
INVARIANT DirectoryFresh
 
PROPERTY InstalledPlanOffered
CHECK_DEADLOCK FALSE
