SPECIFICATION FairSpec
CONSTANTS
  Plans <- MCPlans
  MaxDelay = 1
  MaxSent = 3
INVARIANT OneResult
INVARIANT CommandsHonoured
INVARIANT RepliesInOrder
PROPERTY RequestsAnswered
CHECK_DEADLOCK FALSE
