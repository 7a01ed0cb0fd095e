SPECIFICATION Spec
CONSTANTS
  n1 = n1
  n2 = n2
  i1 = i1
  p1 = p1
  j1 = j1
  Nodes = {n1, n2}
  Jobs = {j1}
  Ids = {i1}
  Plans = {p1}
  PlanName <- MCPlanName
  StickyId <- MCStickyId
  Score <- MCScore
  MaxChanges = 4
INVARIANT NonLocalSound
PROPERTY ClaimedByOwner
PROPERTY StickyJobTaken
