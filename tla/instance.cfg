SPECIFICATION Spec
CONSTANTS
  w = w
  c = c
  a = a
  w1 = w1
  w2 = w2
  c1 = c1
  c2 = c2
  a1 = a1
  WorkshopPartitions = {w}
  CronPartitions = {c, a}
  Anonymous = {a}
  Sticky = {w, a}
  Executions = {w1, w2, c1, c2, a1}
  PartitionOf <- MCPartitionOf
  Tagged = {w1, c1}
  Notified = {c1}
  Urls = {c2}
  MaxOperators = 1
INVARIANT PublishedExactly
INVARIANT NothingAbandoned
PROPERTY ShutdownQuiet
PROPERTY ShutdownEnds
CHECK_DEADLOCK FALSE
