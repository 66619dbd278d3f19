SPECIFICATION FairSpec
CONSTANTS
  N = 5
  Graphs <- MCGraphs
  Plans <- MCPlans
INVARIANTS
  OpsComplete
  RemovalsInOrder
  RequiresFirst
PROPERTIES
  SortSucceeds
\* The order is computed once.
CHECK_DEADLOCK FALSE
