SPECIFICATION FairSpec
CONSTANTS
  p1 = p1
  p2 = p2
  t1 = t1
  t2 = t2
  t3 = t3
  t4 = t4
  NULL = NULL
  Runner = runner
  Producers <- MCProducers
  Tasks <- MCTasks
  Roots <- MCRoots
  Children <- MCChildren
INVARIANTS
  TasksConserved
  FaultsExplained
PROPERTIES
  ImplementsPool
  PushedRuns
  StopEndsRun
CHECK_DEADLOCK FALSE
