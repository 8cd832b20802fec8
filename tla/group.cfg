SPECIFICATION FairSpec
CONSTANTS
  gw = gw
  gc = gc
  t1 = t1
  t2 = t2
  t3 = t3
  Groups <- MCGroups
  WithChannel = {gc}
  Tasks <- MCTasks
  GroupOf <- MCGroupOf
  QueueSize = 1
  TotalTimeout = TRUE
  MaxFails = 1
INVARIANTS
  TypeOK
  OkMeansDone
  NeverNegative
PROPERTIES
  GroupReturns
  CollectorEnds
CHECK_DEADLOCK FALSE
