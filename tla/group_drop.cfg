SPECIFICATION FairSpec
CONSTANTS
  gw = gw
  gc = gc
  t1 = t1
  t2 = t2
  t3 = t3
  Groups = {gw}
  WithChannel = {}
  Tasks <- MCTasksOfOne
  GroupOf <- MCGroupOfOne
  QueueSize = 1
  TotalTimeout = TRUE
  MaxFails = 0
PROPERTY ConsumersAnswered
CHECK_DEADLOCK FALSE
