SPECIFICATION FairSpec
CONSTANTS
  w1 = w1
  w2 = w2
  t1 = t1
  t2 = t2
  t3 = t3
  s1 = s1
  s2 = s2
  NoTask = NoTask
  Signalled = {t1}
  Workers = {w1}
  Tasks <- MCTasks2
  Stoppers = {s1}
  QueueSize = 1
  MaxPanics = 1
  Modes <- MCModes
  Timed = {FALSE}
PROPERTIES
  StopReturns
  CallersReleased
  QueueServed
  RunBGReturns
CHECK_DEADLOCK FALSE
