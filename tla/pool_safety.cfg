SPECIFICATION Spec
CONSTANTS
  w1 = w1
  w2 = w2
  t1 = t1
  t2 = t2
  t3 = t3
  s1 = s1
  s2 = s2
  NoTask = NoTask
  Signalled = {t1}
  Workers <- MCWorkers
  Tasks <- MCTasks2
  Stoppers = {s1}
  QueueSize = 1
  MaxPanics = 1
  Modes <- MCModes
  Timed = {TRUE}
SYMMETRY Symmetry
INVARIANTS
  TypeOK
  OneErrorPerWorker
  RoomForErrors
  ClosedAfterWorkers
  OneHolder
  QueueLeftEmpty
  StopSentOnce
PROPERTY KeepsPromise
CHECK_DEADLOCK FALSE
