SPECIFICATION Spec
CONSTANTS
  w1 = w1
  w2 = w2
  t1 = t1
  t2 = t2
  t3 = t3
  s1 = s1
  s2 = s2
  NoTask = NoTask
  Signalled = {}
  Workers = {w1}
  Tasks = {t1, t2}
  Stoppers = {s1}
  QueueSize = 1
  MaxPanics = 0
  Modes = {"LIGHT"}
  Timed = {FALSE}
INVARIANT LightFinishesQueue
CHECK_DEADLOCK FALSE
