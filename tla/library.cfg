CONSTANTS
  Workers = {w1, w2}
  Tasks = {t1}
  Stoppers = {s1}
  MaxPanics = 1
  Modes = {"LIGHT", "HARD"}
  Timed = {TRUE, FALSE}
  NoTask = NoTask
  Repeats = {0, 1, 2}
  MaxTries = 4
  Users = {u1, u2}
  Stms = {q1}
  MaxOpen = 1
  MaxExecs = 2
SPECIFICATION PartsSpec
INVARIANTS NilMeansSettled ErrorsOpenForWorkers PerformedAtMostOnce AttemptsAsConfigured CommitTells
PROPERTIES OnlineReturns StopReturns WatcherEnds CallReturns
CHECK_DEADLOCK FALSE
