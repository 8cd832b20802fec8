SPECIFICATION Spec
CONSTANTS
  j1 = j1
  j2 = j2
  o1 = o1
  None = None
  Jobs <- MCJobs
  Objs = {o1}
  Kinds = {"short"}
  MaxStops = 1
INVARIANT CachedStopChIsOpen
CHECK_DEADLOCK FALSE
