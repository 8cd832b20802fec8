SPECIFICATION FairSpec
CONSTANTS
  j1 = j1
  j2 = j2
  o1 = o1
  None = None
  Jobs <- MCJobs
  Objs = {o1}
  Kinds <- MCKinds
  MaxStops = 2
INVARIANTS
  TypeOK
  LateHandlerIsAlone
  AnswerIsOwn
  CacheIsClean
PROPERTY Notified
CHECK_DEADLOCK FALSE
