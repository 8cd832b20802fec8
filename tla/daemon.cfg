CONSTANTS
  Requests = {r1, r2}
  QueueSize = 1
  MaxFails = 1
  Timeouts <- MCTimeouts
  Secrets <- MCSecrets
SPECIFICATION Spec
INVARIANTS GracefulExit ExitTellsCause KeyInForce
PROPERTIES StopsInTime
CHECK_DEADLOCK FALSE
