SPECIFICATION FairSpec
CONSTANTS
  NoThread = NoThread
  MASTER_NAME = master
  Threads = {t1, t2}
  Names = {master, a}
  Ops <- AllOps
  MaxFailures = 2
  FailureWindow = 1
  KeyThreshold = 1
  KeyWindow = 1
  KeyLockExpires = TRUE
  KeyDuration = 1
  BackoffBase = 1
  BackoffMax = 1
  UsizeMax = 7
  MaxTime = 1
  MaxCalls = 4
INVARIANT CounterAccounted
INVARIANT FastPathSound
 
CHECK_DEADLOCK FALSE
