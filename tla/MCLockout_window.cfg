SPECIFICATION Spec
CONSTANTS
  NoThread = NoThread
  MASTER_NAME = master
  Threads = {t1, t2}
  Names = {master, a}
  Ops <- FailureOps
  MaxFailures = 3
  FailureWindow = 1
  KeyThreshold = 2
  KeyWindow = 2
  KeyLockExpires = TRUE
  KeyDuration = 1
  BackoffBase = 1
  BackoffMax = 2
  UsizeMax = 7
  MaxTime = 5
  MaxCalls = 4
SYMMETRY ThreadAndNameSymmetry
PROPERTY WindowExact
 
