SPECIFICATION Spec
CONSTANTS
  NoThread = NoThread
  MASTER_NAME = master
  Threads = {t1, t2}
  Names = {master, a}
  Ops <- KeyOps
  MaxFailures = 0
  FailureWindow = 1
  KeyThreshold = 1
  KeyWindow = 1
  KeyLockExpires = FALSE
  KeyDuration = 0
  BackoffBase = 0
  BackoffMax = 0
  UsizeMax = 7
  MaxTime = 0
  MaxCalls = 5
SYMMETRY ThreadAndNameSymmetry
INVARIANT KeyLockoutEnforced
