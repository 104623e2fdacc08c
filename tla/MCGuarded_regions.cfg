SPECIFICATION FairSpec
CONSTANTS
  Threads = {t1, t2, t3}
  Regions = {r1, r2}
  None = None
INVARIANT NoFault
INVARIANT IdleClosed
INVARIANT WipedFirst
INVARIANT NothingLeftBehind
PROPERTY EventuallyUnmapped
