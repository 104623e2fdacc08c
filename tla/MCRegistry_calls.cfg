SPECIFICATION FairSpec
CONSTANTS
  NoThread = NoThread
  None = None
  Threads = {t1, t2}
  Names = {a, b}
  Keys = {k1, k2}
  MaxCalls = 3
INVARIANT UniqueNames
INVARIANT AuditBalanced
PROPERTY HandlesStable
PROPERTY Linearizable
PROPERTY EveryCallReturns
