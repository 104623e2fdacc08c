SPECIFICATION FairSpec
CONSTANTS
  Threads = {t1, t2, t3}
  Arcs = {a0, a1, a2}
  First = a0
  None = None
  IdMax = 2
  MaxCalls = 4
INVARIANT CountsExact
INVARIANT IdsUnique
PROPERTY AtomicCell
PROPERTY EveryCallReturns
