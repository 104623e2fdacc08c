SPECIFICATION Spec
CONSTANTS
  Threads = {t1, t2}
  None = None
  k1 = k1
  k2 = k2
  Keys = {k1, k2}
  KeyLen <- TwoLengths
  Monitors = 2
  MaxDepth = 2
  MaxCalls = 3
INVARIANT KeyStable
INVARIANT AllReleased
INVARIANT NoCircularWait
SYMMETRY ThreadSymmetry
