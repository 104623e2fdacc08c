SPECIFICATION Spec
CONSTANTS
  Buffers = {b1, b2, b3}
  PageSize = 2
  HeapSize = 4
SYMMETRY BufferSymmetry
INVARIANT CountsExact
INVARIANT OsAgrees
INVARIANT KeyBytesLocked
INVARIANT FreedClean
