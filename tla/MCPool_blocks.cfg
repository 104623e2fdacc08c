SPECIFICATION PoolSpec
CONSTANTS
  Buffers = {b1, b2, b3}
  Classes <- MCClasses
  PageSize = 4
  MaxLen = 9
  MemSize = 12
SYMMETRY BufferSymmetry
INVARIANT BlocksConserved
INVARIANT FreeBlocksZero
