SPECIFICATION StartupSpec
CONSTANTS
  Inodes = {i1, i2, i3}
  Dirs = {given, sound, loose}
  None = None
  Given = given
  Private = {i1, i2}
  DirOk = {given, sound}
  TreeOk = {sound}
  MinBuf = 2
  MaxSize = 3
  MaxMoves = 2
  Durations = {0, 1, 3}
  DurationMax = 9
  ShiftCap = 3
  MaxBuilderCalls = 3
INVARIANT CheckedFile
INVARIANT WholeFile
 
 
INVARIANT NeverWeaker
INVARIANT BackoffGrows
PROPERTY FetchEnds
