SPECIFICATION Spec
CONSTANTS
  t1 = t1  t2 = t2
  home = home  locked = locked
  b1 = b1  b2 = b2
  Threads <- TwoThreads
  Lines <- AllLines
  LinesEach = 3
  Dirs <- HomeAndLocked
  Writable <- OnlyHome
  Bases <- TwoBases
  MaxLog = 2
  MaxNow = 1
  MaxId = 3
  Small = 4  Large = 9  Numeric = 2
  Levels = {0, 1}  Warn = 1  Error = 1
  Pieces = {9}
  Header = 1  Trailer = 1  ErrText = 1  Digits = 1
  MaxPieces = 1
  MaxSettings = 2
SYMMETRY Symmetric
INVARIANTS TypeOK LinesPrintable TextKept LogBelowLimit
PROPERTIES KeepsLines RollOpensNewFile
CHECK_DEADLOCK FALSE
