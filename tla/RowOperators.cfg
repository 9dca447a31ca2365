SPECIFICATION Spec
CONSTANTS
  ByteBits = 3
  IntBytes = 2
  LongBytes = 3
  Tolerance = 4
  Blank = 1
  Ints = {0, 1, 2, 5, 17, 31}
  Longs = {0, 3, 32, 255}
  Floats = {0, 1, 4, 5, 9}
  Chars = {1, 3, 5}
  MaxRows = 3
  Queries <- MCQueries
INVARIANTS TypeOK SecureAgrees RowsRight LeftOutRowsZeroed AggregatesRight
