CONSTANTS
  x = x
  y = y
  z = z
  Key = {x, y, z}
  NULL = NULL
  W = 4
  SIZE_MAX = 63
  UINT_MAX = 31
  Size = {5, 12}
  Bit = {0, 1, 3, 4, 7, 8, 15, 31}
  Hash1 <- MCHash1
  Hash2 <- MCHash2
SPECIFICATION Spec
CHECK_DEADLOCK FALSE
PROPERTY BitsAsDocumented
