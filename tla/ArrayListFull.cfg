CONSTANTS
  v1 = v1
  v2 = v2
  Value = {v1, v2}
  NULL = NULL
  JUNK = JUNK
  SIZE_MAX = 63
  WrapAt = 8
  Capacity = {0, 1, 2, 3, 4, 8, 9}
  MaxPos = 4
  MaxSize = 5
  Address <- MCAddress
SPECIFICATION SearchSpec
CHECK_DEADLOCK FALSE
INVARIANT GrowsAsDocumented
