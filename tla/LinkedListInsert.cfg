CONSTANTS
  Addr = {a1, a2, a3}
  Value = {v1, v2}
  NULL = NULL
  MaxPos = 3
SPECIFICATION IterSpec
CHECK_DEADLOCK FALSE
INVARIANT InsertAtInserts
