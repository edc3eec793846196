CONSTANTS
  Addr = {a1, a2}
  k1 = k1
  k2 = k2
  k3 = k3
  Key <- MCKey
  Value = {v1, v2}
  NULL = NULL
  Hash <- MCHash
  IndexSize = {1, 2, 3}
  MaxEntries = 4
SPECIFICATION MCSpec
CHECK_DEADLOCK FALSE
INVARIANT SetReturns
