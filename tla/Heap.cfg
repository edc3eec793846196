CONSTANTS
  v1 = v1
  v2 = v2
  v3 = v3
  Value = {v1, v2, v3}
  NULL = NULL
  Key <- MCKey
  Capacity = {0, 3, 8, 9}
  SIZE_MAX = 63
  WrapAt = 8
  MaxSize = 6
SPECIFICATION FairSpec
CHECK_DEADLOCK FALSE
INVARIANTS TypeOK HeapOrder StaleRightChild OverrunsOnlyWrapped
PROPERTIES ImplementsQueueSpec HeapifyHalves CallsEnd
