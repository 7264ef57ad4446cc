CONSTANTS
  Item = {x, y}
  Word = 32
  BUCKET_SIZE = 2
  BUCKET_GRANULARITY = 6
  LEAST_ITEMS_COUNT = 1
  LEAST_BUCKETS_COUNT = 3
  item_bytes = 2
  handle_offset = 0
  ReserveSizes = {2, 4}
  Fails = {"table", "block"}
  MaxIndex = 6
  USED_BIT = 4
  MaxInserts = 4
SPECIFICATION WeakSpec
INVARIANTS
  FreeListWhole
  StaleNotFound
  BlocksFreed
  InsertInRange
PROPERTIES
  IsHandleStore
CHECK_DEADLOCK FALSE
