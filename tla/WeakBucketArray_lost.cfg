CONSTANTS
  Item = {x}
  Word = 32
  BUCKET_SIZE = 2
  BUCKET_GRANULARITY = 4
  LEAST_ITEMS_COUNT = 6
  LEAST_BUCKETS_COUNT = 4
  item_bytes = 1
  handle_offset = 0
  ReserveSizes = {}
  Fails = {}
  MaxIndex = 7
  USED_BIT = 4
  MaxInserts = 5
SPECIFICATION WeakSpec
INVARIANTS
  LiveFound
CHECK_DEADLOCK FALSE
