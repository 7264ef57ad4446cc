CONSTANTS
  Item = {x, y}
  Word = 16
  handle_offset = 14
  LeastGrowth = 1
  ReserveSizes = {2, 3}
  ReservesAnytime = FALSE
  Outcomes = {"resize", "allocate", "fail"}
  Junk = {0, 1, 15}
  MaxCapacity = 4
SPECIFICATION Spec
INVARIANTS
  ItemsFormLoops
  FreeListWhole
  InsertHasSlot
PROPERTIES
  IsHandleStore
CHECK_DEADLOCK FALSE
