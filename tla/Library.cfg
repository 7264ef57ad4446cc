CONSTANTS
  Item = {"a", "b"}
  Node = {n1, n2, n3, n4}
  Null = null
  Char = {1, 2}
  Path = {p, q}
  FileVar = {f, g}
  Given <- MCGiven
  MaxItems = 4
  Capacities = {0, 2, 5}
  Var = {0, 1}
  Allocator = {"malloc", "arena"}
  Malloc = "malloc"
  OwnedCapacities = {0, 1, 3}
  MaxSwaps = 2
  indeces_size = 4
  Row = {0, 1, 2}
  Hash = {0, 3, 6}
  MaxFile = 5
  MAX_READ_WRITE_CHUNK = 2
  Descriptor = {0, 1, 2}
  GuardSize = 2
  MaxGuards = 2
  Handle = {0, 1}
  Modes <- MCModes
  Handed <- MCHanded
  MaxSize = 2
  Bits = 4
  MASK_LOW = 4
  Backings = {0, 1, 3}
  FirstCapacity = 2
  MaxPushed = 3
  Trees <- MCTrees
  Root = "r"
  max_time_ns = 8
  WarmUps = {0, 2, 9}
  ClockRuns <- MCClockRuns
  batch_of_clock_accuracy_multiple = 1
  min_batch_size = 1
  min_end_checks = 2
  Ticks = {0, 1, 3}
  HUGE = 1000
SPECIFICATION Spec
INVARIANTS
  ArraySound
  LinksSound
  FilesSound
  WindowsFilesSound
  ListingSound
  TextRight
  PathsRight
  MeasuredRight
PROPERTIES
  ItemsFollow
  OnlyWritersWrite
  CallsEnd
CHECK_DEADLOCK FALSE
