CONSTANTS
  buffer_to = 12
  SLOT = 2
  Requests <- MCRequests
  RingRequests <- MCRingRequests
  ResizeSizes = {2, 6}
  ResizesAnytime = FALSE
  MaxLive = 3
  MaxCount = 9
  HEADER = 1
  MaxCalls = 3
  N = 3
  Sizes = {0, 1, 2}
  Pointers = {1, 2, 3, 4, 5, 6}
  memory_size = 8
  BlockSizes = {1, 3}
SPECIFICATION Spec
INVARIANTS
  LinearSound
  StackSound
  RingSound
  ArenaSound
  HeapSound
CHECK_DEADLOCK FALSE
