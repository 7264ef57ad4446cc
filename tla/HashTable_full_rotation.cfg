CONSTANTS
  k1 = k1
  k2 = k2
  k3 = k3
  Key = {k1, k3}
  Value = {0}
  Seed = {0}
  InitSeed = 0
  Hash <- MCHash
  Growth <- SmallGrowth
  Word = 1024
  Ops = {"add", "remove", "mark"}
  RehashSizes = {}
  ReserveSizes = {}
  Fails = {}
  MaxEntries = 6
  MaxShift = 5
SPECIFICATION Spec
INVARIANTS
  ProbeEnds
CHECK_DEADLOCK FALSE
