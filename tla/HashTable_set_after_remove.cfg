CONSTANTS
  k1 = k1
  k2 = k2
  k3 = k3
  Key = {k1, k2, k3}
  Value = {0}
  Seed = {0}
  InitSeed = 0
  Hash <- MCHash
  Growth <- MCGrowth
  Word = 1024
  Ops = {"set", "remove"}
  RehashSizes = {8}
  ReserveSizes = {}
  Fails = {}
  MaxEntries = 3
  MaxShift = 5
SPECIFICATION Spec
INVARIANTS
  OneEntryPerKey
