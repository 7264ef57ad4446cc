CONSTANTS
  k1 = k1
  k2 = k2
  k3 = k3
  Key = {k1, k2}
  Value = {0, 1}
  Seed = {0}
  InitSeed = 0
  Hash <- MCHash
  Growth <- MCGrowth
  Word = 1024
  Ops = {"set", "add", "remove", "mark", "rehash", "reserve"}
  RehashSizes = {8}
  ReserveSizes = {3}
  Fails = {}
  MaxEntries = 3
  MaxShift = 5
SPECIFICATION Spec
INVARIANTS
  LinksUnique
  GravestonesCounted
PROPERTIES
  IsMultiMap
