CONSTANTS
  k1 = k1
  k2 = k2
  k3 = k3
  Key = {k1, k2, k3}
  Value = {0}
  Seed = {0, 1}
  InitSeed = 0
  Hash <- MCHash
  Growth <- TightGrowth
  Word = 1024
  Ops = {"add", "remove", "rehash", "reserve"}
  RehashSizes = {0, 8}
  ReserveSizes = {3}
  Fails = {"linker", "entries"}
  MaxEntries = 3
  MaxShift = 5
SPECIFICATION FairSpec
INVARIANTS
  TypeOK
  KeysFound
  FindNextVisits
  NoDeadEntries
  RehashFits
  ProbeEnds
PROPERTIES
  CallsReturn
CHECK_DEADLOCK FALSE
