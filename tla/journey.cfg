CONSTANTS
  p0 = p0
  p1 = p1
  NoChoice = NoChoice
  Host = p0
  Client = {p1}
  Visit <- Mixed
  Strange <- OtherMap
  MaxPending = 2
  SkippedRing = 3
  kit0 = kit0
  kit1 = kit1
  Shopper = {p0, p1}
  Ware = {"sweet", "salt", "bonbon"}
  Candy = {"sweet", "bonbon"}
  Banned = {"bonbon"}
  Kitten = {kit0, kit1}
  CarerOf <- Carers
  MaxQueued = 2
  MaxWatches = 2
  MaxRedirects = 2
  NoLevelUp = NoLevelUp
  Unused = Unused
  Untold = Untold
  Nobody = Nobody
SPECIFICATION PartSpec
INVARIANTS
  SameDecisions
  SameWay
  SameHaul
PROPERTIES
  NobodyStays
  LevelUpsDecided
CHECK_DEADLOCK FALSE
