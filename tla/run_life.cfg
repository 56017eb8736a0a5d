CONSTANTS
  c1 = c1
  Host = Host
  Client = {c1}
  Nodes = 2
  Together <- SecondIsBattle
  MaxRuns = 2
  MaxFaults = 2
  MaxWire = 2
  ConfirmPolls = 2
  MaxPresses = 2
  MaxQuits = 2
  Data <- NoData
  Fresh = Fresh
  NoBlob = NoBlob
SPECIFICATION FairLifeSpec
INVARIANTS
  NeverHome
PROPERTIES
  Follows
  LeavesToo
CHECK_DEADLOCK FALSE
