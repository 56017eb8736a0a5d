CONSTANTS
  c1 = c1
  Host = Host
  Client = {c1}
  Nodes = 2
  Together <- SecondIsBattle
  MaxRuns = 2
  MaxWire = 2
  ConfirmPolls = 1
  MaxPresses = 1
  MaxQuits = 1
  Data <- RunData
  Fresh <- NoData
  NoBlob = NoBlob
  NoPush = NoPush
  NoValue = NoValue
  MaxEdits = 1
  MaxFaults = 1
SPECIFICATION Spec
PROPERTIES
  SameStart
VIEW View
CHECK_DEADLOCK FALSE
