CONSTANTS
  MaxPeers = 3
  Dials = 3
  QueueCap = 2
  MaxForeign = 1
  MaxDrops = 1
  None = None
SPECIFICATION Spec
INVARIANTS
  OneIdEach
  KeptOut
  RosterSettles
  AllWelcome
CHECK_DEADLOCK FALSE
