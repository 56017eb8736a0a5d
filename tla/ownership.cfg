CONSTANTS
  p0 = p0
  p1 = p1
  p2 = p2
  NoOwner = NoOwner
  MaxOwnerSlots = 4
  Host = p0
  Client = {p1, p2}
  MaxClients = 3
  MaxPending = 1
  MaxCats = 2
  MaxNodes = 2
  MaxDrops = 1
SYMMETRY Interchangeable
SPECIFICATION Spec
INVARIANTS
  SameSplit
  NothingMissed
PROPERTIES
  NeverReassigned
CHECK_DEADLOCK FALSE
