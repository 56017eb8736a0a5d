CONSTANTS
  p0 = p0
  p1 = p1
  p2 = p2
  NoOwner = NoOwner
  MaxOwnerSlots = 4
  Host = p0
  Client = {p1, p2}
  MaxClients = 3
  MaxPending = 1
  MaxCats = 2
  MaxNodes = 1
  MaxDrops = 1
SPECIFICATION Spec
PROPERTIES
  OwnerIsMember
CHECK_DEADLOCK FALSE
