CONSTANTS
  QueueCap = 2
  Seconds <- OneCat
  None = None
SPECIFICATION WireSpec
INVARIANTS
  AsSent
  Delivered
  OneOwner
CHECK_DEADLOCK FALSE
