CONSTANTS
  p0 = p0
  p1 = p1
  cat1 = cat1
  cat2 = cat2
  Peer = {p0, p1}
  Host = p0
  Visit <- TreasureLast
  Player = {p0, p1}
  Pet = {cat1, cat2}
  Fighter = {cat1, cat2}
  KeeperOf <- Keepers
  Script <- TwoBattles
  MaxClicks = 1
  MaxUnread = 1
  Nobody = Nobody
SPECIFICATION ScreensSpec
INVARIANTS
  ByConsent
  PressedOnce
  FacingEarned
PROPERTIES
  VotesSuffice
  FacingSettles
CHECK_DEADLOCK FALSE
