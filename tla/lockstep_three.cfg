CONSTANTS
  p0 = p0
  p1 = p1
  p2 = p2
  cat1 = cat1
  cat2 = cat2
  foe = foe
  n1 = n1
  n2 = n2
  NoBattle = NoBattle
  NoPeer = NoPeer
  Slots = 2
  Host = p0
  Client = {p1, p2}
  Cat = {cat1, cat2}
  Human = {cat1, cat2}
  Node = {n1, n2}
  Combat = {n1, n2}
  TurnOrder <- PlayersOnly
  Turns = 2
  Ability = {"use"}
  MaxAbilities = 0
  Tables <- Agreed
  MayDrift = {}
  JoinBarrier = TRUE
  DesyncHalt = TRUE
  RingSize = 4
  MaxPending = 4
  MaxSentLog = 8
  MaxFollow = 4
SYMMETRY Interchangeable
SPECIFICATION Spec
INVARIANTS
  NothingLost
  EveryoneHere
  NoFalseHalt
CHECK_DEADLOCK FALSE
