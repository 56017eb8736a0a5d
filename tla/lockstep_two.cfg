CONSTANTS
  p0 = p0
  p1 = p1
  p2 = p2
  cat1 = cat1
  cat2 = cat2
  foe = foe
  n1 = n1
  n2 = n2
  NoBattle = NoBattle
  NoPeer = NoPeer
  Slots = 2
  Host = p0
  Client = {p1}
  Cat = {cat1, cat2, foe}
  Human = {cat1, cat2}
  Node = {1, 2, 3}
  Combat = {1, 2}
  TurnOrder <- PlayerThenAI
  Turns = 3
  Ability = {"use"}
  MaxAbilities = 1
  Tables <- Outdated
  MayDrift = {}
  JoinBarrier = TRUE
  DesyncHalt = TRUE
  RingSize = 4
  MaxPending = 4
  MaxSentLog = 8
  MaxFollow = 4
SPECIFICATION FairSpec
INVARIANTS
  LogComplete
  SoleDriver
PROPERTIES
  KeepsPromise
  BadSplitStops
  RunCompletes
CHECK_DEADLOCK FALSE
