CONSTANTS
  p0 = p0
  p1 = p1
  cat1 = cat1
  cat2 = cat2
  foe = foe
  NoBattle = NoBattle
  Slots = 2
  RingSize = 2
  Leader = p0
  Follower = p1
  LastBattle = 2
  LastTurn = 3
  Ahead = p0
  Behind = p1
  Events <- EventsFirstAndLast
  Order <- FoeBetween
  Cat = {cat1, cat2}
  Target = {cat2, foe}
  Drift = {"ai", "empty", "other"}
  BufCap = 4
  MaxSteps = 5
  MaxDraws = 1
  Null = Null
  Copy = {p0, p1}
  Wait = 1
  Delay = {0, 1, 3}
  Managed = 100
  EndOfBattle = 3
  TurnTicks = 3
  Never = Never
SPECIFICATION TurnsSpec
INVARIANTS
  EveryTurnCompared
  NodesCompared
  CrashKeepsTurns
  Reproduced
  DelaysAgree
CHECK_DEADLOCK FALSE
