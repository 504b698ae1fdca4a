SPECIFICATION Spec
CONSTANTS
  a = a
  b = b
  c = c
  d = d
  e = e
  Player = {a, b, c, d, e}
  NoReport = NoReport
  MaxPlayers = 5
  MinPlayers = 4
  PlannedRounds = 3
  Shuffles <- OneShuffle
  Draws = FALSE
  MaxTables = 2
  TableRounds = 1
  MaxDisturbances = 1
INVARIANTS
  TypeOK
  RoundsAreWhole
  NoAvoidableRematch
  ByesAreShared
  OneTable
PROPERTY ResultsStand
CHECK_DEADLOCK FALSE
