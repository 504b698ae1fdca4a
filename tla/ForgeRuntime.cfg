SPECIFICATION Spec
CONSTANTS
  r1 = r1
  r2 = r2
  e1 = e1
  e2 = e2
  e3 = e3
  Room = {r1, r2}
  Engine = {e1, e2, e3}
  NoEngine = NoEngine
  NoRoom = NoRoom
  MaxGames = 2
INVARIANTS
  TypeOK
  CapacityHeld
  GamesAreWatched
PROPERTY EnginesAreOwned
