SPECIFICATION Spec
CONSTANTS
  MaxSeats = 3
  NoList = NoList
  l1 = l1
  Lists = {l1}
  RulesModes = {"manual", "forge"}
  Formats = {"1v1", "edh", "group"}
  MatchModes = {"bo1", "bo3"}
  LoadModes = {"background"}
  AIRooms = {TRUE, FALSE}
  Faults = {"setup"}
  MaxLoads = 2
  MaxSides = 2
  MaxDraws = 1
INVARIANTS
  ActiveSeatPlays
  MatchAccounts
  TypeOK
PROPERTIES
  StaleWatcherHarmless
  DecksCommitTogether
  StaleTimerHarmless
CHECK_DEADLOCK FALSE
