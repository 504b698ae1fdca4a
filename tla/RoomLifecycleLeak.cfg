SPECIFICATION Spec
CONSTANTS
  MaxSeats = 2
  NoList = NoList
  l1 = l1
  Lists = {l1}
  RulesModes = {"forge"}
  Formats = {"1v1"}
  MatchModes = {"bo3"}
  LoadModes = {"background"}
  AIRooms = {FALSE}
  Faults = {}
  MaxLoads = 3
  MaxSides = 2
  MaxDraws = 1
PROPERTY RegisteredForNewMatch
CHECK_DEADLOCK FALSE
