SPECIFICATION LiveSpec
CONSTANTS
  MaxSeats = 2
  NoList = NoList
  l1 = l1
  Lists = {l1}
  RulesModes = {"manual", "forge"}
  Formats = {"1v1"}
  MatchModes = {"bo3"}
  LoadModes = {"background"}
  AIRooms = {FALSE}
  Faults = {}
  MaxLoads = 1
  MaxSides = 2
  MaxDraws = 1
PROPERTIES
  SideboardEnds
  LostEngineNoticed
CHECK_DEADLOCK FALSE
