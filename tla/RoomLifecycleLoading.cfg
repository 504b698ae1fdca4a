SPECIFICATION Spec
CONSTANTS
  MaxSeats = 3
  NoList = NoList
  l1 = l1
  l2 = l2
  Lists = {l1, l2}
  RulesModes = {"manual", "forge"}
  Formats = {"1v1", "edh", "group"}
  MatchModes = {"bo1"}
  LoadModes = {"required"}
  AIRooms = {TRUE, FALSE}
  Faults = {"setup"}
  MaxLoads = 2
  MaxSides = 1
  MaxDraws = 1
SYMMETRY ListSymmetry
INVARIANTS
  LoadingIsGated
  EngineMatchesMatch
PROPERTIES
  StartsFullyLoaded
CHECK_DEADLOCK FALSE
