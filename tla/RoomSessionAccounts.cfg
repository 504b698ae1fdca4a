SPECIFICATION Spec
CONSTANTS
  Conn = {c1, c2, c3}
  Room = {r1, r2}
  Account = {a1}
  NoConn = NoConn
  NoRoom = NoRoom
  NoAccount = NoAccount
  AI = AI
  MaxSeats = 2
  MaxSpectators = 1
  Kinds = {"group"}
  Faults = {"claim", "cube"}
SYMMETRY Symmetry
INVARIANTS
  OneSeatPerAccount
PROPERTY ReplacedGainsNothing
CHECK_DEADLOCK FALSE
